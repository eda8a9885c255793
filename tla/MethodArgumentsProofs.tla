------------------------ MODULE MethodArgumentsProofs ------------------------
(***************************************************************************)
(* Proofs about the argument templates, for parameter lists of any length  *)
(* over any types.                                                         *)
(***************************************************************************)
EXTENDS MethodArguments, FiniteSetTheorems, TLAPS

-----------------------------------------------------------------------------
(* Parameter lists and groups                                              *)

LEMMA ParamsType ==
  ASSUME params \in Signatures
  PROVE  /\ params \in Seq(Type) /\ Len(params) \in Nat
         /\ \A i \in Positions :
              /\ params[i] \in Type
              /\ params[i].form \in {"value", "pointer", "const pointer"}
              /\ params[i].of \in TypeNames
              /\ SizeOf[params[i].of] \in Nat
<1>1. params \in Seq(Type) /\ Len(params) \in Nat
  BY SignaturesAssumption
<1>2. ASSUME NEW i \in Positions PROVE params[i] \in Type
  BY <1>1 DEF Positions
<1> QED
  BY <1>1, <1>2, TypesAssumption DEF Type

(* The tokens of the groups differ in what the specialisations test.       *)
LEMMA Tokens ==
  /\ mach_port_t.form = "pointer" /\ mach_port_t # uint64Ptr
  /\ uint64Ptr.form = "pointer"
  /\ voidPtr.form = "pointer" /\ voidPtr # uint64Ptr /\ voidPtr # mach_port_t
  /\ constVoidPtr.form = "const pointer"
  /\ size_t.form = "value" /\ uint32_t.form = "value"
BY DEF mach_port_t, uint64Ptr, voidPtr, constVoidPtr, size_t, uint32_t

(* No token of a group is another one.                                     *)
LEMMA Distinct ==
  /\ uint32_t # mach_port_t /\ uint32_t # constVoidPtr /\ uint32_t # voidPtr
  /\ size_t # mach_port_t /\ size_t # constVoidPtr /\ size_t # voidPtr
  /\ uint64Ptr # mach_port_t /\ constVoidPtr # mach_port_t /\ voidPtr # mach_port_t
  /\ uint64Ptr # constVoidPtr /\ uint64Ptr # voidPtr /\ constVoidPtr # voidPtr
<1> DEFINE form(type) == type.form
<1>1. /\ form(uint32_t) = "value" /\ form(size_t) = "value"
      /\ form(mach_port_t) = "pointer" /\ form(voidPtr) = "pointer"
      /\ form(uint64Ptr) = "pointer" /\ form(constVoidPtr) = "const pointer"
  BY Tokens
<1>2. voidPtr # mach_port_t /\ uint64Ptr # mach_port_t /\ uint64Ptr # voidPtr
  BY Tokens
<1> HIDE DEF form
<1> QED
  BY <1>1, <1>2

LEMMA TokensTyped ==
  /\ mach_port_t \in Type /\ uint64Ptr \in Type /\ uint32_t \in Type
  /\ voidPtr \in Type /\ constVoidPtr \in Type /\ size_t \in Type
BY TypesAssumption DEF Type, mach_port_t, uint64Ptr, voidPtr, constVoidPtr, size_t, uint32_t

LEMMA AtAsync ==
  ASSUME NEW i \in Int, Len(params) \in Nat
  PROVE  At(i, AsyncTriple) <=>
           /\ i >= 1 /\ i + 2 <= Len(params)
           /\ params[i] = mach_port_t /\ params[i + 1] = uint64Ptr
           /\ params[i + 2] = uint32_t
<1>1. /\ Len(AsyncTriple) = 3 /\ AsyncTriple[1] = mach_port_t
      /\ AsyncTriple[2] = uint64Ptr /\ AsyncTriple[3] = uint32_t
  BY DEF AsyncTriple, io_user_reference_ptr
<1>2. i + 1 - 1 = i /\ i + 2 - 1 = i + 1 /\ i + 3 - 1 = i + 2
  OBVIOUS
<1>3. (\A k \in 1..3 : params[i + k - 1] = AsyncTriple[k]) <=>
        /\ params[i + 1 - 1] = AsyncTriple[1]
        /\ params[i + 2 - 1] = AsyncTriple[2]
        /\ params[i + 3 - 1] = AsyncTriple[3]
  <2>1. 1..3 = {1, 2, 3}
    OBVIOUS
  <2> QED
    BY <2>1
<1> QED
  BY <1>1, <1>2, <1>3 DEF At

LEMMA AtPair ==
  ASSUME NEW i \in Int, Len(params) \in Nat, NEW a, NEW b
  PROVE  At(i, <<a, b>>) <=>
           i >= 1 /\ i + 1 <= Len(params) /\ params[i] = a /\ params[i + 1] = b
<1>1. Len(<<a, b>>) = 2 /\ <<a, b>>[1] = a /\ <<a, b>>[2] = b
  OBVIOUS
<1>2. i + 1 - 1 = i /\ i + 2 - 1 = i + 1
  OBVIOUS
<1>3. (\A k \in 1..2 : params[i + k - 1] = <<a, b>>[k]) <=>
        params[i + 1 - 1] = <<a, b>>[1] /\ params[i + 2 - 1] = <<a, b>>[2]
  <2>1. 1..2 = {1, 2}
    OBVIOUS
  <2> QED
    BY <2>1
<1> QED
  BY <1>1, <1>2, <1>3 DEF At

LEMMA AtInput ==
  ASSUME NEW i \in Int, Len(params) \in Nat
  PROVE  At(i, VariableInput) <=>
           /\ i >= 1 /\ i + 1 <= Len(params)
           /\ params[i] = constVoidPtr /\ params[i + 1] = size_t
BY AtPair DEF VariableInput

LEMMA AtOutput ==
  ASSUME NEW i \in Int, Len(params) \in Nat
  PROVE  At(i, VariableOutput) <=>
           /\ i >= 1 /\ i + 1 <= Len(params)
           /\ params[i] = voidPtr /\ params[i + 1] = size_t
BY AtPair DEF VariableOutput

LEMMA GroupLengths ==
  Len(AsyncTriple) = 3 /\ Len(VariableInput) = 2 /\ Len(VariableOutput) = 2
BY DEF AsyncTriple, VariableInput, VariableOutput

LEMMA AlignedAsync ==
  ASSUME NEW n \in Int
  PROVE  Aligned(n, {AsyncTriple}) <=> ~At(n, AsyncTriple) /\ ~At(n - 1, AsyncTriple)
<1>1. 1..Len(AsyncTriple) - 1 = {1, 2}
  BY GroupLengths
<1>2. n + 1 - 1 = n /\ n + 1 - 2 = n - 1
  OBVIOUS
<1>3. Aligned(n, {AsyncTriple}) <=> \A k \in {1, 2} : ~At(n + 1 - k, AsyncTriple)
  BY <1>1 DEF Aligned
<1>4. (\A k \in {1, 2} : ~At(n + 1 - k, AsyncTriple)) <=>
        ~At(n + 1 - 1, AsyncTriple) /\ ~At(n + 1 - 2, AsyncTriple)
  OBVIOUS
<1> QED
  BY <1>2, <1>3, <1>4

LEMMA AlignedAll ==
  ASSUME NEW n \in Int
  PROVE  Aligned(n, Groups) <=>
           /\ ~At(n, AsyncTriple) /\ ~At(n - 1, AsyncTriple)
           /\ ~At(n, VariableInput) /\ ~At(n, VariableOutput)
<1>1. /\ 1..Len(AsyncTriple) - 1 = {1, 2}
      /\ 1..Len(VariableInput) - 1 = {1} /\ 1..Len(VariableOutput) - 1 = {1}
  BY GroupLengths
<1>2. n + 1 - 1 = n /\ n + 1 - 2 = n - 1
  OBVIOUS
<1> QED
  BY <1>1, <1>2 DEF Aligned, Groups

LEMMA GroupedCases ==
  ASSUME NEW i \in Int
  PROVE  Grouped(i) <=>
           \/ At(i, AsyncTriple) \/ At(i - 1, AsyncTriple) \/ At(i - 2, AsyncTriple)
           \/ At(i, VariableInput) \/ At(i - 1, VariableInput)
           \/ At(i, VariableOutput) \/ At(i - 1, VariableOutput)
<1>1. /\ 0..Len(AsyncTriple) - 1 = {0, 1, 2}
      /\ 0..Len(VariableInput) - 1 = {0, 1} /\ 0..Len(VariableOutput) - 1 = {0, 1}
  BY GroupLengths
<1>2. i - 0 = i
  OBVIOUS
<1> QED
  BY <1>1, <1>2 DEF Grouped, Groups

LEMMA AsyncCases ==
  ASSUME NEW i \in Int
  PROVE  (\A k \in 0..2 : ~At(i - k, AsyncTriple)) <=>
           ~At(i, AsyncTriple) /\ ~At(i - 1, AsyncTriple) /\ ~At(i - 2, AsyncTriple)
<1>1. 0..2 = {0, 1, 2} /\ i - 0 = i
  OBVIOUS
<1> QED
  BY <1>1

-----------------------------------------------------------------------------
(* One step along the list                                                 *)

(* After a group comes a parameter that is not inside one, and a group     *)
(* holds no scalars but those of an async triple that is matched whole.    *)
LEMMA GroupStep ==
  ASSUME params \in Signatures, NEW n \in Nat, NEW group \in Groups, At(n + 1, group)
  PROVE  /\ Len(group) \in {2, 3} /\ n + Len(group) <= Len(params)
         /\ Aligned(n + Len(group), Groups)
         /\ \A i \in n + 1..n + Len(group) : i \notin ScalarInputs /\ i \notin ScalarOutputs
<1>0. Len(params) \in Nat
  BY ParamsType
<1> DEFINE A(i) == At(i, AsyncTriple)
           I(i) == At(i, VariableInput)
           O(i) == At(i, VariableOutput)
<1>a. \A i \in Int : A(i) <=>
        /\ i >= 1 /\ i + 2 <= Len(params)
        /\ params[i] = mach_port_t /\ params[i + 1] = uint64Ptr /\ params[i + 2] = uint32_t
  BY <1>0, AtAsync
<1>i. \A i \in Int : I(i) <=>
        i >= 1 /\ i + 1 <= Len(params) /\ params[i] = constVoidPtr /\ params[i + 1] = size_t
  BY <1>0, AtInput
<1>o. \A i \in Int : O(i) <=>
        i >= 1 /\ i + 1 <= Len(params) /\ params[i] = voidPtr /\ params[i + 1] = size_t
  BY <1>0, AtOutput
<1>g. \A i \in Int : Grouped(i) <=>
        A(i) \/ A(i - 1) \/ A(i - 2) \/ I(i) \/ I(i - 1) \/ O(i) \/ O(i - 1)
  BY GroupedCases
<1>s. \A i \in Int : i \in ScalarOutputs =>
        params[i] = uint64Ptr /\ ~A(i) /\ ~A(i - 1) /\ ~A(i - 2)
  BY AsyncCases DEF ScalarOutputs
<1>t. \A i \in Int : i \in ScalarInputs => params[i].form = "value" /\ ~Grouped(i)
  BY DEF ScalarInputs
<1>l. \A m \in Int : Aligned(m, Groups) <=> ~A(m) /\ ~A(m - 1) /\ ~I(m) /\ ~O(m)
  BY AlignedAll
<1> HIDE DEF A, I, O
<1>1. CASE group = AsyncTriple
  <2>1. A(n + 1) /\ Len(group) = 3
    BY <1>1, GroupLengths DEF A
  <2>2. /\ n + 3 <= Len(params) /\ params[n + 1] = mach_port_t
        /\ params[n + 2] = uint64Ptr /\ params[n + 3] = uint32_t
    BY <2>1, <1>a, <1>0
  <2>3. ~A(n + 3) /\ ~A(n + 2) /\ ~I(n + 3) /\ ~O(n + 3)
    <3>1. n + 3 \in Int /\ n + 2 \in Int
      OBVIOUS
    <3>2. /\ params[n + 3] # mach_port_t /\ params[n + 3] # constVoidPtr
          /\ params[n + 3] # voidPtr /\ params[n + 2] # mach_port_t
      BY <2>2, Distinct
    <3> QED
      BY <3>1, <3>2, <1>a, <1>i, <1>o
  <2>4. Aligned(n + 3, Groups)
    BY <2>3, <1>l
  <2>5. ASSUME NEW i \in n + 1..n + 3 PROVE i \notin ScalarInputs /\ i \notin ScalarOutputs
    <3>1. i \in Int /\ (i = n + 1 \/ i - 1 = n + 1 \/ i - 2 = n + 1)
      OBVIOUS
    <3>2. A(i) \/ A(i - 1) \/ A(i - 2)
      BY <3>1, <2>1
    <3> QED
      BY <3>1, <3>2, <1>g, <1>s, <1>t
  <2> QED
    BY <2>1, <2>2, <2>4, <2>5
<1>2. CASE group = VariableInput
  <2>1. I(n + 1) /\ Len(group) = 2
    BY <1>2, GroupLengths DEF I
  <2>2. n + 2 <= Len(params) /\ params[n + 1] = constVoidPtr /\ params[n + 2] = size_t
    BY <2>1, <1>i, <1>0
  <2>3. ~A(n + 2) /\ ~A(n + 1) /\ ~I(n + 2) /\ ~O(n + 2)
    <3>1. n + 2 \in Int /\ n + 1 \in Int
      OBVIOUS
    <3>2. /\ params[n + 2] # mach_port_t /\ params[n + 2] # constVoidPtr
          /\ params[n + 2] # voidPtr /\ params[n + 1] # mach_port_t
      BY <2>2, Distinct
    <3> QED
      BY <3>1, <3>2, <1>a, <1>i, <1>o
  <2>4. Aligned(n + 2, Groups)
    BY <2>3, <1>l
  <2>5. ASSUME NEW i \in n + 1..n + 2 PROVE i \notin ScalarInputs /\ i \notin ScalarOutputs
    <3>1. i \in Int /\ (i = n + 1 \/ (i = n + 2 /\ i - 1 = n + 1))
      OBVIOUS
    <3>2. I(i) \/ I(i - 1)
      BY <3>1, <2>1
    <3>3. params[i] # uint64Ptr
      BY <3>1, <2>2, Tokens
    <3> QED
      BY <3>1, <3>2, <3>3, <1>g, <1>s, <1>t
  <2> QED
    BY <2>1, <2>2, <2>4, <2>5
<1>3. CASE group = VariableOutput
  <2>1. O(n + 1) /\ Len(group) = 2
    BY <1>3, GroupLengths DEF O
  <2>2. n + 2 <= Len(params) /\ params[n + 1] = voidPtr /\ params[n + 2] = size_t
    BY <2>1, <1>o, <1>0
  <2>3. ~A(n + 2) /\ ~A(n + 1) /\ ~I(n + 2) /\ ~O(n + 2)
    <3>1. n + 2 \in Int /\ n + 1 \in Int
      OBVIOUS
    <3>2. /\ params[n + 2] # mach_port_t /\ params[n + 2] # constVoidPtr
          /\ params[n + 2] # voidPtr /\ params[n + 1] # mach_port_t
      BY <2>2, Distinct
    <3> QED
      BY <3>1, <3>2, <1>a, <1>i, <1>o
  <2>4. Aligned(n + 2, Groups)
    BY <2>3, <1>l
  <2>5. ASSUME NEW i \in n + 1..n + 2 PROVE i \notin ScalarInputs /\ i \notin ScalarOutputs
    <3>1. i \in Int /\ (i = n + 1 \/ (i = n + 2 /\ i - 1 = n + 1))
      OBVIOUS
    <3>2. O(i) \/ O(i - 1)
      BY <3>1, <2>1
    <3>3. params[i] # uint64Ptr
      BY <3>1, <2>2, Tokens
    <3> QED
      BY <3>1, <3>2, <3>3, <1>g, <1>s, <1>t
  <2> QED
    BY <2>1, <2>2, <2>4, <2>5
<1> QED
  BY <1>1, <1>2, <1>3 DEF Groups

(* A parameter where no group begins, and that is not inside one, is what  *)
(* its type alone says it is.                                              *)
LEMMA OneStep ==
  ASSUME params \in Signatures, NEW n \in Nat, n < Len(params), Aligned(n, Groups),
         \A group \in Groups : ~At(n + 1, group)
  PROVE  /\ Aligned(n + 1, Groups)
         /\ n + 1 \in ScalarInputs <=> params[n + 1].form = "value"
         /\ n + 1 \in ScalarOutputs <=> params[n + 1] = uint64Ptr
<1>0. Len(params) \in Nat
  BY ParamsType
<1>p. n + 1 \in Positions
  BY <1>0 DEF Positions
<1>1. ~At(n + 1, AsyncTriple) /\ ~At(n + 1, VariableInput) /\ ~At(n + 1, VariableOutput)
  BY DEF Groups
<1>2. ~At(n, AsyncTriple) /\ ~At(n - 1, AsyncTriple) /\ ~At(n, VariableInput) /\ ~At(n, VariableOutput)
  BY AlignedAll
<1>3. n + 1 - 1 = n /\ n + 1 - 2 = n - 1
  OBVIOUS
<1>4. Aligned(n + 1, Groups)
  BY <1>1, <1>2, <1>3, AlignedAll
<1>5. ~Grouped(n + 1)
  BY <1>1, <1>2, <1>3, GroupedCases
<1>6. \A k \in 0..2 : ~At(n + 1 - k, AsyncTriple)
  BY <1>1, <1>2, <1>3, AsyncCases
<1> QED
  BY <1>p, <1>4, <1>5, <1>6 DEF ScalarInputs, ScalarOutputs

-----------------------------------------------------------------------------
(* Counting                                                                *)

LEMMA CountType ==
  ASSUME NEW N \in Nat, NEW S \in SUBSET (1..N), NEW n \in Int
  PROVE  /\ Upto(S, n) \subseteq S /\ IsFiniteSet(S)
         /\ IsFiniteSet(Upto(S, n)) /\ Count(S, n) \in Nat
<1>1. IsFiniteSet(1..N)
  <2>1. 1 \in Int /\ N \in Int
    OBVIOUS
  <2> QED
    BY <2>1, FS_Interval
<1>2. Upto(S, n) \subseteq S /\ Upto(S, n) \in SUBSET (1..N)
  BY DEF Upto
<1>3. IsFiniteSet(Upto(S, n)) /\ IsFiniteSet(S)
  BY <1>1, <1>2, FS_Subset
<1>4. Cardinality(Upto(S, n)) \in Nat
  BY <1>3, FS_CardinalityType
<1> QED
  BY <1>2, <1>3, <1>4 DEF Count

LEMMA UptoNext ==
  ASSUME NEW N \in Nat, NEW S \in SUBSET (1..N), NEW n \in Int
  PROVE  /\ n + 1 \notin Upto(S, n)
         /\ Upto(S, n + 1) = IF n + 1 \in S THEN Upto(S, n) \union {n + 1} ELSE Upto(S, n)
<1>1. \A i \in S : i <= n + 1 <=> i <= n \/ i = n + 1
  <2> SUFFICES ASSUME NEW i \in S PROVE i <= n + 1 <=> i <= n \/ i = n + 1
    OBVIOUS
  <2>1. i \in Int
    OBVIOUS
  <2> QED
    BY <2>1
<1>2. n + 1 \notin Upto(S, n)
  BY DEF Upto
<1>3. CASE n + 1 \in S
  BY <1>1, <1>2, <1>3 DEF Upto
<1>4. CASE n + 1 \notin S
  BY <1>1, <1>2, <1>4 DEF Upto
<1> QED
  BY <1>3, <1>4

LEMMA CountNext ==
  ASSUME NEW N \in Nat, NEW S \in SUBSET (1..N), NEW n \in Int
  PROVE  Count(S, n + 1) = IF n + 1 \in S THEN Count(S, n) + 1 ELSE Count(S, n)
<1>1. IsFiniteSet(Upto(S, n))
  BY CountType
<1>2. n + 1 \notin Upto(S, n)
  BY UptoNext
<1>3. Cardinality(Upto(S, n) \union {n + 1}) = Cardinality(Upto(S, n)) + 1
  BY <1>1, <1>2, FS_AddElement
<1>4. CASE n + 1 \in S
  BY <1>3, <1>4, UptoNext DEF Count
<1>5. CASE n + 1 \notin S
  BY <1>5, UptoNext DEF Count
<1> QED
  BY <1>4, <1>5

LEMMA CountSame ==
  ASSUME NEW N \in Nat, NEW S \in SUBSET (1..N), NEW n \in Int, NEW m \in Int, n <= m,
         \A i \in n + 1..m : i \notin S
  PROVE  Upto(S, m) = Upto(S, n) /\ Count(S, m) = Count(S, n)
<1>1. \A i \in S : i \in Int /\ (i <= m <=> i <= n)
  <2> SUFFICES ASSUME NEW i \in S PROVE i \in Int /\ (i <= m <=> i <= n)
    OBVIOUS
  <2>1. i \in Int
    OBVIOUS
  <2>2. ~(i <= m /\ i > n)
    BY <2>1
  <2> QED
    BY <2>1, <2>2
<1>2. Upto(S, m) = Upto(S, n)
  BY <1>1 DEF Upto
<1> QED
  BY <1>2 DEF Count

LEMMA CountGrows ==
  ASSUME NEW N \in Nat, NEW S \in SUBSET (1..N), NEW n \in Int, NEW m \in Int, n <= m
  PROVE  Count(S, n) <= Count(S, m)
<1>0. \A i \in S : i <= n => i <= m
  <2> SUFFICES ASSUME NEW i \in S, i <= n PROVE i <= m
    OBVIOUS
  <2>1. i \in Int
    OBVIOUS
  <2> QED
    BY <2>1
<1>1. Upto(S, n) \in SUBSET Upto(S, m)
  BY <1>0 DEF Upto
<1>2. IsFiniteSet(Upto(S, m))
  BY CountType
<1> QED
  BY <1>1, <1>2, FS_Subset DEF Count

(* Members of a set are numbered by the members before them.               *)
LEMMA CountNumbers ==
  ASSUME NEW N \in Nat, NEW S \in SUBSET (1..N), NEW i \in S, NEW m \in Int, i <= m
  PROVE  Count(S, i - 1) < Count(S, m)
<1>1. i \in Int /\ i - 1 \in Int /\ i - 1 + 1 = i
  OBVIOUS
<1>2. Count(S, i - 1 + 1) = IF i - 1 + 1 \in S THEN Count(S, i - 1) + 1 ELSE Count(S, i - 1)
  <2> DEFINE j == i - 1
  <2>1. j \in Int
    BY <1>1
  <2> HIDE DEF j
  <2>2. Count(S, j + 1) = IF j + 1 \in S THEN Count(S, j) + 1 ELSE Count(S, j)
    BY <2>1, CountNext
  <2> QED
    BY <2>2 DEF j
<1>3. Count(S, i) <= Count(S, m)
  BY <1>1, CountGrows
<1>4. Count(S, i) \in Nat /\ Count(S, i - 1) \in Nat /\ Count(S, m) \in Nat
  BY <1>1, CountType
<1>5. Count(S, i) = Count(S, i - 1) + 1
  BY <1>1, <1>2
<1> QED
  BY <1>3, <1>4, <1>5

LEMMA CountAll ==
  ASSUME NEW N \in Nat, NEW S \in SUBSET (1..N)
  PROVE  Upto(S, N) = S /\ Count(S, N) = Cardinality(S) /\ Upto(S, 0) = {} /\ Count(S, 0) = 0
<1>1. \A i \in S : i <= N /\ ~(i <= 0)
  OBVIOUS
<1>2. Upto(S, N) = S /\ Upto(S, 0) = {}
  BY <1>1 DEF Upto
<1> QED
  BY <1>2, FS_EmptySet DEF Count

-----------------------------------------------------------------------------
(* What is said of the parameter list alone stays true of it.              *)
LEMMA Frame ==
  ASSUME params' = params
  PROVE  /\ Len(params') = Len(params) /\ Positions' = Positions
         /\ ScalarInputs' = ScalarInputs /\ ScalarOutputs' = ScalarOutputs
         /\ StructInputs' = StructInputs /\ StructOutputs' = StructOutputs
         /\ \A i : InputSize(i)' = InputSize(i) /\ OutputSize(i)' = OutputSize(i)
         /\ \A i, group : At(i, group)' <=> At(i, group)
         /\ \A n, groups : Aligned(n, groups)' <=> Aligned(n, groups)
<1>1. \A i, group : At(i, group)' <=> At(i, group)
  BY DEF At
<1>2. Positions' = Positions
  BY DEF Positions
<1>3. \A i : Grouped(i)' <=> Grouped(i)
  BY <1>1 DEF Grouped
<1>4. ScalarInputs' = ScalarInputs
  BY <1>2, <1>3 DEF ScalarInputs
<1>5. ScalarOutputs' = ScalarOutputs
  BY <1>1, <1>2 DEF ScalarOutputs
<1>6. StructInputs' = StructInputs
  BY <1>2 DEF StructInputs
<1>7. StructOutputs' = StructOutputs
  BY <1>1, <1>2 DEF StructOutputs
<1>8. \A i : InputSize(i)' = InputSize(i) /\ OutputSize(i)' = OutputSize(i)
  BY <1>1 DEF InputSize, OutputSize
<1>9. \A n, groups : Aligned(n, groups)' <=> Aligned(n, groups)
  BY <1>1 DEF Aligned
<1> QED
  BY <1>1, <1>2, <1>4, <1>5, <1>6, <1>7, <1>8, <1>9

-----------------------------------------------------------------------------
(* Steps                                                                   *)

LEMMA TemplateOrder ==
  /\ Templates = {"scalar_input_arg_count", "scalar_output_arg_count",
                  "struct_input_arg_size", "struct_output_arg_size",
                  "is_async_method", "arg_seq_accum"}
  /\ Order["scalar_input_arg_count"] = 1 /\ Order["scalar_output_arg_count"] = 2
  /\ Order["struct_input_arg_size"] = 3 /\ Order["struct_output_arg_size"] = 4
  /\ Order["is_async_method"] = 5 /\ Order["arg_seq_accum"] = 6
BY DEF Templates, Order

LEMMA ConsumedType ==
  ASSUME TypeOK, NEW t \in Templates
  PROVE  /\ params \in Signatures /\ Len(params) \in Nat
         /\ consumed[t] \in Nat /\ consumed[t] <= Len(params)
<1>1. params \in Signatures /\ consumed \in [Templates -> 0..Len(params)]
  BY DEF TypeOK
<1>2. Len(params) \in Nat
  BY <1>1, ParamsType
<1>3. consumed[t] \in 0..Len(params)
  BY <1>1
<1> QED
  BY <1>1, <1>2, <1>3

(* Template t takes parameters off the list, within it, and the others     *)
(* stay where they are.                                                    *)
Advances(t) ==
  /\ consumed' \in [Templates -> 0..Len(params)]
  /\ \A u \in Templates : u # t => consumed'[u] = consumed[u]
  /\ params' = params /\ rejected' = rejected
  /\ InOrder'

(* A template that takes n parameters off the list stays within it, and    *)
(* does so before the templates after it have begun.                       *)
LEMMA Consumes ==
  ASSUME TypeOK, InOrder, NEW t \in Templates, NEW n \in Nat, n >= 1,
         consumed[t] + n <= Len(params), Consume(t, n)
  PROVE  consumed'[t] = consumed[t] + n /\ Advances(t)
<1>1. Len(params) \in Nat /\ consumed \in [Templates -> 0..Len(params)]
  BY ParamsType DEF TypeOK
<1>2. /\ consumed' = [consumed EXCEPT ![t] = @ + n]
      /\ params' = params /\ rejected' = rejected
      /\ consumed[t] < Len(params)
      /\ \A u \in Templates : Order[u] < Order[t] => consumed[u] = Len(params)
  BY DEF Consume, Instantiates
<1>3. consumed[t] \in 0..Len(params) /\ consumed[t] + n \in 0..Len(params)
  BY <1>1
<1>4. consumed' \in [Templates -> 0..Len(params)]
  BY <1>1, <1>2, <1>3
<1>5. consumed'[t] = consumed[t] + n
  BY <1>1, <1>2
<1>6. \A u \in Templates : u # t => consumed'[u] = consumed[u]
  BY <1>1, <1>2
<1>7. ASSUME NEW a \in Templates, NEW u \in Templates, Order[u] < Order[a], consumed'[a] > 0
      PROVE  consumed'[u] = Len(params)
  <2>0. Order[u] \in Int /\ Order[a] \in Int /\ u # a
    BY <1>7, TemplateOrder
  <2>1. CASE a = t
    BY <2>0, <2>1, <1>7, <1>2, <1>6
  <2>2. CASE a # t
    <3>1. consumed[u] = Len(params)
      BY <2>2, <1>6, <1>7 DEF InOrder
    <3>2. u # t
      BY <3>1, <1>2, <1>1
    <3> QED
      BY <3>1, <3>2, <1>6
  <2> QED
    BY <2>1, <2>2
<1>8. InOrder'
  BY <1>2, <1>7 DEF InOrder
<1> QED
  BY <1>2, <1>4, <1>5, <1>6, <1>8 DEF Advances

LEMMA TakesGroup ==
  ASSUME TypeOK, InOrder, NEW t \in Templates, NEW group \in Groups, ConsumeGroup(t, group)
  PROVE  /\ consumed[t] \in Nat /\ At(consumed[t] + 1, group)
         /\ Len(group) \in {2, 3} /\ consumed[t] + Len(group) <= Len(params)
         /\ consumed'[t] = consumed[t] + Len(group) /\ Advances(t)
<1>1. consumed[t] \in Nat /\ params \in Signatures
  BY ConsumedType
<1>2. At(consumed[t] + 1, group) /\ Consume(t, Len(group))
  BY DEF ConsumeGroup, Remaining
<1>3. Len(group) \in {2, 3} /\ consumed[t] + Len(group) <= Len(params)
  BY <1>1, <1>2, GroupStep
<1>4. Len(group) \in Nat /\ Len(group) >= 1
  BY <1>3
<1> QED
  BY <1>1, <1>2, <1>3, <1>4, Consumes

LEMMA TakesOne ==
  ASSUME TypeOK, InOrder, NEW t \in Templates, NEW groups, ConsumeOne(t, groups)
  PROVE  /\ consumed[t] \in Nat /\ consumed[t] + 1 <= Len(params)
         /\ consumed[t] + 1 \in Positions /\ First(t) = params[consumed[t] + 1]
         /\ \A group \in groups : ~At(consumed[t] + 1, group)
         /\ consumed'[t] = consumed[t] + 1 /\ Advances(t)
<1>1. consumed[t] \in Nat /\ Len(params) \in Nat
  BY ConsumedType
<1>2. Consume(t, 1) /\ \A group \in groups : ~At(consumed[t] + 1, group)
  BY DEF ConsumeOne, Remaining
<1>3. consumed[t] + 1 <= Len(params)
  BY <1>1, <1>2 DEF Consume, Instantiates
<1>4. consumed[t] + 1 \in Positions /\ First(t) = params[consumed[t] + 1]
  BY <1>1, <1>3 DEF Positions, First, Remaining
<1>5. 1 \in Nat /\ 1 >= 1
  OBVIOUS
<1> QED
  BY <1>1, <1>2, <1>3, <1>4, <1>5, Consumes

(* What a template has made of the list does not depend on the others.     *)
LEMMA Untouched ==
  ASSUME params' = params
  PROVE  /\ /\ InputsInv /\ inputs' = inputs
            /\ consumed'["scalar_input_arg_count"] = consumed["scalar_input_arg_count"]
            => InputsInv'
         /\ /\ OutputsInv /\ outputs' = outputs
            /\ consumed'["scalar_output_arg_count"] = consumed["scalar_output_arg_count"]
            => OutputsInv'
         /\ /\ StructInputInv /\ struct_input_size' = struct_input_size
            /\ consumed'["struct_input_arg_size"] = consumed["struct_input_arg_size"]
            => StructInputInv'
         /\ /\ StructOutputInv /\ struct_output_size' = struct_output_size
            /\ consumed'["struct_output_arg_size"] = consumed["struct_output_arg_size"]
            => StructOutputInv'
         /\ /\ AsyncInv /\ (is_async' <=> is_async)
            /\ consumed'["is_async_method"] = consumed["is_async_method"]
            => AsyncInv'
         /\ /\ SelectorsInv /\ seq' = seq
            /\ next_input' = next_input /\ next_output' = next_output
            /\ consumed'["arg_seq_accum"] = consumed["arg_seq_accum"]
            => SelectorsInv'
<1>1. ASSUME InputsInv, inputs' = inputs,
             consumed'["scalar_input_arg_count"] = consumed["scalar_input_arg_count"]
      PROVE  InputsInv'
  BY <1>1, Frame DEF InputsInv
<1>2. ASSUME OutputsInv, outputs' = outputs,
             consumed'["scalar_output_arg_count"] = consumed["scalar_output_arg_count"]
      PROVE  OutputsInv'
  BY <1>2, Frame DEF OutputsInv
<1>3. ASSUME StructInputInv, struct_input_size' = struct_input_size,
             consumed'["struct_input_arg_size"] = consumed["struct_input_arg_size"]
      PROVE  StructInputInv'
  BY <1>3, Frame DEF StructInputInv
<1>4. ASSUME StructOutputInv, struct_output_size' = struct_output_size,
             consumed'["struct_output_arg_size"] = consumed["struct_output_arg_size"]
      PROVE  StructOutputInv'
  BY <1>4, Frame DEF StructOutputInv
<1>5. ASSUME AsyncInv, is_async' <=> is_async,
             consumed'["is_async_method"] = consumed["is_async_method"]
      PROVE  AsyncInv'
  BY <1>5, Frame DEF AsyncInv
<1>6. ASSUME SelectorsInv, seq' = seq, next_input' = next_input, next_output' = next_output,
             consumed'["arg_seq_accum"] = consumed["arg_seq_accum"]
      PROVE  SelectorsInv'
  <2>1. ASSUME NEW i \in 1..consumed["arg_seq_accum"] PROVE Reads(seq[i], i)'
    <3>1. Reads(seq[i], i)
      BY <1>6 DEF SelectorsInv
    <3> QED
      BY <3>1, <1>6, Frame DEF Reads
  <2> QED
    BY <2>1, <1>6, Frame DEF SelectorsInv
<1> QED
  BY <1>1, <1>2, <1>3, <1>4, <1>5, <1>6

(* The positions the templates count are positions of the list.            *)
LEMMA PositionSets ==
  /\ ScalarInputs \in SUBSET (1..Len(params)) /\ ScalarOutputs \in SUBSET (1..Len(params))
  /\ StructInputs \in SUBSET (1..Len(params)) /\ StructOutputs \in SUBSET (1..Len(params))
BY DEF ScalarInputs, ScalarOutputs, StructInputs, StructOutputs, Positions

-----------------------------------------------------------------------------
(* scalar_input_arg_count                                                  *)

LEMMA InputsStep ==
  ASSUME IInv, InputsIgnoreGroup \/ InputsIgnorePointer \/ InputsCount
  PROVE  IInv'
<1> DEFINE t == "scalar_input_arg_count"
           n == consumed[t]
           Done == /\ Advances(t)
                   /\ UNCHANGED <<outputs, struct_input_size, struct_output_size,
                                  is_async, selection>>
                   /\ Aligned(consumed'[t], Groups)
                   /\ inputs' \in Nat /\ inputs' = Count(ScalarInputs, consumed'[t])
<1>0. t \in Templates /\ InputGroups = Groups /\ TypeOK /\ InOrder
  BY TemplateOrder DEF IInv, InputGroups, Groups
<1>1. /\ n \in Nat /\ params \in Signatures /\ Len(params) \in Nat
      /\ Aligned(n, Groups) /\ inputs = Count(ScalarInputs, n) /\ inputs \in Nat
      /\ ScalarInputs \in SUBSET (1..Len(params))
  BY <1>0, ConsumedType, PositionSets DEF IInv, InputsInv, TypeOK
<1>2. ASSUME InputsIgnoreGroup PROVE Done
  <2>1. PICK group \in Groups : ConsumeGroup(t, group)
    BY <1>2, <1>0 DEF InputsIgnoreGroup
  <2>2. UNCHANGED <<limits, selection>>
    BY <1>2 DEF InputsIgnoreGroup
  <2>3. /\ At(n + 1, group) /\ Len(group) \in {2, 3}
        /\ consumed'[t] = n + Len(group) /\ Advances(t)
    BY <2>1, <1>0, TakesGroup
  <2> HIDE DEF n, t
  <2>4. Aligned(n + Len(group), Groups) /\ \A i \in n + 1..n + Len(group) : i \notin ScalarInputs
    BY <1>1, <2>3, GroupStep
  <2>5. n + Len(group) \in Int /\ n <= n + Len(group) /\ n \in Int
    BY <1>1, <2>3
  <2>6. Count(ScalarInputs, n + Len(group)) = Count(ScalarInputs, n)
    BY <1>1, <2>4, <2>5, CountSame
  <2> QED
    BY <2>2, <2>3, <2>4, <2>6, <1>1 DEF limits
<1>3. ASSUME InputsIgnorePointer \/ InputsCount PROVE Done
  <2>1. ConsumeOne(t, Groups)
    BY <1>3, <1>0 DEF InputsIgnorePointer, InputsCount
  <2>2. /\ UNCHANGED <<outputs, struct_input_size, struct_output_size, is_async, selection>>
        /\ inputs' = IF First(t).form = "value" THEN inputs + 1 ELSE inputs
    BY <1>3 DEF InputsIgnorePointer, InputsCount, limits
  <2>3. /\ n + 1 <= Len(params) /\ First(t) = params[n + 1]
        /\ \A group \in Groups : ~At(n + 1, group)
        /\ consumed'[t] = n + 1 /\ Advances(t)
    BY <2>1, <1>0, TakesOne
  <2> HIDE DEF n, t
  <2>4. n < Len(params) /\ n \in Int
    BY <2>3, <1>1
  <2>5. Aligned(n + 1, Groups) /\ (n + 1 \in ScalarInputs <=> params[n + 1].form = "value")
    BY <1>1, <2>3, <2>4, OneStep
  <2>6. Count(ScalarInputs, n + 1) =
          IF n + 1 \in ScalarInputs THEN Count(ScalarInputs, n) + 1 ELSE Count(ScalarInputs, n)
    BY <1>1, <2>4, CountNext
  <2> QED
    BY <2>2, <2>3, <2>5, <2>6, <1>1
<1>4. Done
  BY <1>2, <1>3
<1>5. TypeOK'
  BY <1>0, <1>4 DEF TypeOK, Advances, selection
<1>6. InputsInv'
  BY <1>4, Frame DEF InputsInv, Advances
<1>7. OutputsInv' /\ StructInputInv' /\ StructOutputInv' /\ AsyncInv' /\ SelectorsInv'
  BY <1>4, Untouched, TemplateOrder DEF IInv, Advances, selection
<1> QED
  BY <1>4, <1>5, <1>6, <1>7 DEF IInv, Advances

-----------------------------------------------------------------------------
(* scalar_output_arg_count                                                 *)

(* This template only keeps the async triple together.                     *)
LEMMA TripleStep ==
  ASSUME params \in Signatures, NEW n \in Nat, At(n + 1, AsyncTriple)
  PROVE  /\ Aligned(n + 3, {AsyncTriple})
         /\ \A i \in n + 1..n + 3 : i \notin ScalarOutputs
<1>1. AsyncTriple \in Groups /\ Len(AsyncTriple) = 3
  BY GroupLengths DEF Groups
<1>2. Aligned(n + 3, Groups) /\ \A i \in n + 1..n + 3 : i \notin ScalarOutputs
  BY <1>1, GroupStep
<1> QED
  BY <1>1, <1>2 DEF Aligned

LEMMA OutputStep ==
  ASSUME params \in Signatures, NEW n \in Nat, n < Len(params),
         Aligned(n, {AsyncTriple}), ~At(n + 1, AsyncTriple)
  PROVE  /\ Aligned(n + 1, {AsyncTriple})
         /\ n + 1 \in ScalarOutputs <=> params[n + 1] = uint64Ptr
<1>1. Len(params) \in Nat
  BY ParamsType
<1>2. n + 1 \in Positions
  BY <1>1 DEF Positions
<1>i. n \in Int /\ n + 1 \in Int
  OBVIOUS
<1>3. ~At(n, AsyncTriple) /\ ~At(n - 1, AsyncTriple)
  BY <1>i, AlignedAsync
<1>4. n + 1 - 1 = n /\ n + 1 - 2 = n - 1
  OBVIOUS
<1>5. \A k \in 0..2 : ~At(n + 1 - k, AsyncTriple)
  BY <1>3, <1>4, AsyncCases
<1>6. Aligned(n + 1, {AsyncTriple})
  <2>1. ~At(n + 1 - 1, AsyncTriple)
    BY <1>3, <1>4
  <2> DEFINE m == n + 1
  <2>2. m \in Int /\ ~At(m, AsyncTriple) /\ ~At(m - 1, AsyncTriple)
    BY <1>i, <2>1
  <2> HIDE DEF m
  <2>3. Aligned(m, {AsyncTriple})
    BY <2>2, AlignedAsync
  <2> QED
    BY <2>3 DEF m
<1> QED
  BY <1>2, <1>5, <1>6 DEF ScalarOutputs

LEMMA OutputsStep ==
  ASSUME IInv, OutputsIgnoreGroup \/ OutputsIgnore \/ OutputsCount
  PROVE  IInv'
<1> DEFINE t == "scalar_output_arg_count"
           n == consumed[t]
           Done == /\ Advances(t)
                   /\ UNCHANGED <<inputs, struct_input_size, struct_output_size,
                                  is_async, selection>>
                   /\ Aligned(consumed'[t], {AsyncTriple})
                   /\ outputs' \in Nat /\ outputs' = Count(ScalarOutputs, consumed'[t])
<1>0. t \in Templates /\ TypeOK /\ InOrder
  BY TemplateOrder DEF IInv
<1>1. /\ n \in Nat /\ params \in Signatures /\ Len(params) \in Nat
      /\ Aligned(n, {AsyncTriple}) /\ outputs = Count(ScalarOutputs, n) /\ outputs \in Nat
      /\ ScalarOutputs \in SUBSET (1..Len(params))
  BY <1>0, ConsumedType, PositionSets DEF IInv, OutputsInv, TypeOK
<1>2. ASSUME OutputsIgnoreGroup PROVE Done
  <2>1. ConsumeGroup(t, AsyncTriple) /\ UNCHANGED <<limits, selection>>
    BY <1>2 DEF OutputsIgnoreGroup, OutputGroups
  <2>2. AsyncTriple \in Groups /\ Len(AsyncTriple) = 3
    BY GroupLengths DEF Groups
  <2>3. At(n + 1, AsyncTriple) /\ consumed'[t] = n + 3 /\ Advances(t)
    BY <2>1, <2>2, <1>0, TakesGroup
  <2> HIDE DEF n, t
  <2>4. Aligned(n + 3, {AsyncTriple}) /\ \A i \in n + 1..n + 3 : i \notin ScalarOutputs
    BY <1>1, <2>3, TripleStep
  <2>5. n + 3 \in Int /\ n <= n + 3 /\ n \in Int
    BY <1>1
  <2>6. Count(ScalarOutputs, n + 3) = Count(ScalarOutputs, n)
    BY <1>1, <2>4, <2>5, CountSame
  <2> QED
    BY <2>1, <2>3, <2>4, <2>6, <1>1 DEF limits
<1>3. ASSUME OutputsIgnore \/ OutputsCount PROVE Done
  <2>1. ConsumeOne(t, {AsyncTriple})
    BY <1>3 DEF OutputsIgnore, OutputsCount, OutputGroups
  <2>2. /\ UNCHANGED <<inputs, struct_input_size, struct_output_size, is_async, selection>>
        /\ outputs' = IF First(t) = uint64Ptr THEN outputs + 1 ELSE outputs
    BY <1>3 DEF OutputsIgnore, OutputsCount, limits
  <2>3. /\ n + 1 <= Len(params) /\ First(t) = params[n + 1] /\ ~At(n + 1, AsyncTriple)
        /\ consumed'[t] = n + 1 /\ Advances(t)
    BY <2>1, <1>0, TakesOne
  <2> HIDE DEF n, t
  <2>4. n < Len(params) /\ n \in Int
    BY <2>3, <1>1
  <2>5. Aligned(n + 1, {AsyncTriple}) /\ (n + 1 \in ScalarOutputs <=> params[n + 1] = uint64Ptr)
    BY <1>1, <2>3, <2>4, OutputStep
  <2>6. Count(ScalarOutputs, n + 1) =
          IF n + 1 \in ScalarOutputs THEN Count(ScalarOutputs, n) + 1 ELSE Count(ScalarOutputs, n)
    BY <1>1, <2>4, CountNext
  <2> QED
    BY <2>2, <2>3, <2>5, <2>6, <1>1
<1>4. Done
  BY <1>2, <1>3
<1>5. TypeOK'
  BY <1>0, <1>4 DEF TypeOK, Advances, selection
<1>6. OutputsInv'
  BY <1>4, Frame DEF OutputsInv, Advances
<1>7. InputsInv' /\ StructInputInv' /\ StructOutputInv' /\ AsyncInv' /\ SelectorsInv'
  BY <1>4, Untouched, TemplateOrder DEF IInv, Advances, selection
<1> QED
  BY <1>4, <1>5, <1>6, <1>7 DEF IInv, Advances

-----------------------------------------------------------------------------
(* struct_input_arg_size and struct_output_arg_size                        *)

LEMMA RejectStep ==
  ASSUME IInv, NEW t, Reject(t)
  PROVE  IInv'
<1>1. /\ rejected' = TRUE /\ params' = params /\ consumed' = consumed
      /\ UNCHANGED <<inputs, outputs, struct_input_size, struct_output_size, is_async,
                     next_input, next_output, seq>>
  BY DEF Reject, limits, selection
<1>2. TypeOK'
  BY <1>1 DEF IInv, TypeOK
<1>3. InOrder'
  BY <1>1 DEF IInv, InOrder
<1>4. InputsInv' /\ OutputsInv' /\ StructInputInv' /\ StructOutputInv' /\ AsyncInv' /\ SelectorsInv'
  BY <1>1, Untouched DEF IInv
<1> QED
  BY <1>2, <1>3, <1>4 DEF IInv

(* The const pointers of the pattern, and of a parameter on its own.       *)
LEMMA InputPair ==
  ASSUME params \in Signatures, NEW n \in Nat, At(n + 1, VariableInput)
  PROVE  n + 1 \in StructInputs /\ n + 2 \notin StructInputs /\ n + 2 <= Len(params)
<1>l. Len(params) \in Nat
  BY ParamsType
<1>0. Len(params) \in Nat /\ n + 1 \in Int /\ n + 1 + 1 = n + 2
  BY <1>l
<1>1. /\ n + 1 >= 1 /\ n + 2 <= Len(params)
      /\ params[n + 1] = constVoidPtr /\ params[n + 2] = size_t
  <2>1. \A i \in Int : At(i, VariableInput) =>
          i >= 1 /\ i + 1 <= Len(params) /\ params[i] = constVoidPtr /\ params[i + 1] = size_t
    BY <1>0, AtInput
  <2> QED
    BY <1>0, <2>1
<1>2. n + 1 \in Positions
  BY <1>0, <1>1 DEF Positions
<1> QED
  BY <1>1, <1>2, Tokens DEF StructInputs

LEMMA StructInputStep ==
  ASSUME IInv, \/ StructInputVariable \/ StructInputFixed
               \/ StructInputRejected \/ StructInputIgnore
  PROVE  IInv'
<1> DEFINE t == "struct_input_arg_size"
           n == consumed[t]
           passed == Upto(StructInputs, n)
           next == Upto(StructInputs, consumed'[t])
           Done == /\ Advances(t)
                   /\ UNCHANGED <<inputs, outputs, struct_output_size, is_async, selection>>
                   /\ struct_input_size' \in StructSizes
                   /\ struct_input_size' = 0 <=> next = {}
                   /\ \A i \in next : struct_input_size' = InputSize(i)
                   /\ \A i, j \in next : i = j
<1>0. t \in Templates /\ TypeOK /\ InOrder
  BY TemplateOrder DEF IInv
<1>1. /\ n \in Nat /\ params \in Signatures /\ Len(params) \in Nat
      /\ n \in Int /\ n + 1 \in Int /\ n + 2 \in Int
      /\ StructInputs \in SUBSET (1..Len(params))
  BY <1>0, ConsumedType, PositionSets
<1>2. /\ struct_input_size = 0 <=> passed = {}
      /\ \A i \in passed : struct_input_size = InputSize(i)
      /\ \A i, j \in passed : i = j
      /\ struct_input_size \in StructSizes
  BY DEF IInv, StructInputInv, TypeOK
<1>3. ASSUME StructInputVariable PROVE Done
  <2>1. /\ ConsumeGroup(t, VariableInput) /\ struct_input_size = 0
        /\ struct_input_size' = kIOUCVariableStructureSize
        /\ UNCHANGED <<inputs, outputs, struct_output_size, is_async, selection>>
    BY <1>3 DEF StructInputVariable
  <2>2. VariableInput \in Groups /\ Len(VariableInput) = 2
    BY GroupLengths DEF Groups
  <2>3. At(n + 1, VariableInput) /\ consumed'[t] = n + 2 /\ Advances(t)
    BY <2>1, <2>2, <1>0, TakesGroup
  <2> HIDE DEF n, t
  <2>4. n + 1 \in StructInputs /\ n + 2 \notin StructInputs
    BY <1>1, <2>3, InputPair
  <2>5. Upto(StructInputs, n + 1) = {n + 1}
    BY <1>1, <1>2, <2>1, <2>4, UptoNext
  <2>6. Upto(StructInputs, n + 2) = Upto(StructInputs, n + 1)
    <3>1. n + 1 <= n + 2 /\ \A i \in n + 1 + 1..n + 2 : i \notin StructInputs
      BY <1>1, <2>4
    <3> QED
      BY <1>1, <3>1, CountSame
  <2>7. InputSize(n + 1) = kIOUCVariableStructureSize
    BY <2>3 DEF InputSize
  <2>8. kIOUCVariableStructureSize # 0 /\ kIOUCVariableStructureSize \in StructSizes
    BY DEF kIOUCVariableStructureSize, StructSizes
  <2>9. next = {n + 1}
    BY <2>3, <2>5, <2>6
  <2> HIDE DEF next
  <2> QED
    BY <2>1, <2>3, <2>7, <2>8, <2>9
<1>4. ASSUME StructInputFixed PROVE Done
  <2>1. /\ ConsumeOne(t, {VariableInput}) /\ struct_input_size = 0
        /\ First(t).form = "const pointer" /\ SizeOf[First(t).of] # 0
        /\ struct_input_size' = SizeOf[First(t).of]
        /\ UNCHANGED <<inputs, outputs, struct_output_size, is_async, selection>>
    BY <1>4 DEF StructInputFixed
  <2>2. /\ n + 1 \in Positions /\ First(t) = params[n + 1] /\ ~At(n + 1, VariableInput)
        /\ consumed'[t] = n + 1 /\ Advances(t)
    BY <2>1, <1>0, TakesOne
  <2> HIDE DEF n, t
  <2>3. n + 1 \in StructInputs
    BY <2>1, <2>2 DEF StructInputs
  <2>4. next = {n + 1}
    BY <1>1, <1>2, <2>1, <2>2, <2>3, UptoNext
  <2>5. SizeOf[params[n + 1].of] \in Nat
    BY <1>1, <2>2, ParamsType
  <2>6. InputSize(n + 1) = SizeOf[params[n + 1].of]
    BY <2>2 DEF InputSize
  <2> HIDE DEF next
  <2> QED
    BY <2>1, <2>2, <2>4, <2>5, <2>6 DEF StructSizes
<1>5. ASSUME StructInputIgnore PROVE Done
  <2>1. /\ ConsumeOne(t, {VariableInput}) /\ First(t).form # "const pointer"
        /\ UNCHANGED <<limits, selection>>
    BY <1>5 DEF StructInputIgnore
  <2>2. /\ n + 1 \in Positions /\ First(t) = params[n + 1]
        /\ consumed'[t] = n + 1 /\ Advances(t)
    BY <2>1, <1>0, TakesOne
  <2> HIDE DEF n, t
  <2>3. n + 1 \notin StructInputs
    BY <2>1, <2>2 DEF StructInputs
  <2>4. next = passed
    BY <1>1, <2>2, <2>3, UptoNext
  <2> HIDE DEF next, passed
  <2> QED
    BY <1>2, <2>1, <2>2, <2>4 DEF limits
<1>6. ASSUME Done PROVE IInv'
  <2>1. TypeOK'
    BY <1>0, <1>6 DEF TypeOK, Advances, selection
  <2>2. StructInputInv'
    BY <1>6, Frame DEF StructInputInv, Advances
  <2>3. InputsInv' /\ OutputsInv' /\ StructOutputInv' /\ AsyncInv' /\ SelectorsInv'
    BY <1>6, Untouched, TemplateOrder DEF IInv, Advances, selection
  <2> QED
    BY <1>6, <2>1, <2>2, <2>3 DEF IInv, Advances
<1>7. ASSUME StructInputRejected PROVE IInv'
  BY <1>7, RejectStep DEF StructInputRejected
<1> QED
  BY <1>3, <1>4, <1>5, <1>6, <1>7

(* The same for what is written: an async triple and a const pointer are   *)
(* not structs.                                                            *)
LEMMA OutputPair ==
  ASSUME params \in Signatures, NEW n \in Nat, At(n + 1, VariableOutput)
  PROVE  n + 1 \in StructOutputs /\ n + 2 \notin StructOutputs /\ n + 2 <= Len(params)
<1>l. Len(params) \in Nat
  BY ParamsType
<1>0. Len(params) \in Nat /\ n + 1 \in Int /\ n + 1 + 1 = n + 2
  BY <1>l
<1>1. /\ n + 1 >= 1 /\ n + 2 <= Len(params)
      /\ params[n + 1] = voidPtr /\ params[n + 2] = size_t
  <2>1. \A i \in Int : At(i, VariableOutput) =>
          i >= 1 /\ i + 1 <= Len(params) /\ params[i] = voidPtr /\ params[i + 1] = size_t
    BY <1>0, AtOutput
  <2> QED
    BY <1>0, <2>1
<1>2. n + 1 \in Positions
  BY <1>0, <1>1 DEF Positions
<1>3. ~At(n + 1, AsyncTriple)
  BY <1>0, <1>1, AtAsync, Distinct
<1>4. voidPtr.form = "pointer"
  BY DEF voidPtr
<1> QED
  BY <1>1, <1>2, <1>3, <1>4, Tokens DEF StructOutputs, StructPointer

LEMMA NoOutputs ==
  ASSUME params \in Signatures, NEW n \in Nat,
         NEW group \in {AsyncTriple, VariableInput}, At(n + 1, group)
  PROVE  \A i \in n + 1..n + Len(group) : i \notin StructOutputs
<1>l. Len(params) \in Nat
  BY ParamsType
<1>0. Len(params) \in Nat /\ n + 1 \in Int
  BY <1>l
<1>1. CASE group = AsyncTriple
  <2>1. \A i \in Int : At(i, AsyncTriple) =>
          params[i] = mach_port_t /\ params[i + 1] = uint64Ptr /\ params[i + 2] = uint32_t
    BY <1>0, AtAsync
  <2>2. n + 1 \notin StructOutputs
    BY <1>1 DEF StructOutputs
  <2>3. params[n + 1 + 1] = uint64Ptr /\ params[n + 1 + 2] = uint32_t
    BY <1>0, <1>1, <2>1
  <2>4. n + 2 \notin StructOutputs
    <3>1. n + 1 + 1 = n + 2
      OBVIOUS
    <3> QED
      BY <2>3, <3>1 DEF StructOutputs, StructPointer
  <2>5. n + 3 \notin StructOutputs
    <3>1. n + 1 + 2 = n + 3
      OBVIOUS
    <3> QED
      BY <2>3, <3>1, Tokens DEF StructOutputs, StructPointer
  <2>6. n + 1..n + 3 = {n + 1, n + 2, n + 3} /\ Len(group) = 3
    BY <1>1, GroupLengths
  <2> QED
    BY <2>2, <2>4, <2>5, <2>6
<1>2. CASE group = VariableInput
  <2>1. \A i \in Int : At(i, VariableInput) =>
          params[i] = constVoidPtr /\ params[i + 1] = size_t
    BY <1>0, AtInput
  <2>2. params[n + 1] = constVoidPtr /\ params[n + 1 + 1] = size_t
    BY <1>0, <1>2, <2>1
  <2>3. n + 1 \notin StructOutputs
    BY <2>2, Tokens DEF StructOutputs, StructPointer
  <2>4. n + 2 \notin StructOutputs
    <3>1. n + 1 + 1 = n + 2
      OBVIOUS
    <3> QED
      BY <2>2, <3>1, Tokens DEF StructOutputs, StructPointer
  <2>5. n + 1..n + 2 = {n + 1, n + 2} /\ Len(group) = 2
    BY <1>2, GroupLengths
  <2> QED
    BY <2>3, <2>4, <2>5
<1> QED
  BY <1>1, <1>2

LEMMA StructOutputStep ==
  ASSUME IInv, \/ StructOutputIgnoreGroup \/ StructOutputVariable \/ StructOutputFixed
               \/ StructOutputRejected \/ StructOutputIgnore
  PROVE  IInv'
<1> DEFINE t == "struct_output_arg_size"
           n == consumed[t]
           passed == Upto(StructOutputs, n)
           next == Upto(StructOutputs, consumed'[t])
           Done == /\ Advances(t)
                   /\ UNCHANGED <<inputs, outputs, struct_input_size, is_async, selection>>
                   /\ struct_output_size' \in StructSizes
                   /\ struct_output_size' = 0 <=> next = {}
                   /\ \A i \in next : struct_output_size' = OutputSize(i)
                   /\ \A i, j \in next : i = j
<1>0. t \in Templates /\ TypeOK /\ InOrder /\ StructOutputGroups = Groups
  BY TemplateOrder DEF IInv, StructOutputGroups, Groups
<1>1. /\ n \in Nat /\ params \in Signatures /\ Len(params) \in Nat
      /\ n \in Int /\ n + 1 \in Int /\ n + 2 \in Int
      /\ StructOutputs \in SUBSET (1..Len(params))
  BY <1>0, ConsumedType, PositionSets
<1>2. /\ struct_output_size = 0 <=> passed = {}
      /\ \A i \in passed : struct_output_size = OutputSize(i)
      /\ \A i, j \in passed : i = j
      /\ struct_output_size \in StructSizes
  BY DEF IInv, StructOutputInv, TypeOK
<1>3. ASSUME StructOutputVariable PROVE Done
  <2>1. /\ ConsumeGroup(t, VariableOutput) /\ struct_output_size = 0
        /\ struct_output_size' = kIOUCVariableStructureSize
        /\ UNCHANGED <<inputs, outputs, struct_input_size, is_async, selection>>
    BY <1>3 DEF StructOutputVariable
  <2>2. VariableOutput \in Groups /\ Len(VariableOutput) = 2
    BY GroupLengths DEF Groups
  <2>3. At(n + 1, VariableOutput) /\ consumed'[t] = n + 2 /\ Advances(t)
    BY <2>1, <2>2, <1>0, TakesGroup
  <2> HIDE DEF n, t
  <2>4. n + 1 \in StructOutputs /\ n + 2 \notin StructOutputs
    BY <1>1, <2>3, OutputPair
  <2>5. Upto(StructOutputs, n + 1) = {n + 1}
    BY <1>1, <1>2, <2>1, <2>4, UptoNext
  <2>6. Upto(StructOutputs, n + 2) = Upto(StructOutputs, n + 1)
    <3>1. n + 1 <= n + 2 /\ \A i \in n + 1 + 1..n + 2 : i \notin StructOutputs
      BY <1>1, <2>4
    <3> QED
      BY <1>1, <3>1, CountSame
  <2>7. OutputSize(n + 1) = kIOUCVariableStructureSize
    BY <2>3 DEF OutputSize
  <2>8. kIOUCVariableStructureSize # 0 /\ kIOUCVariableStructureSize \in StructSizes
    BY DEF kIOUCVariableStructureSize, StructSizes
  <2>9. next = {n + 1}
    BY <2>3, <2>5, <2>6
  <2> HIDE DEF next
  <2> QED
    BY <2>1, <2>3, <2>7, <2>8, <2>9
<1>4. ASSUME StructOutputFixed PROVE Done
  <2>1. /\ ConsumeOne(t, Groups) /\ struct_output_size = 0
        /\ StructPointer(First(t)) /\ SizeOf[First(t).of] # 0
        /\ struct_output_size' = SizeOf[First(t).of]
        /\ UNCHANGED <<inputs, outputs, struct_input_size, is_async, selection>>
    BY <1>0, <1>4 DEF StructOutputFixed
  <2>2. /\ n + 1 \in Positions /\ First(t) = params[n + 1]
        /\ \A group \in Groups : ~At(n + 1, group)
        /\ consumed'[t] = n + 1 /\ Advances(t)
    BY <2>1, <1>0, TakesOne
  <2> HIDE DEF n, t
  <2>3. ~At(n + 1, VariableOutput) /\ ~At(n + 1, AsyncTriple)
    BY <2>2 DEF Groups
  <2>4. n + 1 \in StructOutputs
    BY <2>1, <2>2, <2>3 DEF StructOutputs
  <2>5. next = {n + 1}
    BY <1>1, <1>2, <2>1, <2>2, <2>4, UptoNext
  <2>6. SizeOf[params[n + 1].of] \in Nat
    BY <1>1, <2>2, ParamsType
  <2>7. OutputSize(n + 1) = SizeOf[params[n + 1].of]
    BY <2>3 DEF OutputSize
  <2> HIDE DEF next
  <2> QED
    BY <2>1, <2>2, <2>5, <2>6, <2>7 DEF StructSizes
<1>5. ASSUME StructOutputIgnore PROVE Done
  <2>1. /\ ConsumeOne(t, Groups) /\ ~StructPointer(First(t))
        /\ UNCHANGED <<limits, selection>>
    BY <1>0, <1>5 DEF StructOutputIgnore
  <2>2. /\ n + 1 \in Positions /\ First(t) = params[n + 1]
        /\ consumed'[t] = n + 1 /\ Advances(t)
    BY <2>1, <1>0, TakesOne
  <2> HIDE DEF n, t
  <2>3. n + 1 \notin StructOutputs
    BY <2>1, <2>2 DEF StructOutputs
  <2>4. next = passed
    BY <1>1, <2>2, <2>3, UptoNext
  <2> HIDE DEF next, passed
  <2> QED
    BY <1>2, <2>1, <2>2, <2>4 DEF limits
<1>6. ASSUME StructOutputIgnoreGroup PROVE Done
  <2>1. PICK group \in {AsyncTriple, VariableInput} : ConsumeGroup(t, group)
    BY <1>6 DEF StructOutputIgnoreGroup, StructOutputGroups
  <2>2. UNCHANGED <<limits, selection>> /\ group \in Groups
    BY <1>6 DEF StructOutputIgnoreGroup, Groups
  <2>3. /\ At(n + 1, group) /\ Len(group) \in {2, 3}
        /\ consumed'[t] = n + Len(group) /\ Advances(t)
    BY <2>1, <2>2, <1>0, TakesGroup
  <2> HIDE DEF n, t
  <2>4. \A i \in n + 1..n + Len(group) : i \notin StructOutputs
    BY <1>1, <2>3, NoOutputs
  <2>5. n + Len(group) \in Int /\ n <= n + Len(group)
    BY <1>1, <2>3
  <2>6. next = passed
    BY <1>1, <2>3, <2>4, <2>5, CountSame
  <2> HIDE DEF next, passed
  <2> QED
    BY <1>2, <2>2, <2>3, <2>6 DEF limits
<1>7. ASSUME Done PROVE IInv'
  <2>1. TypeOK'
    BY <1>0, <1>7 DEF TypeOK, Advances, selection
  <2>2. StructOutputInv'
    BY <1>7, Frame DEF StructOutputInv, Advances
  <2>3. InputsInv' /\ OutputsInv' /\ StructInputInv' /\ AsyncInv' /\ SelectorsInv'
    BY <1>7, Untouched, TemplateOrder DEF IInv, Advances, selection
  <2> QED
    BY <1>7, <2>1, <2>2, <2>3 DEF IInv, Advances
<1>8. ASSUME StructOutputRejected PROVE IInv'
  BY <1>8, RejectStep DEF StructOutputRejected
<1> QED
  BY <1>3, <1>4, <1>5, <1>6, <1>7, <1>8

-----------------------------------------------------------------------------
(* is_async_method                                                         *)

LEMMA AsyncStep ==
  ASSUME IInv, AsyncFound \/ AsyncNotYet
  PROVE  IInv'
<1> DEFINE t == "is_async_method"
           n == consumed[t]
           Done == /\ Advances(t)
                   /\ UNCHANGED <<inputs, outputs, struct_input_size, struct_output_size,
                                  selection>>
                   /\ is_async' \in BOOLEAN
                   /\ is_async' => \E i \in Positions : At(i, AsyncTriple)
                   /\ ~is_async' => \A i \in 1..consumed'[t] : ~At(i, AsyncTriple)
<1>0. t \in Templates /\ TypeOK /\ InOrder
  BY TemplateOrder DEF IInv
<1>1. n \in Nat /\ Len(params) \in Nat /\ n <= Len(params)
  BY <1>0, ConsumedType
<1>2. /\ is_async \in BOOLEAN
      /\ is_async => \E i \in Positions : At(i, AsyncTriple)
      /\ ~is_async => \A i \in 1..n : ~At(i, AsyncTriple)
  BY DEF IInv, AsyncInv, TypeOK
<1>3. ASSUME AsyncFound PROVE Done
  <2>1. /\ At(n + 1, AsyncTriple) /\ Consume(t, Len(params) - n) /\ is_async' = TRUE
        /\ UNCHANGED <<inputs, outputs, struct_input_size, struct_output_size, selection>>
    BY <1>3 DEF AsyncFound, Remaining
  <2>2. n < Len(params)
    BY <2>1 DEF Consume, Instantiates
  <2>3. Len(params) - n \in Nat /\ Len(params) - n >= 1 /\ n + (Len(params) - n) <= Len(params)
    BY <1>1, <2>2
  <2>4. Advances(t)
    BY <1>0, <2>1, <2>3, Consumes
  <2> HIDE DEF n
  <2>5. n + 1 \in Positions
    BY <1>1, <2>2 DEF Positions
  <2> HIDE DEF t
  <2> QED
    BY <2>1, <2>4, <2>5
<1>4. ASSUME AsyncNotYet PROVE Done
  <2>1. ConsumeOne(t, {AsyncTriple}) /\ UNCHANGED <<limits, selection>>
    BY <1>4 DEF AsyncNotYet
  <2>2. ~At(n + 1, AsyncTriple) /\ consumed'[t] = n + 1 /\ Advances(t)
    BY <2>1, <1>0, TakesOne
  <2> HIDE DEF n, t
  <2>3. \A i \in 1..n + 1 : i \in 1..n \/ i = n + 1
    BY <1>1
  <2>4. ~is_async => \A i \in 1..n + 1 : ~At(i, AsyncTriple)
    BY <1>2, <2>2, <2>3
  <2>5. is_async' = is_async /\ UNCHANGED <<inputs, outputs, struct_input_size,
                                            struct_output_size, selection>>
    BY <2>1 DEF limits
  <2> QED
    BY <1>2, <2>2, <2>4, <2>5
<1>5. ASSUME Done PROVE IInv'
  <2>1. TypeOK'
    BY <1>0, <1>5 DEF TypeOK, Advances, selection
  <2>2. AsyncInv'
    BY <1>5, Frame DEF AsyncInv, Advances
  <2>3. InputsInv' /\ OutputsInv' /\ StructInputInv' /\ StructOutputInv' /\ SelectorsInv'
    BY <1>5, Untouched, TemplateOrder DEF IInv, Advances, selection
  <2> QED
    BY <1>5, <2>1, <2>2, <2>3 DEF IInv, Advances
<1> QED
  BY <1>3, <1>4, <1>5

-----------------------------------------------------------------------------
(* arg_seq_accum                                                           *)

Selectors == [reads : Members, index : Nat, type : Type]

LEMMA Concat ==
  ASSUME NEW R, NEW s \in Seq(R), NEW more \in Seq(R)
  PROVE  /\ Len(s) \in Nat /\ Len(more) \in Nat
         /\ s \o more \in Seq(R) /\ Len(s \o more) = Len(s) + Len(more)
         /\ \A i \in 1..Len(s) + Len(more) :
              (s \o more)[i] = IF i <= Len(s) THEN s[i] ELSE more[i - Len(s)]
OBVIOUS

(* Selectors that read what the parameters are stay so when more are       *)
(* selected behind them.                                                   *)
LEMMA Extends ==
  ASSUME seq \in Seq(Selectors), NEW n \in Nat, Len(seq) = n,
         \A i \in 1..n : Reads(seq[i], i),
         NEW more \in Seq(Selectors), NEW m \in Nat, Len(more) = m,
         \A k \in 1..m : Reads(more[k], n + k)
  PROVE  /\ seq \o more \in Seq(Selectors) /\ Len(seq \o more) = n + m
         /\ \A i \in 1..n + m : Reads((seq \o more)[i], i)
<1>1. seq \o more \in Seq(Selectors) /\ Len(seq \o more) = Len(seq) + Len(more)
  BY Concat
<1>2. \A i \in 1..Len(seq) + Len(more) :
        (seq \o more)[i] = IF i <= Len(seq) THEN seq[i] ELSE more[i - Len(seq)]
  BY Concat
<1>3. ASSUME NEW i \in 1..n + m PROVE Reads((seq \o more)[i], i)
  <2>1. (seq \o more)[i] = IF i <= n THEN seq[i] ELSE more[i - n]
    BY <1>2
  <2>2. CASE i <= n
    <3>1. i \in 1..n
      BY <2>2
    <3> QED
      BY <2>1, <2>2, <3>1
  <2>3. CASE ~(i <= n)
    <3>1. i - n \in 1..m /\ n + (i - n) = i
      BY <2>3
    <3>2. Reads(more[i - n], n + (i - n))
      BY <3>1
    <3> QED
      BY <2>1, <2>3, <3>1, <3>2
  <2> QED
    BY <2>2, <2>3
<1> QED
  BY <1>1, <1>3

LEMMA ReadsTriple ==
  ASSUME params \in Signatures, NEW n \in Nat, At(n + 1, AsyncTriple)
  PROVE  /\ Reads(Selector("asyncWakePort", 0, mach_port_t), n + 1)
         /\ Reads(Selector("asyncReference", 0, io_user_reference_ptr), n + 2)
         /\ Reads(Selector("asyncReferenceCount", 0, uint32_t), n + 3)
<1>l. Len(params) \in Nat
  BY ParamsType
<1>0. /\ Len(params) \in Nat /\ n + 1 \in Int /\ n + 2 \in Int /\ n + 3 \in Int
      /\ n + 1 + 1 = n + 2 /\ n + 1 + 2 = n + 3 /\ n + 2 - 1 = n + 1 /\ n + 3 - 2 = n + 1
      /\ n + 1..n + 3 = {n + 1, n + 2, n + 3}
  BY <1>l
<1>1. \A i \in Int : At(i, AsyncTriple) =>
        params[i] = mach_port_t /\ params[i + 1] = uint64Ptr /\ params[i + 2] = uint32_t
  BY <1>0, AtAsync
<1>2. params[n + 1] = mach_port_t /\ params[n + 2] = uint64Ptr /\ params[n + 3] = uint32_t
  BY <1>0, <1>1
<1>3. ~At(n + 2, AsyncTriple) /\ ~At(n + 3, AsyncTriple)
  BY <1>0, <1>1, <1>2, Distinct
<1>4. At(n + 2 - 1, AsyncTriple) /\ At(n + 3 - 2, AsyncTriple)
  BY <1>0
<1>5. AsyncTriple \in Groups /\ AsyncTriple \in {AsyncTriple, VariableInput} /\ Len(AsyncTriple) = 3
  BY GroupLengths DEF Groups
<1>6. \A i \in {n + 1, n + 2, n + 3} :
        i \notin ScalarInputs /\ i \notin ScalarOutputs /\ i \notin StructOutputs
  BY <1>0, <1>5, GroupStep, NoOutputs
<1>7. \A i \in {n + 1, n + 2, n + 3} : i \notin StructInputs
  BY <1>2, Tokens DEF StructInputs
<1> QED
  BY <1>2, <1>3, <1>4, <1>6, <1>7 DEF Reads, Selector, io_user_reference_ptr

LEMMA ReadsInputPair ==
  ASSUME params \in Signatures, NEW n \in Nat, At(n + 1, VariableInput)
  PROVE  /\ Reads(Selector("structureInput", 0, constVoidPtr), n + 1)
         /\ Reads(Selector("structureInputSize", 0, size_t), n + 2)
<1>l. Len(params) \in Nat
  BY ParamsType
<1>0. /\ Len(params) \in Nat /\ n + 1 \in Int /\ n + 2 \in Int
      /\ n + 1 + 1 = n + 2 /\ n + 2 - 1 = n + 1 /\ n + 1..n + 2 = {n + 1, n + 2}
  BY <1>l
<1>1. \A i \in Int : At(i, VariableInput) => params[i] = constVoidPtr /\ params[i + 1] = size_t
  BY <1>0, AtInput
<1>2. params[n + 1] = constVoidPtr /\ params[n + 2] = size_t
  BY <1>0, <1>1
<1>3. ~At(n + 1, AsyncTriple) /\ ~At(n + 2, AsyncTriple)
  BY <1>0, <1>2, AtAsync, Distinct
<1>4. At(n + 2 - 1, VariableInput)
  BY <1>0
<1>5. /\ VariableInput \in Groups /\ VariableInput \in {AsyncTriple, VariableInput}
      /\ Len(VariableInput) = 2
  BY GroupLengths DEF Groups
<1>6. \A i \in {n + 1, n + 2} :
        i \notin ScalarInputs /\ i \notin ScalarOutputs /\ i \notin StructOutputs
  BY <1>0, <1>5, GroupStep, NoOutputs
<1>7. n + 1 \in StructInputs /\ n + 2 \notin StructInputs
  BY InputPair
<1> QED
  BY <1>2, <1>3, <1>4, <1>6, <1>7 DEF Reads, Selector

LEMMA ReadsOutputPair ==
  ASSUME params \in Signatures, NEW n \in Nat, At(n + 1, VariableOutput)
  PROVE  /\ Reads(Selector("structureOutput", 0, voidPtr), n + 1)
         /\ Reads(Selector("structureOutputSize", 0, size_t), n + 2)
<1>l. Len(params) \in Nat
  BY ParamsType
<1>0. /\ Len(params) \in Nat /\ n + 1 \in Int /\ n + 2 \in Int
      /\ n + 1 + 1 = n + 2 /\ n + 2 - 1 = n + 1 /\ n + 1..n + 2 = {n + 1, n + 2}
  BY <1>l
<1>1. \A i \in Int : At(i, VariableOutput) => params[i] = voidPtr /\ params[i + 1] = size_t
  BY <1>0, AtOutput
<1>2. params[n + 1] = voidPtr /\ params[n + 2] = size_t
  BY <1>0, <1>1
<1>3. ~At(n + 1, AsyncTriple) /\ ~At(n + 2, AsyncTriple)
  BY <1>0, <1>2, AtAsync, Distinct
<1>4. At(n + 2 - 1, VariableOutput)
  BY <1>0
<1>5. VariableOutput \in Groups /\ Len(VariableOutput) = 2
  BY GroupLengths DEF Groups
<1>6. \A i \in {n + 1, n + 2} : i \notin ScalarInputs /\ i \notin ScalarOutputs
  BY <1>0, <1>5, GroupStep
<1>7. n + 1 \in StructOutputs /\ n + 2 \notin StructOutputs
  BY OutputPair
<1>8. n + 1 \notin StructInputs /\ n + 2 \notin StructInputs
  <2>1. voidPtr.form = "pointer"
    BY DEF voidPtr
  <2> QED
    BY <1>2, <2>1, Tokens DEF StructInputs
<1> QED
  BY <1>2, <1>3, <1>4, <1>6, <1>7, <1>8 DEF Reads, Selector

LEMMA ReadsOne ==
  ASSUME params \in Signatures, NEW n \in Nat, n < Len(params), Aligned(n, Groups),
         \A group \in Groups : ~At(n + 1, group)
  PROVE  /\ params[n + 1].form = "const pointer" =>
               Reads(Selector("structureInput", 0, params[n + 1]), n + 1)
         /\ StructPointer(params[n + 1]) =>
               Reads(Selector("structureOutput", 0, params[n + 1]), n + 1)
         /\ params[n + 1].form = "value" =>
               Reads(Selector("scalarInput", Count(ScalarInputs, n), params[n + 1]), n + 1)
         /\ params[n + 1] = uint64Ptr =>
               Reads(Selector("scalarOutput", Count(ScalarOutputs, n), params[n + 1]), n + 1)
<1>l. Len(params) \in Nat
  BY ParamsType
<1>1. n + 1 \in Positions /\ n + 1 - 1 = n
  BY <1>l DEF Positions
<1>c. /\ Count(ScalarInputs, n + 1 - 1) = Count(ScalarInputs, n)
      /\ Count(ScalarOutputs, n + 1 - 1) = Count(ScalarOutputs, n)
  BY <1>1
<1>2. /\ n + 1 \in ScalarInputs <=> params[n + 1].form = "value"
      /\ n + 1 \in ScalarOutputs <=> params[n + 1] = uint64Ptr
  BY OneStep
<1>3. ~At(n + 1, AsyncTriple)
  BY DEF Groups
<1>4. /\ n + 1 \in StructInputs <=> params[n + 1].form = "const pointer"
      /\ n + 1 \in StructOutputs <=> StructPointer(params[n + 1])
  BY <1>1, <1>3 DEF StructInputs, StructOutputs
<1>5. ASSUME params[n + 1].form = "const pointer"
      PROVE  Reads(Selector("structureInput", 0, params[n + 1]), n + 1)
  BY <1>2, <1>3, <1>4, <1>5, Tokens DEF Reads, Selector, StructPointer
<1>6. ASSUME StructPointer(params[n + 1])
      PROVE  Reads(Selector("structureOutput", 0, params[n + 1]), n + 1)
  BY <1>2, <1>3, <1>4, <1>6, Tokens DEF Reads, Selector, StructPointer
<1>7. ASSUME params[n + 1].form = "value"
      PROVE  Reads(Selector("scalarInput", Count(ScalarInputs, n), params[n + 1]), n + 1)
  <2>1. /\ n + 1 \in ScalarInputs /\ n + 1 \notin ScalarOutputs
        /\ n + 1 \notin StructInputs /\ n + 1 \notin StructOutputs
    BY <1>2, <1>4, <1>7, Tokens DEF StructPointer
  <2> QED
    BY <1>c, <1>3, <2>1 DEF Reads, Selector
<1>8. ASSUME params[n + 1] = uint64Ptr
      PROVE  Reads(Selector("scalarOutput", Count(ScalarOutputs, n), params[n + 1]), n + 1)
  <2>1. /\ n + 1 \notin ScalarInputs /\ n + 1 \in ScalarOutputs
        /\ n + 1 \notin StructInputs /\ n + 1 \notin StructOutputs
    BY <1>2, <1>4, <1>8, Tokens DEF StructPointer
  <2> QED
    BY <1>c, <1>3, <2>1 DEF Reads, Selector
<1> QED
  BY <1>5, <1>6, <1>7, <1>8

(* Selecting more, when the list went on by as many parameters.            *)
LEMMA SelectMore ==
  ASSUME IInv, NEW n \in Nat, n = consumed["arg_seq_accum"], Advances("arg_seq_accum"),
         UNCHANGED limits,
         NEW more \in Seq(Selectors), NEW m \in Nat, Len(more) = m,
         consumed'["arg_seq_accum"] = n + m, Aligned(n + m, Groups),
         seq' = seq \o more, \A k \in 1..m : Reads(more[k], n + k),
         next_input' = Count(ScalarInputs, n + m),
         next_output' = Count(ScalarOutputs, n + m)
  PROVE  IInv'
<1>0. TypeOK /\ params \in Signatures /\ Len(params) \in Nat
  BY ParamsType DEF IInv, TypeOK
<1>1. seq \in Seq(Selectors)
  BY <1>0 DEF TypeOK, Selectors
<1>2. Len(seq) = n /\ \A i \in 1..n : Reads(seq[i], i)
  BY DEF IInv, SelectorsInv
<1>3. /\ seq' \in Seq(Selectors) /\ Len(seq') = n + m
      /\ \A i \in 1..n + m : Reads(seq'[i], i)
  <2>1. /\ seq \o more \in Seq(Selectors) /\ Len(seq \o more) = n + m
        /\ \A i \in 1..n + m : Reads((seq \o more)[i], i)
    <3>1. Len(seq) = n
      BY <1>2
    <3>2. \A i \in 1..n : Reads(seq[i], i)
      BY <1>2
    <3>3. \A k \in 1..m : Reads(more[k], n + k)
      OBVIOUS
    <3> HIDE DEF Selectors
    <3> QED
      BY <1>1, <3>1, <3>2, <3>3, Extends, ZenonT(60)
  <2> QED
    BY <2>1
<1>4. next_input' \in Nat /\ next_output' \in Nat
  <2>1. n + m \in Int
    OBVIOUS
  <2> QED
    BY <1>0, <2>1, PositionSets, CountType
<1>5. params' = params
  BY DEF Advances
<1>6. TypeOK'
  BY <1>0, <1>3, <1>4 DEF TypeOK, Advances, Selectors, limits
<1>7. SelectorsInv'
  <2>1. \A i \in 1..n + m : Reads(seq[i], i)'
    <3> SUFFICES ASSUME NEW i \in 1..n + m PROVE Reads(seq[i], i)'
      OBVIOUS
    <3>1. Reads(seq'[i], i)
      BY <1>3
    <3> QED
      BY <3>1, <1>5, Frame DEF Reads
  <2> QED
    BY <1>3, <1>5, <2>1, Frame DEF SelectorsInv
<1>8. InputsInv' /\ OutputsInv' /\ StructInputInv' /\ StructOutputInv' /\ AsyncInv'
  BY <1>5, Untouched, TemplateOrder DEF IInv, Advances, limits
<1> QED
  BY <1>6, <1>7, <1>8 DEF IInv, Advances

LEMMA SelectorsTyped ==
  ASSUME NEW member \in Members, NEW index \in Nat, NEW type \in Type
  PROVE  Selector(member, index, type) \in Selectors
BY DEF Selector, Selectors

(* A group: no scalar is selected.                                         *)
LEMMA SelectGroup ==
  ASSUME IInv, NEW group \in Groups, ConsumeGroup("arg_seq_accum", group),
         UNCHANGED <<limits, next_input, next_output>>,
         NEW more \in Seq(Selectors), Len(more) = Len(group), seq' = seq \o more,
         \A k \in 1..Len(group) : Reads(more[k], consumed["arg_seq_accum"] + k)
  PROVE  IInv'
<1> DEFINE t == "arg_seq_accum"
           n == consumed[t]
<1>0. t \in Templates /\ TypeOK /\ InOrder /\ SelectorsInv
  BY TemplateOrder DEF IInv
<1>1. n \in Nat /\ params \in Signatures /\ Len(params) \in Nat
  BY <1>0, ConsumedType
<1>2. /\ At(n + 1, group) /\ Len(group) \in {2, 3}
      /\ consumed'[t] = n + Len(group) /\ Advances(t)
  BY <1>0, TakesGroup
<1>3. next_input = Count(ScalarInputs, n) /\ next_output = Count(ScalarOutputs, n)
  BY <1>0 DEF SelectorsInv
<1>4. UNCHANGED limits /\ next_input' = next_input /\ next_output' = next_output
  OBVIOUS
<1>5. \A k \in 1..Len(group) : Reads(more[k], n + k)
  OBVIOUS
<1>6. n = consumed["arg_seq_accum"] /\ Advances("arg_seq_accum")
      /\ consumed'["arg_seq_accum"] = n + Len(group)
  BY <1>2
<1> HIDE DEF n, t
<1>7. /\ Aligned(n + Len(group), Groups)
      /\ \A i \in n + 1..n + Len(group) : i \notin ScalarInputs /\ i \notin ScalarOutputs
  BY <1>1, <1>2, GroupStep
<1>8. n \in Int /\ n + Len(group) \in Int /\ n <= n + Len(group) /\ Len(group) \in Nat
  BY <1>1, <1>2
<1>9. /\ Count(ScalarInputs, n + Len(group)) = Count(ScalarInputs, n)
      /\ Count(ScalarOutputs, n + Len(group)) = Count(ScalarOutputs, n)
  BY <1>1, <1>7, <1>8, PositionSets, CountSame
<1>10. /\ next_input' = Count(ScalarInputs, n + Len(group))
       /\ next_output' = Count(ScalarOutputs, n + Len(group))
  BY <1>3, <1>4, <1>9
<1> QED
  BY <1>1, <1>4, <1>5, <1>6, <1>7, <1>8, <1>10, SelectMore

(* One parameter, and the next scalar if it is one.                        *)
LEMMA SelectSingle ==
  ASSUME IInv, NEW member \in Members, NEW index \in Nat, SelectOne(member, index),
         UNCHANGED limits,
         Reads(Selector(member, index, First("arg_seq_accum")), consumed["arg_seq_accum"] + 1),
         next_input' = IF First("arg_seq_accum").form = "value"
                       THEN next_input + 1 ELSE next_input,
         next_output' = IF First("arg_seq_accum") = uint64Ptr
                        THEN next_output + 1 ELSE next_output
  PROVE  IInv'
<1> DEFINE t == "arg_seq_accum"
           n == consumed[t]
           chosen == Selector(member, index, First(t))
<1>0. t \in Templates /\ TypeOK /\ InOrder /\ SelectorsInv /\ SelectorGroups = Groups
  BY TemplateOrder DEF IInv, SelectorGroups, Groups
<1>1. n \in Nat /\ params \in Signatures /\ Len(params) \in Nat
  BY <1>0, ConsumedType
<1>2. ConsumeOne(t, Groups) /\ seq' = Append(seq, chosen)
  BY <1>0 DEF SelectOne
<1>3. /\ n + 1 <= Len(params) /\ n + 1 \in Positions /\ First(t) = params[n + 1]
      /\ \A group \in Groups : ~At(n + 1, group)
      /\ consumed'[t] = n + 1 /\ Advances(t)
  BY <1>0, <1>2, TakesOne
<1>4. /\ next_input = Count(ScalarInputs, n) /\ next_output = Count(ScalarOutputs, n)
      /\ Aligned(n, Groups)
  BY <1>0 DEF SelectorsInv
<1>5. /\ next_input' = IF First(t).form = "value" THEN next_input + 1 ELSE next_input
      /\ next_output' = IF First(t) = uint64Ptr THEN next_output + 1 ELSE next_output
      /\ Reads(chosen, n + 1)
  OBVIOUS
<1>6. First(t) \in Type
  BY <1>1, <1>3, ParamsType
<1>7. chosen \in Selectors
  BY <1>6, SelectorsTyped
<1>8. /\ n = consumed["arg_seq_accum"] /\ Advances("arg_seq_accum")
      /\ consumed'["arg_seq_accum"] = n + 1
  BY <1>3
<1> HIDE DEF n, t, chosen
<1>9. n < Len(params) /\ n \in Int /\ 1 \in Nat
  BY <1>1, <1>3
<1>10. /\ Aligned(n + 1, Groups)
       /\ n + 1 \in ScalarInputs <=> params[n + 1].form = "value"
       /\ n + 1 \in ScalarOutputs <=> params[n + 1] = uint64Ptr
  BY <1>1, <1>3, <1>4, <1>9, OneStep
<1>11. /\ next_input' = Count(ScalarInputs, n + 1)
       /\ next_output' = Count(ScalarOutputs, n + 1)
  <2>1. /\ Count(ScalarInputs, n + 1) =
              IF n + 1 \in ScalarInputs THEN Count(ScalarInputs, n) + 1 ELSE Count(ScalarInputs, n)
        /\ Count(ScalarOutputs, n + 1) =
              IF n + 1 \in ScalarOutputs THEN Count(ScalarOutputs, n) + 1 ELSE Count(ScalarOutputs, n)
    BY <1>1, <1>9, PositionSets, CountNext
  <2> QED
    BY <1>3, <1>4, <1>5, <1>10, <2>1
<1>12. /\ <<chosen>> \in Seq(Selectors) /\ Len(<<chosen>>) = 1 /\ <<chosen>>[1] = chosen
  BY <1>7
<1>13. seq' = seq \o <<chosen>>
  <2>1. seq \in Seq(Selectors)
    BY <1>0 DEF TypeOK, Selectors
  <2>2. Append(seq, chosen) = seq \o <<chosen>>
    BY <2>1, <1>7
  <2> QED
    BY <1>2, <2>2
<1>14. \A k \in 1..1 : Reads(<<chosen>>[k], n + k)
  <2>1. 1..1 = {1}
    OBVIOUS
  <2> QED
    BY <1>5, <1>12, <2>1
<1> QED
  BY <1>1, <1>8, <1>9, <1>10, <1>11, <1>12, <1>13, <1>14, SelectMore

LEMMA SelectStep ==
  ASSUME IInv, Select
  PROVE  IInv'
<1> DEFINE t == "arg_seq_accum"
           n == consumed[t]
<1>0. t \in Templates /\ TypeOK /\ InOrder /\ SelectorsInv /\ SelectorGroups = Groups
  BY TemplateOrder DEF IInv, SelectorGroups, Groups
<1>1. /\ n \in Nat /\ params \in Signatures /\ Len(params) \in Nat
      /\ next_input \in Nat /\ next_output \in Nat
  BY <1>0, ConsumedType DEF TypeOK
<1>2. /\ next_input = Count(ScalarInputs, n) /\ next_output = Count(ScalarOutputs, n)
      /\ Aligned(n, Groups)
  BY <1>0 DEF SelectorsInv
<1>3. \A group \in Groups : ConsumeGroup(t, group) => At(n + 1, group)
  BY DEF ConsumeGroup, Remaining
<1>4. AsyncTriple \in Groups /\ VariableInput \in Groups /\ VariableOutput \in Groups
  BY DEF Groups
<1>5. CASE SelectAsync
  <2> DEFINE more == <<Selector("asyncWakePort", 0, mach_port_t),
                       Selector("asyncReference", 0, io_user_reference_ptr),
                       Selector("asyncReferenceCount", 0, uint32_t)>>
  <2>1. /\ ConsumeGroup(t, AsyncTriple) /\ seq' = seq \o more
        /\ UNCHANGED <<limits, next_input, next_output>>
    BY <1>5 DEF SelectAsync
  <2>2. /\ Reads(Selector("asyncWakePort", 0, mach_port_t), n + 1)
        /\ Reads(Selector("asyncReference", 0, io_user_reference_ptr), n + 2)
        /\ Reads(Selector("asyncReferenceCount", 0, uint32_t), n + 3)
    BY <1>1, <1>3, <1>4, <2>1, ReadsTriple
  <2>3. /\ Selector("asyncWakePort", 0, mach_port_t) \in Selectors
        /\ Selector("asyncReference", 0, io_user_reference_ptr) \in Selectors
        /\ Selector("asyncReferenceCount", 0, uint32_t) \in Selectors
    BY TokensTyped DEF Selector, Selectors, Members, io_user_reference_ptr
  <2>4. /\ Len(more) = 3 /\ more[1] = Selector("asyncWakePort", 0, mach_port_t)
        /\ more[2] = Selector("asyncReference", 0, io_user_reference_ptr)
        /\ more[3] = Selector("asyncReferenceCount", 0, uint32_t)
    OBVIOUS
  <2>5. more \in Seq(Selectors)
    BY <2>3
  <2> HIDE DEF more
  <2>6. Len(more) = Len(AsyncTriple) /\ \A k \in 1..Len(AsyncTriple) : Reads(more[k], n + k)
    <3>1. 1..Len(AsyncTriple) = {1, 2, 3}
      BY GroupLengths
    <3> QED
      BY <2>2, <2>4, <3>1, GroupLengths
  <2> QED
    BY <1>4, <2>1, <2>5, <2>6, SelectGroup
<1>6. CASE SelectVariableInput
  <2> DEFINE more == <<Selector("structureInput", 0, constVoidPtr),
                       Selector("structureInputSize", 0, size_t)>>
  <2>1. /\ ConsumeGroup(t, VariableInput) /\ seq' = seq \o more
        /\ UNCHANGED <<limits, next_input, next_output>>
    BY <1>6 DEF SelectVariableInput
  <2>2. /\ Reads(Selector("structureInput", 0, constVoidPtr), n + 1)
        /\ Reads(Selector("structureInputSize", 0, size_t), n + 2)
    BY <1>1, <1>3, <1>4, <2>1, ReadsInputPair
  <2>3. /\ Selector("structureInput", 0, constVoidPtr) \in Selectors
        /\ Selector("structureInputSize", 0, size_t) \in Selectors
    BY TokensTyped DEF Selector, Selectors, Members
  <2>4. /\ Len(more) = 2 /\ more[1] = Selector("structureInput", 0, constVoidPtr)
        /\ more[2] = Selector("structureInputSize", 0, size_t)
    OBVIOUS
  <2>5. more \in Seq(Selectors)
    BY <2>3
  <2> HIDE DEF more
  <2>6. Len(more) = Len(VariableInput) /\ \A k \in 1..Len(VariableInput) : Reads(more[k], n + k)
    <3>1. 1..Len(VariableInput) = {1, 2}
      BY GroupLengths
    <3> QED
      BY <2>2, <2>4, <3>1, GroupLengths
  <2> QED
    BY <1>4, <2>1, <2>5, <2>6, SelectGroup
<1>7. CASE SelectVariableOutput
  <2> DEFINE more == <<Selector("structureOutput", 0, voidPtr),
                       Selector("structureOutputSize", 0, size_t)>>
  <2>1. /\ ConsumeGroup(t, VariableOutput) /\ seq' = seq \o more
        /\ UNCHANGED <<limits, next_input, next_output>>
    BY <1>7 DEF SelectVariableOutput
  <2>2. /\ Reads(Selector("structureOutput", 0, voidPtr), n + 1)
        /\ Reads(Selector("structureOutputSize", 0, size_t), n + 2)
    BY <1>1, <1>3, <1>4, <2>1, ReadsOutputPair
  <2>3. /\ Selector("structureOutput", 0, voidPtr) \in Selectors
        /\ Selector("structureOutputSize", 0, size_t) \in Selectors
    BY TokensTyped DEF Selector, Selectors, Members
  <2>4. /\ Len(more) = 2 /\ more[1] = Selector("structureOutput", 0, voidPtr)
        /\ more[2] = Selector("structureOutputSize", 0, size_t)
    OBVIOUS
  <2>5. more \in Seq(Selectors)
    BY <2>3
  <2> HIDE DEF more
  <2>6. Len(more) = Len(VariableOutput) /\ \A k \in 1..Len(VariableOutput) : Reads(more[k], n + k)
    <3>1. 1..Len(VariableOutput) = {1, 2}
      BY GroupLengths
    <3> QED
      BY <2>2, <2>4, <3>1, GroupLengths
  <2> QED
    BY <1>4, <2>1, <2>5, <2>6, SelectGroup
<1>8. ASSUME NEW member, NEW index, SelectOne(member, index)
      PROVE  /\ n < Len(params) /\ First(t) = params[n + 1]
             /\ \A group \in Groups : ~At(n + 1, group)
  <2>1. ConsumeOne(t, Groups)
    BY <1>0, <1>8 DEF SelectOne
  <2>2. n + 1 <= Len(params) /\ First(t) = params[n + 1] /\ \A group \in Groups : ~At(n + 1, group)
    BY <1>0, <2>1, TakesOne
  <2> QED
    BY <1>1, <2>2
<1>9. CASE SelectFixedInput
  <2>1. /\ SelectOne("structureInput", 0) /\ First(t).form = "const pointer"
        /\ UNCHANGED <<limits, next_input, next_output>>
    BY <1>9 DEF SelectFixedInput
  <2>2. Reads(Selector("structureInput", 0, First(t)), n + 1)
    BY <1>1, <1>2, <1>8, <2>1, ReadsOne
  <2>3. First(t).form # "value" /\ First(t) # uint64Ptr /\ "structureInput" \in Members /\ 0 \in Nat
    BY <2>1, Tokens DEF Members
  <2> QED
    BY <2>1, <2>2, <2>3, SelectSingle
<1>10. CASE SelectFixedOutput
  <2>1. /\ SelectOne("structureOutput", 0) /\ StructPointer(First(t))
        /\ UNCHANGED <<limits, next_input, next_output>>
    BY <1>10 DEF SelectFixedOutput
  <2>2. Reads(Selector("structureOutput", 0, First(t)), n + 1)
    BY <1>1, <1>2, <1>8, <2>1, ReadsOne
  <2>3. First(t).form # "value" /\ First(t) # uint64Ptr /\ "structureOutput" \in Members /\ 0 \in Nat
    BY <2>1, Tokens DEF Members, StructPointer
  <2> QED
    BY <2>1, <2>2, <2>3, SelectSingle
<1>11. CASE SelectScalarInput
  <2>1. /\ SelectOne("scalarInput", next_input) /\ First(t).form = "value"
        /\ next_input' = next_input + 1 /\ UNCHANGED <<limits, next_output>>
    BY <1>11 DEF SelectScalarInput
  <2>2. Reads(Selector("scalarInput", next_input, First(t)), n + 1)
    BY <1>1, <1>2, <1>8, <2>1, ReadsOne
  <2>3. First(t) # uint64Ptr /\ "scalarInput" \in Members
    BY <2>1, Tokens DEF Members
  <2> QED
    BY <1>1, <2>1, <2>2, <2>3, SelectSingle
<1>12. CASE SelectScalarOutput
  <2>1. /\ SelectOne("scalarOutput", next_output) /\ First(t) = uint64Ptr
        /\ next_output' = next_output + 1 /\ UNCHANGED <<limits, next_input>>
    BY <1>12 DEF SelectScalarOutput
  <2>2. Reads(Selector("scalarOutput", next_output, First(t)), n + 1)
    BY <1>1, <1>2, <1>8, <2>1, ReadsOne
  <2>3. First(t).form # "value" /\ "scalarOutput" \in Members
    BY <2>1, Tokens DEF Members
  <2> QED
    BY <1>1, <2>1, <2>2, <2>3, SelectSingle
<1> QED
  BY <1>5, <1>6, <1>7, <1>9, <1>10, <1>11, <1>12 DEF Select

-----------------------------------------------------------------------------
(* The invariant                                                           *)

LEMMA InitInv == Init => IInv
<1> SUFFICES ASSUME Init PROVE IInv
  OBVIOUS
<1>l. Len(params) \in Nat /\ params \in Signatures
  BY ParamsType DEF Init
<1>1. /\ consumed = [t \in Templates |-> 0] /\ rejected = FALSE
      /\ inputs = 0 /\ outputs = 0 /\ struct_input_size = 0 /\ struct_output_size = 0
      /\ is_async = FALSE /\ next_input = 0 /\ next_output = 0 /\ seq = <<>>
  BY DEF Init
<1>2. \A t \in Templates : consumed[t] = 0
  BY <1>1
<1>3. TypeOK
  <2>1. 0 \in 0..Len(params)
    BY <1>l
  <2>2. consumed \in [Templates -> 0..Len(params)]
    BY <1>1, <2>1
  <2>3. <<>> \in Seq([reads : Members, index : Nat, type : Type])
    OBVIOUS
  <2> QED
    BY <1>l, <1>1, <2>2, <2>3 DEF TypeOK, StructSizes
<1>4. InOrder
  BY <1>2 DEF InOrder
<1>5. \A i \in {0, -1} : \A group : ~At(i, group)
  BY DEF At
<1>6. Aligned(0, Groups) /\ Aligned(0, {AsyncTriple})
  <2>1. 0 \in Int /\ 0 - 1 = -1
    OBVIOUS
  <2>2. \A group : ~At(0, group) /\ ~At(0 - 1, group)
    BY <1>5, <2>1
  <2> QED
    BY <2>1, <2>2, AlignedAsync, AlignedAll
<1>7. /\ Count(ScalarInputs, 0) = 0 /\ Count(ScalarOutputs, 0) = 0
      /\ Upto(StructInputs, 0) = {} /\ Upto(StructOutputs, 0) = {}
  BY <1>l, PositionSets, CountAll
<1>8. InputsInv /\ OutputsInv
  BY <1>1, <1>2, <1>6, <1>7, TemplateOrder DEF InputsInv, OutputsInv
<1>9. StructInputInv /\ StructOutputInv
  BY <1>1, <1>2, <1>7, TemplateOrder DEF StructInputInv, StructOutputInv
<1>10. AsyncInv
  <2>1. 1..0 = {}
    OBVIOUS
  <2> QED
    BY <1>1, <1>2, <2>1, TemplateOrder DEF AsyncInv
<1>11. SelectorsInv
  <2>1. 1..0 = {} /\ Len(<<>>) = 0
    OBVIOUS
  <2> QED
    BY <1>1, <1>2, <1>6, <1>7, <2>1, TemplateOrder DEF SelectorsInv
<1> QED
  BY <1>3, <1>4, <1>8, <1>9, <1>10, <1>11 DEF IInv

LEMMA NextInv == IInv /\ [Next]_templateVars => IInv'
<1> SUFFICES ASSUME IInv, [Next]_templateVars PROVE IInv'
  OBVIOUS
<1>1. CASE UNCHANGED templateVars
  <2>1. UNCHANGED <<params, consumed, rejected, inputs, outputs, struct_input_size,
                    struct_output_size, is_async, next_input, next_output, seq>>
    BY <1>1 DEF templateVars, limits, selection
  <2>2. TypeOK'
    BY <2>1 DEF IInv, TypeOK
  <2>3. InOrder'
    BY <2>1 DEF IInv, InOrder
  <2>4. InputsInv' /\ OutputsInv' /\ StructInputInv' /\ StructOutputInv' /\ AsyncInv' /\ SelectorsInv'
    BY <2>1, Untouched DEF IInv
  <2> QED
    BY <2>2, <2>3, <2>4 DEF IInv
<1>2. CASE Describe
  BY <1>2, InputsStep, OutputsStep, StructInputStep, StructOutputStep, AsyncStep DEF Describe
<1>3. CASE Select
  BY <1>3, SelectStep
<1> QED
  BY <1>1, <1>2, <1>3 DEF Next

(* For parameter lists of any length over any types: each template has     *)
(* made of the parameters it is past exactly what they are, and none is    *)
(* ever in the middle of a group that another keeps together.              *)
THEOREM ArgumentsInvariant == Spec => []IInv
<1>1. Init => IInv
  BY InitInv
<1>2. IInv /\ [Next]_templateVars => IInv'
  BY NextInv
<1> QED
  BY <1>1, <1>2, PTL DEF Spec

(* Type correctness: no template reads beyond the end of the list, and     *)
(* what it computes has the type the code declares.                        *)
THEOREM ArgumentsType == Spec => []TypeOK
<1>1. IInv => TypeOK
  BY DEF IInv
<1> QED
  BY <1>1, ArgumentsInvariant, PTL

-----------------------------------------------------------------------------
(* What the invariant gives                                                *)

(* The selectors come last.                                                *)
LimitsDone == \A u \in Templates : u # "arg_seq_accum" => consumed[u] = Len(params)

LEMMA SelectorsLast ==
  ASSUME IInv, seq # <<>>
  PROVE  LimitsDone
<1>0. TypeOK /\ InOrder /\ SelectorsInv
  BY DEF IInv
<1>1. consumed["arg_seq_accum"] \in Nat
  BY <1>0, TemplateOrder, ConsumedType
<1>2. consumed["arg_seq_accum"] > 0
  <2>1. seq \in Seq(Selectors) /\ Len(seq) = consumed["arg_seq_accum"]
    BY <1>0 DEF TypeOK, SelectorsInv, Selectors
  <2>2. Len(seq) # 0
    BY <2>1
  <2> QED
    BY <1>1, <2>1, <2>2
<1> SUFFICES ASSUME NEW u \in Templates, u # "arg_seq_accum"
             PROVE  consumed[u] = Len(params)
  BY DEF LimitsDone
<1>3. Order[u] < Order["arg_seq_accum"] /\ "arg_seq_accum" \in Templates
  BY TemplateOrder
<1> QED
  BY <1>0, <1>2, <1>3 DEF InOrder

(* The limits of a whole list.                                             *)
LEMMA LimitsComplete ==
  ASSUME IInv, LimitsDone
  PROVE  /\ Len(params) \in Nat
         /\ inputs = Count(ScalarInputs, Len(params))
         /\ outputs = Count(ScalarOutputs, Len(params))
         /\ struct_input_size = 0 <=> StructInputs = {}
         /\ \A i \in StructInputs : struct_input_size = InputSize(i)
         /\ \A i, j \in StructInputs : i = j
         /\ struct_output_size = 0 <=> StructOutputs = {}
         /\ \A i \in StructOutputs : struct_output_size = OutputSize(i)
         /\ \A i, j \in StructOutputs : i = j
         /\ is_async <=> \E i \in Positions : At(i, AsyncTriple)
<1>1. Len(params) \in Nat
  BY TemplateOrder, ConsumedType DEF IInv
<1>4. /\ consumed["scalar_input_arg_count"] = Len(params)
      /\ consumed["scalar_output_arg_count"] = Len(params)
      /\ consumed["struct_input_arg_size"] = Len(params)
      /\ consumed["struct_output_arg_size"] = Len(params)
      /\ consumed["is_async_method"] = Len(params)
  BY TemplateOrder DEF LimitsDone
<1>5. /\ Upto(StructInputs, Len(params)) = StructInputs
      /\ Upto(StructOutputs, Len(params)) = StructOutputs
  BY <1>1, PositionSets, CountAll
<1>6. /\ inputs = Count(ScalarInputs, Len(params))
      /\ outputs = Count(ScalarOutputs, Len(params))
  BY <1>4 DEF IInv, InputsInv, OutputsInv
<1>7. /\ struct_input_size = 0 <=> StructInputs = {}
      /\ \A i \in StructInputs : struct_input_size = InputSize(i)
      /\ \A i, j \in StructInputs : i = j
  BY <1>4, <1>5 DEF IInv, StructInputInv
<1>8. /\ struct_output_size = 0 <=> StructOutputs = {}
      /\ \A i \in StructOutputs : struct_output_size = OutputSize(i)
      /\ \A i, j \in StructOutputs : i = j
  BY <1>4, <1>5 DEF IInv, StructOutputInv
<1>9. is_async <=> \E i \in Positions : At(i, AsyncTriple)
  <2>1. /\ is_async => \E i \in Positions : At(i, AsyncTriple)
        /\ ~is_async => \A i \in Positions : ~At(i, AsyncTriple)
    BY <1>4 DEF IInv, AsyncInv, Positions
  <2> QED
    BY <2>1
<1> QED
  BY <1>1, <1>6, <1>7, <1>8, <1>9

(* What each selector is known to read.                                    *)
LEMMA Selected ==
  ASSUME IInv, NEW i \in DOMAIN seq
  PROVE  /\ i \in Int /\ i - 1 \in Int /\ i <= Len(params) /\ i \in Positions
         /\ seq # <<>>
         /\ seq[i] \in Selectors /\ Reads(seq[i], i)
<1>0. TypeOK /\ SelectorsInv
  BY DEF IInv
<1>1. /\ consumed["arg_seq_accum"] \in Nat /\ Len(params) \in Nat
      /\ consumed["arg_seq_accum"] <= Len(params)
  BY <1>0, TemplateOrder, ConsumedType
<1>2. seq \in Seq(Selectors) /\ Len(seq) = consumed["arg_seq_accum"]
  BY <1>0 DEF TypeOK, SelectorsInv, Selectors
<1>3. DOMAIN seq = 1..consumed["arg_seq_accum"] /\ seq[i] \in Selectors /\ seq # <<>>
  BY <1>2
<1>4. Reads(seq[i], i)
  BY <1>0, <1>3 DEF SelectorsInv
<1>5. i \in Int /\ i - 1 \in Int /\ i <= Len(params) /\ i \in 1..Len(params)
  BY <1>1, <1>3
<1> QED
  BY <1>3, <1>4, <1>5 DEF Positions

LEMMA ReadsAreCovered == IInv => LimitsCoverReads
<1> SUFFICES ASSUME IInv, NEW i \in DOMAIN seq PROVE Covered(i)
  BY DEF LimitsCoverReads
<1>1. /\ i \in Int /\ i - 1 \in Int /\ i <= Len(params) /\ i \in Positions
      /\ seq[i].reads \in Members /\ Reads(seq[i], i) /\ LimitsDone
  BY Selected, SelectorsLast DEF Selectors
<1>2. Len(params) \in Nat /\ Len(params) \in Int
  BY LimitsComplete, <1>1
<1>3. CASE seq[i].reads = "scalarInput"
  <2>1. i \in ScalarInputs /\ seq[i].index = Count(ScalarInputs, i - 1)
    BY <1>1, <1>3 DEF Reads
  <2>2. Count(ScalarInputs, i - 1) < Count(ScalarInputs, Len(params))
    BY <1>1, <1>2, <2>1, PositionSets, CountNumbers
  <2>3. seq[i].index < inputs
    BY <1>1, <2>1, <2>2, LimitsComplete
  <2> QED
    BY <1>3, <2>3 DEF Covered
<1>4. CASE seq[i].reads = "scalarOutput"
  <2>1. i \in ScalarOutputs /\ seq[i].index = Count(ScalarOutputs, i - 1)
    BY <1>1, <1>4 DEF Reads
  <2>2. Count(ScalarOutputs, i - 1) < Count(ScalarOutputs, Len(params))
    BY <1>1, <1>2, <2>1, PositionSets, CountNumbers
  <2>3. seq[i].index < outputs
    BY <1>1, <2>1, <2>2, LimitsComplete
  <2> QED
    BY <1>4, <2>3 DEF Covered
<1>5. CASE seq[i].reads = "structureInput"
  <2>1. i \in StructInputs
    BY <1>1, <1>5 DEF Reads
  <2> QED
    BY <1>1, <1>5, <2>1, LimitsComplete DEF Covered
<1>6. CASE seq[i].reads = "structureOutput"
  <2>1. i \in StructOutputs
    BY <1>1, <1>6 DEF Reads
  <2> QED
    BY <1>1, <1>6, <2>1, LimitsComplete DEF Covered
<1>7. CASE seq[i].reads = "structureInputSize"
  <2>1. At(i - 1, VariableInput)
    BY <1>1, <1>7 DEF Reads
  <2>2. i - 1 >= 1 /\ i - 1 <= Len(params) /\ params[i - 1] = constVoidPtr
    <3>1. i - 1 >= 1 /\ params[i - 1] = constVoidPtr
      BY <1>1, <1>2, <2>1, AtInput
    <3> QED
      BY <1>1, <1>2, <3>1
  <2>3. i - 1 \in Positions
    BY <1>1, <1>2, <2>2 DEF Positions
  <2>4. i - 1 \in StructInputs
    BY <2>2, <2>3, Tokens DEF StructInputs
  <2>5. struct_input_size = kIOUCVariableStructureSize
    BY <1>1, <2>1, <2>4, LimitsComplete DEF InputSize
  <2> QED
    BY <1>7, <2>5 DEF Covered
<1>8. CASE seq[i].reads = "structureOutputSize"
  <2>1. At(i - 1, VariableOutput)
    BY <1>1, <1>8 DEF Reads
  <2>2. i - 1 >= 1 /\ i - 1 <= Len(params) /\ params[i - 1] = voidPtr
    <3>1. i - 1 >= 1 /\ params[i - 1] = voidPtr
      BY <1>1, <1>2, <2>1, AtOutput
    <3> QED
      BY <1>1, <1>2, <3>1
  <2>3. i - 1 \in Positions
    BY <1>1, <1>2, <2>2 DEF Positions
  <2>4. i - 1 \in StructOutputs
    <3>1. ~At(i - 1, AsyncTriple)
      BY <1>1, <1>2, <2>2, AtAsync, Distinct
    <3>2. voidPtr.form = "pointer"
      BY DEF voidPtr
    <3> QED
      BY <2>2, <2>3, <3>1, <3>2, Tokens DEF StructOutputs, StructPointer
  <2>5. struct_output_size = kIOUCVariableStructureSize
    BY <1>1, <2>1, <2>4, LimitsComplete DEF OutputSize
  <2> QED
    BY <1>8, <2>5 DEF Covered
<1>9. CASE seq[i].reads \in {"asyncWakePort", "asyncReference", "asyncReferenceCount"}
  <2>1. At(i, AsyncTriple) \/ At(i - 1, AsyncTriple) \/ At(i - 2, AsyncTriple)
    BY <1>1, <1>9 DEF Reads
  <2>2. PICK k \in Int : At(k, AsyncTriple)
    BY <1>1, <2>1
  <2>3. k \in Positions
    <3>1. k >= 1 /\ k + 2 <= Len(params)
      BY <1>2, <2>2, AtAsync
    <3> QED
      BY <1>2, <3>1 DEF Positions
  <2>4. is_async
    BY <1>1, <2>2, <2>3, LimitsComplete
  <2> QED
    BY <1>9, <2>4 DEF Covered
<1> QED
  BY <1>1, <1>3, <1>4, <1>5, <1>6, <1>7, <1>8, <1>9 DEF Members

LEMMA ReadsAreDistinct == IInv => EveryElementReadOnce
<1> SUFFICES ASSUME IInv, NEW i \in DOMAIN seq, NEW j \in DOMAIN seq,
                    seq[i].reads \in {"scalarInput", "scalarOutput",
                                      "structureInput", "structureOutput"},
                    seq[i].reads = seq[j].reads, seq[i].index = seq[j].index
             PROVE  i = j
  BY DEF EveryElementReadOnce
<1>1. /\ i \in Int /\ i - 1 \in Int /\ Reads(seq[i], i)
      /\ j \in Int /\ j - 1 \in Int /\ Reads(seq[j], j) /\ LimitsDone
  BY Selected, SelectorsLast
<1>2. Len(params) \in Nat
  BY LimitsComplete, <1>1
<1>3. ASSUME NEW S \in SUBSET (1..Len(params)), i \in S, j \in S,
             Count(S, i - 1) = Count(S, j - 1)
      PROVE  i = j
  <2>1. CASE i < j
    <3>1. i <= j - 1
      BY <1>1, <2>1
    <3>2. Count(S, i - 1) < Count(S, j - 1)
      BY <1>1, <1>2, <1>3, <3>1, CountNumbers
    <3>3. Count(S, i - 1) \in Nat
      BY <1>1, <1>2, <1>3, CountType
    <3> QED
      BY <1>3, <3>2, <3>3
  <2>2. CASE j < i
    <3>1. j <= i - 1
      BY <1>1, <2>2
    <3>2. Count(S, j - 1) < Count(S, i - 1)
      BY <1>1, <1>2, <1>3, <3>1, CountNumbers
    <3>3. Count(S, j - 1) \in Nat
      BY <1>1, <1>2, <1>3, CountType
    <3> QED
      BY <1>3, <3>2, <3>3
  <2> QED
    BY <1>1, <2>1, <2>2
<1>4. CASE seq[i].reads = "scalarInput"
  <2>1. /\ i \in ScalarInputs /\ seq[i].index = Count(ScalarInputs, i - 1)
        /\ j \in ScalarInputs /\ seq[j].index = Count(ScalarInputs, j - 1)
    BY <1>1, <1>4 DEF Reads
  <2> QED
    BY <1>3, <2>1, PositionSets
<1>5. CASE seq[i].reads = "scalarOutput"
  <2>1. /\ i \in ScalarOutputs /\ seq[i].index = Count(ScalarOutputs, i - 1)
        /\ j \in ScalarOutputs /\ seq[j].index = Count(ScalarOutputs, j - 1)
    BY <1>1, <1>5 DEF Reads
  <2> QED
    BY <1>3, <2>1, PositionSets
<1>6. CASE seq[i].reads = "structureInput"
  <2>1. i \in StructInputs /\ j \in StructInputs
    BY <1>1, <1>6 DEF Reads
  <2> QED
    BY <1>1, <2>1, LimitsComplete
<1>7. CASE seq[i].reads = "structureOutput"
  <2>1. i \in StructOutputs /\ j \in StructOutputs
    BY <1>1, <1>7 DEF Reads
  <2> QED
    BY <1>1, <2>1, LimitsComplete
<1> QED
  BY <1>4, <1>5, <1>6, <1>7

LEMMA ReadsInOrder == IInv => ParametersInOrder
<1> SUFFICES ASSUME IInv PROVE ParametersInOrder
  OBVIOUS
<1>1. Len(seq) = consumed["arg_seq_accum"]
  BY DEF IInv, SelectorsInv
<1>2. \A i \in DOMAIN seq : seq[i].type = params[i]
  BY Selected DEF Reads
<1> QED
  BY <1>1, <1>2 DEF ParametersInOrder

LEMMA LimitsMatchReads == IInv => LimitsAreTight
<1> SUFFICES ASSUME IInv, Described
             PROVE  /\ inputs = Cardinality(Selecting("scalarInput"))
                    /\ outputs = Cardinality(Selecting("scalarOutput"))
                    /\ struct_input_size # 0 <=> Selecting("structureInput") # {}
                    /\ struct_output_size # 0 <=> Selecting("structureOutput") # {}
                    /\ is_async <=> Selecting("asyncWakePort") # {}
  BY DEF LimitsAreTight
<1>1. LimitsDone /\ consumed["arg_seq_accum"] = Len(params)
  BY TemplateOrder DEF Described, LimitsDone
<1>2. DOMAIN seq = Positions
  <2>1. seq \in Seq(Selectors)
    BY DEF IInv, TypeOK, Selectors
  <2>2. Len(seq) = Len(params)
    BY <1>1 DEF IInv, SelectorsInv
  <2>3. DOMAIN seq = 1..Len(seq)
    BY <2>1
  <2> QED
    BY <2>2, <2>3 DEF Positions
<1>3. \A i \in Positions : Reads(seq[i], i)
  BY <1>2, Selected
<1>r. \A i \in Positions :
        /\ seq[i].reads = "scalarInput" <=> i \in ScalarInputs
        /\ seq[i].reads = "scalarOutput" <=> i \in ScalarOutputs
        /\ seq[i].reads = "structureInput" <=> i \in StructInputs
        /\ seq[i].reads = "structureOutput" <=> i \in StructOutputs
  BY <1>3 DEF Reads
<1>s. /\ ScalarInputs \subseteq Positions /\ ScalarOutputs \subseteq Positions
      /\ StructInputs \subseteq Positions /\ StructOutputs \subseteq Positions
  BY PositionSets DEF Positions
<1>4. Selecting("scalarInput") = ScalarInputs /\ Selecting("scalarOutput") = ScalarOutputs
  BY <1>2, <1>r, <1>s DEF Selecting
<1>5. Selecting("structureInput") = StructInputs /\ Selecting("structureOutput") = StructOutputs
  BY <1>2, <1>r, <1>s DEF Selecting
<1>6. Selecting("asyncWakePort") = {i \in Positions : At(i, AsyncTriple)}
  BY <1>2, <1>3 DEF Selecting, Reads
<1>7. Len(params) \in Nat
  BY <1>1, LimitsComplete
<1>8. inputs = Cardinality(ScalarInputs) /\ outputs = Cardinality(ScalarOutputs)
  BY <1>1, <1>7, LimitsComplete, PositionSets, CountAll
<1>9. /\ struct_input_size = 0 <=> StructInputs = {}
      /\ struct_output_size = 0 <=> StructOutputs = {}
      /\ is_async <=> \E i \in Positions : At(i, AsyncTriple)
  BY <1>1, LimitsComplete
<1>10. is_async <=> Selecting("asyncWakePort") # {}
  BY <1>6, <1>9
<1> QED
  BY <1>4, <1>5, <1>8, <1>9, <1>10

(* No method of any signature reads beyond what IOUserClient was told to   *)
(* check: scalars by their count, structs by their size, and the async     *)
(* members only in an asynchronous method.                                 *)
THEOREM LimitsAlwaysCoverReads == Spec => []LimitsCoverReads
  BY ArgumentsInvariant, ReadsAreCovered, PTL

(* No two parameters of a method share a scalar or a struct.               *)
THEOREM EveryElementAlwaysReadOnce == Spec => []EveryElementReadOnce
  BY ArgumentsInvariant, ReadsAreDistinct, PTL

(* Each parameter is cast to its own type, in its own place.               *)
THEOREM ParametersAlwaysInOrder == Spec => []ParametersInOrder
  BY ArgumentsInvariant, ReadsInOrder, PTL

(* Nothing is asked of the caller that the method does not take.           *)
THEOREM LimitsAlwaysTight == Spec => []LimitsAreTight
  BY ArgumentsInvariant, LimitsMatchReads, PTL
=============================================================================

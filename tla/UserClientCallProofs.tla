------------------------ MODULE UserClientCallProofs ------------------------
(***************************************************************************)
(* Proofs about the call of an external method, for any methods, argument  *)
(* counts, struct sizes and lengths of memory descriptors.                 *)
(***************************************************************************)
EXTENDS UserClientCall, MethodArgumentsProofs

-----------------------------------------------------------------------------
(* The inductive invariant                                                 *)

(* Before anything is mapped in this direction.                            *)
Unmapped(d) == map[d] = 0 /\ pointer[d] = "caller" /\ d \notin logged

BeforeMapping ==
  {"idle", "arrived", "checking", "wrapped", "mapping input", "shim", "in shimmed method"}

(* A mapping exists exactly as long as map says so, and by stage.          *)
MappingsInv ==
  /\ \A d \in Directions : live[d] = IF map[d] = 0 THEN 0 ELSE 1
  /\ stage \in BeforeMapping => \A d \in Directions : Unmapped(d)
  /\ stage = "mapping output" => Unmapped("output")
  /\ stage = "releasing output" => map["input"] = 0
  /\ stage = "returned" => \A d \in Directions : map[d] = 0

(* What is behind the pointer the method will be told.                     *)
Backed(d) ==
  /\ pointer[d] = "mapping" => map[d] # 0 /\ size[d] <= map[d]
  /\ d \in logged => pointer[d] = "caller" /\ size[d] = 0

BackedInv ==
  stage \in {"mapping input", "mapping output", "in method"} =>
    \A d \in Directions : Backed(d)

(* The class compiles, and IOUserClient and external_method have checked   *)
(* the arguments of a method that runs.                                    *)
Running == {"mapping input", "mapping output", "in method"}
CheckedInv ==
  /\ stage # "idle" => Described
  /\ stage = "checking" => HasMethod
  /\ stage \in Running \union {"wrapped"} =>
       inputs = scalarInputCount /\ outputs = scalarOutputCount
  /\ stage \in Running => AsyncGiven

(* A struct of a fixed size is as IOUserClient checked it, and then whole. *)
Delivered(limit, d) == limit \in 1..Word - 1 => WholeStruct(d, limit)
StructsInv ==
  /\ stage \in {"wrapped", "mapping input"} => StructFits(struct_input_size, "input")
  /\ stage \in {"wrapped", "mapping input", "mapping output"} =>
       StructFits(struct_output_size, "output")
  /\ stage \in {"mapping output", "in method"} => Delivered(struct_input_size, "input")
  /\ stage = "in method" => Delivered(struct_output_size, "output")

CallIInv == CallTypeOK /\ MappingsInv /\ BackedInv /\ CheckedInv /\ StructsInv

-----------------------------------------------------------------------------
(* Constants and the dispatch table                                        *)

LEMMA Truncation ==
  ASSUME NEW length \in Nat
  PROVE  /\ length % Word \in 0..Word - 1
         /\ length % Word <= length
         /\ length < Word => length % Word = length
  BY WordAssumption

LEMMA SizesAreWords ==
  ASSUME NEW name \in TypeNames
  PROVE  SizeOf[name] # 0 => SizeOf[name] \in 1..Word - 1
<1>1. SizeOf[name] \in Nat
  BY TypesAssumption
<1> QED
  BY <1>1, WordAssumption

LEMMA MethodTable ==
  ASSUME selector \in 0..Len(methods), HasMethod
  PROVE  methods[selector + 1] \in {"wrapped", "shim"}
  BY DEF HasMethod, methods

-----------------------------------------------------------------------------
(* Steps of a call                                                         *)

(* The steps that leave the mappings and the structs alone.                *)
Passing ==
  \/ NoMethod \/ Dispatch \/ OutsideLimits \/ CallFunction
  \/ ShimBadArgument \/ ShimCalls \/ ShimReturns
  \/ BadArgument \/ Apply

LEMMA PassingFrame ==
  ASSUME Passing, selector \in 0..Len(methods),
         stage = "checking" => HasMethod
  PROVE  /\ UNCHANGED <<selector, isUCC, scalarInputCount, scalarOutputCount, descriptor, given>>
         /\ UNCHANGED <<size, pointer, map, live, logged>>
         /\ stage \in {"arrived", "checking", "wrapped", "shim", "in shimmed method"}
         /\ stage' \in {"returned", "checking", "wrapped", "shim", "in shimmed method",
                        "mapping input"}
         /\ result' \in {result, "refused", "success", "error"}
         /\ stage' = "checking" => HasMethod
         /\ stage' = "wrapped" =>
              methods[selector + 1] = "wrapped" /\ WithinLimits
         /\ stage' = "mapping input" => stage = "wrapped" /\ AsyncGiven
<1> USE DEF callArgs, structVars, Goto
<1>1. CASE NoMethod
  BY <1>1 DEF NoMethod, Refuse
<1>2. CASE Dispatch
  BY <1>2 DEF Dispatch
<1>3. CASE OutsideLimits
  BY <1>3 DEF OutsideLimits, Refuse
<1>4. CASE CallFunction
  BY <1>4, MethodTable DEF CallFunction
<1>5. CASE ShimBadArgument
  BY <1>5 DEF ShimBadArgument, Refuse
<1>6. CASE ShimCalls
  BY <1>6 DEF ShimCalls
<1>7. CASE ShimReturns
  BY <1>7 DEF ShimReturns
<1>8. CASE BadArgument
  BY <1>8 DEF BadArgument, Refuse
<1>9. CASE Apply
  BY <1>9 DEF Apply
<1> QED
  BY <1>1, <1>2, <1>3, <1>4, <1>5, <1>6, <1>7, <1>8, <1>9 DEF Passing

LEMMA PassingStep ==
  ASSUME CallIInv, Passing, UNCHANGED templateVars
  PROVE  CallIInv'
<1>0. CallTypeOK /\ MappingsInv /\ BackedInv /\ CheckedInv /\ StructsInv
  BY DEF CallIInv
<1>1. /\ UNCHANGED <<selector, isUCC, scalarInputCount, scalarOutputCount, descriptor, given>>
      /\ UNCHANGED <<size, pointer, map, live, logged>>
      /\ stage \in {"arrived", "checking", "wrapped", "shim", "in shimmed method"}
      /\ stage' \in {"returned", "checking", "wrapped", "shim", "in shimmed method",
                     "mapping input"}
      /\ result' \in {result, "refused", "success", "error"}
      /\ stage' = "checking" => HasMethod
      /\ stage' = "wrapped" => methods[selector + 1] = "wrapped" /\ WithinLimits
      /\ stage' = "mapping input" => stage = "wrapped" /\ AsyncGiven
  BY <1>0, PassingFrame DEF CallTypeOK, CheckedInv
<1>2. UNCHANGED <<params, consumed, rejected, inputs, outputs, struct_input_size,
                  struct_output_size, is_async>>
  BY DEF templateVars, limits
<1>3. CallTypeOK'
  BY <1>0, <1>1 DEF CallTypeOK, Stages
<1>4. \A d \in Directions : Unmapped(d) /\ Unmapped(d)'
  BY <1>0, <1>1 DEF MappingsInv, BeforeMapping, Unmapped
<1>5. MappingsInv'
  BY <1>0, <1>1, <1>4 DEF MappingsInv, BeforeMapping, Unmapped, Directions
<1>6. BackedInv'
  BY <1>4 DEF BackedInv, Backed, Unmapped
<1>7. CheckedInv'
  BY <1>0, <1>1, <1>2
     DEF CheckedInv, Running, Described, HasMethod, AsyncGiven, WithinLimits
<1>8. StructsInv'
  <2>1. stage' \in {"wrapped", "mapping input"} =>
          StructFits(struct_input_size, "input") /\ StructFits(struct_output_size, "output")
    BY <1>0, <1>1 DEF WithinLimits, StructsInv
  <2>2. /\ StructFits(struct_input_size, "input")' = StructFits(struct_input_size, "input")
        /\ StructFits(struct_output_size, "output")' = StructFits(struct_output_size, "output")
    BY <1>1, <1>2 DEF StructFits
  <2> QED
    BY <1>1, <2>1, <2>2 DEF StructsInv
<1> QED
  BY <1>3, <1>5, <1>6, <1>7, <1>8 DEF CallIInv

LEMMA ArriveStep ==
  ASSUME CallIInv, Arrive, UNCHANGED templateVars
  PROVE  CallIInv'
<1>0. CallTypeOK /\ MappingsInv
  BY DEF CallIInv
<1>1. stage = "idle" /\ stage' = "arrived" /\ Described
      /\ UNCHANGED <<pointer, map, live, logged, result>>
  BY DEF Arrive, Goto
<1>2. CallTypeOK'
  <2>1. stage' \in Stages /\ selector' \in 0..Len(methods) /\ isUCC' \in BOOLEAN
        /\ given' \in SUBSET AsyncMembers
    BY <1>1 DEF Arrive, Stages
  <2>2. scalarInputCount' \in Nat /\ scalarOutputCount' \in Nat
    BY CallerAssumption DEF Arrive
  <2>3. size' \in [Directions -> 0..Word - 1] /\ descriptor' \in [Directions -> Nat]
    <3>1. InlineSizes \subseteq 0..Word - 1 /\ Lengths \union {NoDescriptor} \subseteq Nat
      BY CallerAssumption DEF NoDescriptor
    <3>2. size' \in [Directions -> InlineSizes] /\ descriptor' \in [Directions -> Lengths \union {NoDescriptor}]
      BY DEF Arrive
    <3> QED
      BY <3>1, <3>2
  <2> QED
    BY <1>0, <1>1, <2>1, <2>2, <2>3 DEF CallTypeOK
<1>3. MappingsInv'
  BY <1>0, <1>1 DEF MappingsInv, BeforeMapping, Unmapped
<1>4. Described'
  BY <1>1 DEF Described, templateVars
<1>5. BackedInv' /\ CheckedInv' /\ StructsInv'
  BY <1>1, <1>4 DEF BackedInv, CheckedInv, StructsInv, Running
<1> QED
  BY <1>2, <1>3, <1>5 DEF CallIInv

(* What a mapping attempt in one direction makes of that direction.        *)
MapStep(d, from, to) == Map(d, from, to) \/ MapFails(d, from, to) \/ MapNothing(d, from, to)

LEMMA MapEffect ==
  ASSUME CallTypeOK, NEW d \in Directions, Unmapped(d),
         live[d] = 0, NEW from, NEW to, MapStep(d, from, to)
  PROVE  /\ size' \in [Directions -> 0..Word - 1] /\ map' \in [Directions -> Nat]
         /\ live' \in [Directions -> Nat]
         /\ pointer' \in [Directions -> {"caller", "mapping"}]
         /\ logged' \in SUBSET Directions
         /\ live'[d] = IF map'[d] = 0 THEN 0 ELSE 1
         /\ Backed(d)'
         /\ \A e \in Directions \ {d} :
              /\ size'[e] = size[e] /\ map'[e] = map[e] /\ live'[e] = live[e]
              /\ pointer'[e] = pointer[e] /\ (e \in logged' <=> e \in logged)
         /\ \A limit : StructFits(limit, d) => Delivered(limit, d)'
<1> USE DEF callArgs, Goto, CallTypeOK, Unmapped
<1>1. CASE Map(d, from, to)
  <2>1. descriptor[d] \in Nat /\ descriptor[d] # 0 /\ size[d] = 0
    BY <1>1 DEF Map, NeedsMapping, NoDescriptor
  <2>2. /\ descriptor[d] % Word \in 0..Word - 1
        /\ descriptor[d] % Word <= descriptor[d]
        /\ descriptor[d] < Word => descriptor[d] % Word = descriptor[d]
    BY <2>1, Truncation
  <2>3. /\ map' = [map EXCEPT ![d] = descriptor[d]]
        /\ live' = [live EXCEPT ![d] = @ + 1]
        /\ size' = [size EXCEPT ![d] = descriptor[d] % Word]
        /\ pointer' = [pointer EXCEPT ![d] = "mapping"]
        /\ UNCHANGED <<selector, isUCC, scalarInputCount, scalarOutputCount, descriptor, given,
                       result, logged>>
        /\ stage = from /\ stage' = to
    BY <1>1 DEF Map
  <2>4. map'[d] = descriptor[d] /\ live'[d] = 1 /\ size'[d] = descriptor[d] % Word
        /\ pointer'[d] = "mapping" /\ d \notin logged'
    BY <2>3
  <2>5. size' \in [Directions -> 0..Word - 1] /\ map' \in [Directions -> Nat]
        /\ live' \in [Directions -> Nat] /\ pointer' \in [Directions -> {"caller", "mapping"}]
    BY <2>1, <2>2, <2>3
  <2>6. Backed(d)'
    BY <2>1, <2>2, <2>4 DEF Backed
  <2>7. ASSUME NEW limit, StructFits(limit, d) PROVE Delivered(limit, d)'
    BY <2>1, <2>2, <2>4, <2>7, WordAssumption
       DEF Delivered, WholeStruct, StructFits, NoDescriptor, kIOUCVariableStructureSize
  <2>8. \A e \in Directions \ {d} :
              /\ size'[e] = size[e] /\ map'[e] = map[e] /\ live'[e] = live[e]
              /\ pointer'[e] = pointer[e] /\ (e \in logged' <=> e \in logged)
    BY <2>3
  <2> QED
    BY <2>1, <2>3, <2>4, <2>5, <2>6, <2>7, <2>8
<1>2. CASE MapFails(d, from, to)
  <2>1. size[d] = 0 /\ logged' = logged \union {d} /\ stage = from /\ stage' = to
        /\ UNCHANGED <<selector, isUCC, scalarInputCount, scalarOutputCount, descriptor, given,
                       result, size, pointer, map, live>>
    BY <1>2 DEF MapFails, NeedsMapping
  <2>2. Backed(d)' /\ \A limit : Delivered(limit, d)'
    BY <2>1 DEF Backed, Delivered, WholeStruct
  <2> QED
    BY <2>1, <2>2
<1>3. CASE MapNothing(d, from, to)
  <2>1. /\ stage = from /\ stage' = to
        /\ UNCHANGED <<selector, isUCC, scalarInputCount, scalarOutputCount, descriptor, given,
                       result, size, pointer, map, live, logged>>
        /\ size[d] # 0 \/ descriptor[d] = NoDescriptor
    BY <1>3 DEF MapNothing, NeedsMapping, structVars
  <2>2. Backed(d)'
    BY <2>1 DEF Backed
  <2>3. ASSUME NEW limit, StructFits(limit, d) PROVE Delivered(limit, d)'
    BY <2>1, <2>3, WordAssumption
       DEF Delivered, WholeStruct, StructFits, kIOUCVariableStructureSize
  <2> QED
    BY <2>1, <2>2, <2>3
<1> QED
  BY <1>1, <1>2, <1>3 DEF MapStep

LEMMA MapInputStep ==
  ASSUME CallIInv, MapInput, UNCHANGED templateVars
  PROVE  CallIInv'
<1>0. CallTypeOK /\ MappingsInv /\ BackedInv /\ CheckedInv /\ StructsInv
  BY DEF CallIInv
<1>1. MapStep("input", "mapping input", "mapping output") /\ stage = "mapping input"
  BY DEF MapInput, MapStep, Map, MapFails, MapNothing, Goto
<1>2. \A d \in Directions : Unmapped(d) /\ live[d] = 0
  BY <1>0, <1>1 DEF MappingsInv, BeforeMapping, Unmapped
<1>3. "input" \in Directions /\ Directions \ {"input"} = {"output"}
  BY DEF Directions
<1>4. /\ UNCHANGED <<selector, isUCC, scalarInputCount, scalarOutputCount, descriptor, given,
                     result>>
      /\ stage' = "mapping output"
      /\ size' \in [Directions -> 0..Word - 1] /\ map' \in [Directions -> Nat]
      /\ live' \in [Directions -> Nat]
      /\ pointer' \in [Directions -> {"caller", "mapping"}]
      /\ logged' \in SUBSET Directions
      /\ live'["input"] = IF map'["input"] = 0 THEN 0 ELSE 1
      /\ Backed("input")'
      /\ size'["output"] = size["output"] /\ map'["output"] = map["output"]
      /\ live'["output"] = live["output"] /\ pointer'["output"] = pointer["output"]
      /\ ("output" \in logged' <=> "output" \in logged)
      /\ \A limit : StructFits(limit, "input") => Delivered(limit, "input")'
  <2>1. Unmapped("input") /\ live["input"] = 0 /\ "input" \in Directions
    BY <1>2, <1>3
  <2>2. /\ UNCHANGED <<selector, isUCC, scalarInputCount, scalarOutputCount, descriptor, given,
                       result>>
        /\ stage' = "mapping output"
    BY <1>1 DEF MapStep, Map, MapFails, MapNothing, callArgs, Goto
  <2>8. /\ size' \in [Directions -> 0..Word - 1] /\ map' \in [Directions -> Nat]
        /\ live' \in [Directions -> Nat]
        /\ pointer' \in [Directions -> {"caller", "mapping"}]
        /\ logged' \in SUBSET Directions
    BY <1>0, <1>1, <2>1, MapEffect
  <2>7. live'["input"] = IF map'["input"] = 0 THEN 0 ELSE 1
    BY <1>0, <1>1, <2>1, MapEffect
  <2>5. Backed("input")'
    BY <1>0, <1>1, <2>1, MapEffect
  <2>6. \A limit : StructFits(limit, "input") => Delivered(limit, "input")'
    BY <1>0, <1>1, <2>1, MapEffect
  <2>3. \A e \in Directions \ {"input"} :
          /\ size'[e] = size[e] /\ map'[e] = map[e] /\ live'[e] = live[e]
          /\ pointer'[e] = pointer[e] /\ (e \in logged' <=> e \in logged)
    BY <1>0, <1>1, <2>1, MapEffect
  <2>4. "output" \in Directions \ {"input"}
    BY DEF Directions
  <2> QED
    BY <2>2, <2>3, <2>4, <2>5, <2>6, <2>7, <2>8
<1>5. UNCHANGED <<params, consumed, rejected, inputs, outputs, struct_input_size,
                  struct_output_size, is_async>>
  BY DEF templateVars, limits
<1>6. CallTypeOK'
  BY <1>0, <1>4 DEF CallTypeOK, Stages
<1>7. Unmapped("output")' /\ live'["output"] = 0
  BY <1>2, <1>3, <1>4 DEF Unmapped
<1>8. MappingsInv'
  BY <1>3, <1>4, <1>7 DEF MappingsInv, BeforeMapping, Unmapped, Directions
<1>9. BackedInv'
  BY <1>3, <1>4, <1>7 DEF BackedInv, Backed, Unmapped, Directions
<1>10. CheckedInv'
  BY <1>0, <1>1, <1>4, <1>5 DEF CheckedInv, Running, Described, AsyncGiven
<1>11. StructFits(struct_input_size, "input") /\ StructFits(struct_output_size, "output")
  BY <1>0, <1>1 DEF StructsInv
<1>12. StructFits(struct_output_size, "output")' /\ Delivered(struct_input_size, "input")'
  BY <1>4, <1>5, <1>11 DEF StructFits, Delivered
<1> QED
  BY <1>4, <1>6, <1>8, <1>9, <1>10, <1>12 DEF CallIInv, StructsInv

LEMMA MapOutputStep ==
  ASSUME CallIInv, MapOutput, UNCHANGED templateVars
  PROVE  CallIInv'
<1>0. CallTypeOK /\ MappingsInv /\ BackedInv /\ CheckedInv /\ StructsInv
  BY DEF CallIInv
<1>1. MapStep("output", "mapping output", "in method") /\ stage = "mapping output"
  BY DEF MapOutput, MapStep, Map, MapFails, MapNothing, Goto
<1>2. "output" \in Directions /\ Directions \ {"output"} = {"input"}
  BY DEF Directions
<1>3. Unmapped("output") /\ live["output"] = 0
  BY <1>0, <1>1, <1>2 DEF MappingsInv, Unmapped
<1>4. /\ UNCHANGED <<selector, isUCC, scalarInputCount, scalarOutputCount, descriptor, given,
                     result>>
      /\ stage' = "in method"
      /\ size' \in [Directions -> 0..Word - 1] /\ map' \in [Directions -> Nat]
      /\ live' \in [Directions -> Nat]
      /\ pointer' \in [Directions -> {"caller", "mapping"}]
      /\ logged' \in SUBSET Directions
      /\ live'["output"] = IF map'["output"] = 0 THEN 0 ELSE 1
      /\ Backed("output")'
      /\ size'["input"] = size["input"] /\ map'["input"] = map["input"]
      /\ live'["input"] = live["input"] /\ pointer'["input"] = pointer["input"]
      /\ ("input" \in logged' <=> "input" \in logged)
      /\ \A limit : StructFits(limit, "output") => Delivered(limit, "output")'
  <2>1. Unmapped("output") /\ live["output"] = 0 /\ "output" \in Directions
    BY <1>2, <1>3
  <2>2. /\ UNCHANGED <<selector, isUCC, scalarInputCount, scalarOutputCount, descriptor, given,
                       result>>
        /\ stage' = "in method"
    BY <1>1 DEF MapStep, Map, MapFails, MapNothing, callArgs, Goto
  <2>8. /\ size' \in [Directions -> 0..Word - 1] /\ map' \in [Directions -> Nat]
        /\ live' \in [Directions -> Nat]
        /\ pointer' \in [Directions -> {"caller", "mapping"}]
        /\ logged' \in SUBSET Directions
    BY <1>0, <1>1, <2>1, MapEffect
  <2>7. live'["output"] = IF map'["output"] = 0 THEN 0 ELSE 1
    BY <1>0, <1>1, <2>1, MapEffect
  <2>5. Backed("output")'
    BY <1>0, <1>1, <2>1, MapEffect
  <2>6. \A limit : StructFits(limit, "output") => Delivered(limit, "output")'
    BY <1>0, <1>1, <2>1, MapEffect
  <2>3. \A e \in Directions \ {"output"} :
          /\ size'[e] = size[e] /\ map'[e] = map[e] /\ live'[e] = live[e]
          /\ pointer'[e] = pointer[e] /\ (e \in logged' <=> e \in logged)
    BY <1>0, <1>1, <2>1, MapEffect
  <2>4. "input" \in Directions \ {"output"}
    BY DEF Directions
  <2> QED
    BY <2>2, <2>3, <2>4, <2>5, <2>6, <2>7, <2>8
<1>5. UNCHANGED <<params, consumed, rejected, inputs, outputs, struct_input_size,
                  struct_output_size, is_async>>
  BY DEF templateVars, limits
<1>6. CallTypeOK'
  BY <1>0, <1>4 DEF CallTypeOK, Stages
<1>7. live["input"] = (IF map["input"] = 0 THEN 0 ELSE 1) /\ Backed("input")
  BY <1>0, <1>1, <1>2 DEF MappingsInv, BackedInv
<1>8. MappingsInv'
  BY <1>2, <1>4, <1>7 DEF MappingsInv, BeforeMapping, Directions
<1>9. Backed("input")'
  BY <1>4, <1>7 DEF Backed
<1>10. BackedInv'
  BY <1>2, <1>4, <1>9 DEF BackedInv, Directions
<1>11. CheckedInv'
  BY <1>0, <1>1, <1>4, <1>5 DEF CheckedInv, Running, Described, AsyncGiven
<1>12. Delivered(struct_input_size, "input") /\ StructFits(struct_output_size, "output")
  BY <1>0, <1>1 DEF StructsInv
<1>13. Delivered(struct_input_size, "input")'
  BY <1>4, <1>5, <1>12 DEF Delivered, WholeStruct
<1>14. Delivered(struct_output_size, "output")'
  BY <1>4, <1>5, <1>12 DEF Delivered
<1> QED
  BY <1>4, <1>6, <1>8, <1>10, <1>11, <1>13, <1>14 DEF CallIInv, StructsInv

LEMMA ReturnStep ==
  ASSUME CallIInv, MethodReturns, UNCHANGED templateVars
  PROVE  CallIInv'
<1>0. CallTypeOK /\ MappingsInv /\ CheckedInv
  BY DEF CallIInv
<1>1. /\ UNCHANGED <<selector, isUCC, scalarInputCount, scalarOutputCount, descriptor, given>>
      /\ UNCHANGED <<size, pointer, map, live, logged>>
      /\ stage = "in method" /\ stage' = "releasing input"
      /\ result' \in {"success", "error"}
  BY DEF MethodReturns, Goto, callArgs, structVars
<1>2. CallTypeOK'
  BY <1>0, <1>1 DEF CallTypeOK, Stages
<1>3. MappingsInv'
  BY <1>0, <1>1 DEF MappingsInv, BeforeMapping
<1>4. Described'
  BY <1>0, <1>1 DEF CheckedInv, Described, templateVars
<1>5. BackedInv' /\ CheckedInv' /\ StructsInv'
  BY <1>1, <1>4 DEF BackedInv, CheckedInv, StructsInv, Running
<1> QED
  BY <1>2, <1>3, <1>5 DEF CallIInv

(* A release undoes one mapping, if there is one.                          *)
LEMMA ReleaseEffect ==
  ASSUME CallTypeOK, MappingsInv, NEW d \in Directions, NEW from, NEW to, Release(d, from, to)
  PROVE  /\ UNCHANGED <<selector, isUCC, scalarInputCount, scalarOutputCount, descriptor, given>>
         /\ UNCHANGED <<size, pointer, logged, result>>
         /\ stage = from /\ stage' = to
         /\ map' \in [Directions -> Nat] /\ live' \in [Directions -> Nat]
         /\ map'[d] = 0
         /\ \A e \in Directions \ {d} : map'[e] = map[e]
         /\ \A e \in Directions : live'[e] = IF map'[e] = 0 THEN 0 ELSE 1
<1>1. /\ UNCHANGED <<selector, isUCC, scalarInputCount, scalarOutputCount, descriptor, given>>
      /\ UNCHANGED <<size, pointer, logged, result>>
      /\ stage = from /\ stage' = to
      /\ live' = IF map[d] = 0 THEN live ELSE [live EXCEPT ![d] = @ - 1]
      /\ map' = [map EXCEPT ![d] = 0]
  BY DEF Release, Goto, callArgs
<1>2. map \in [Directions -> Nat] /\ live \in [Directions -> Nat]
      /\ \A e \in Directions : live[e] = IF map[e] = 0 THEN 0 ELSE 1
  BY DEF CallTypeOK, MappingsInv
<1> QED
  BY <1>1, <1>2

LEMMA ReleaseInputStep ==
  ASSUME CallIInv, ReleaseInput, UNCHANGED templateVars
  PROVE  CallIInv'
<1>0. CallTypeOK /\ MappingsInv /\ CheckedInv
  BY DEF CallIInv
<1>1. /\ UNCHANGED <<selector, isUCC, scalarInputCount, scalarOutputCount, descriptor, given>>
      /\ UNCHANGED <<size, pointer, logged, result>>
      /\ stage = "releasing input" /\ stage' = "releasing output"
      /\ map' \in [Directions -> Nat] /\ live' \in [Directions -> Nat]
      /\ map'["input"] = 0
      /\ \A e \in Directions : live'[e] = IF map'[e] = 0 THEN 0 ELSE 1
  BY <1>0, ReleaseEffect DEF ReleaseInput, Directions
<1>2. CallTypeOK'
  BY <1>0, <1>1 DEF CallTypeOK, Stages
<1>3. MappingsInv'
  BY <1>1 DEF MappingsInv, BeforeMapping
<1>4. Described'
  BY <1>0, <1>1 DEF CheckedInv, Described, templateVars
<1>5. BackedInv' /\ CheckedInv' /\ StructsInv'
  BY <1>1, <1>4 DEF BackedInv, CheckedInv, StructsInv, Running
<1> QED
  BY <1>2, <1>3, <1>5 DEF CallIInv

LEMMA ReleaseOutputStep ==
  ASSUME CallIInv, ReleaseOutput, UNCHANGED templateVars
  PROVE  CallIInv'
<1>0. CallTypeOK /\ MappingsInv /\ CheckedInv
  BY DEF CallIInv
<1>1. /\ UNCHANGED <<selector, isUCC, scalarInputCount, scalarOutputCount, descriptor, given>>
      /\ UNCHANGED <<size, pointer, logged, result>>
      /\ stage = "releasing output" /\ stage' = "returned"
      /\ map' \in [Directions -> Nat] /\ live' \in [Directions -> Nat]
      /\ map'["input"] = map["input"] /\ map'["output"] = 0
      /\ \A e \in Directions : live'[e] = IF map'[e] = 0 THEN 0 ELSE 1
  BY <1>0, ReleaseEffect DEF ReleaseOutput, Directions
<1>2. CallTypeOK'
  BY <1>0, <1>1 DEF CallTypeOK, Stages
<1>3. MappingsInv'
  BY <1>0, <1>1 DEF MappingsInv, BeforeMapping, Directions
<1>4. Described'
  BY <1>0, <1>1 DEF CheckedInv, Described, templateVars
<1>5. BackedInv' /\ CheckedInv' /\ StructsInv'
  BY <1>1, <1>4 DEF BackedInv, CheckedInv, StructsInv, Running
<1> QED
  BY <1>2, <1>3, <1>5 DEF CallIInv

-----------------------------------------------------------------------------
(* Steps of the templates                                                  *)

(* An instantiation takes place only while parameters are left.            *)
LEMMA NextInstantiates ==
  ASSUME Next
  PROVE  \E t \in Templates : Instantiates(t)
<1> USE TemplateOrder DEF Consume, ConsumeGroup, ConsumeOne, Reject
<1>1. CASE InputsIgnoreGroup \/ InputsIgnorePointer \/ InputsCount
  BY <1>1 DEF InputsIgnoreGroup, InputsIgnorePointer, InputsCount
<1>2. CASE OutputsIgnoreGroup \/ OutputsIgnore \/ OutputsCount
  BY <1>2 DEF OutputsIgnoreGroup, OutputsIgnore, OutputsCount
<1>3. CASE StructInputVariable \/ StructInputFixed \/ StructInputRejected \/ StructInputIgnore
  BY <1>3 DEF StructInputVariable, StructInputFixed, StructInputRejected, StructInputIgnore
<1>4. CASE StructOutputIgnoreGroup \/ StructOutputVariable \/ StructOutputFixed
  BY <1>4 DEF StructOutputIgnoreGroup, StructOutputVariable, StructOutputFixed
<1>5. CASE StructOutputRejected \/ StructOutputIgnore
  BY <1>5 DEF StructOutputRejected, StructOutputIgnore
<1>6. CASE AsyncFound \/ AsyncNotYet
  BY <1>6 DEF AsyncFound, AsyncNotYet
<1>7. CASE SelectAsync \/ SelectVariableInput \/ SelectVariableOutput
  BY <1>7 DEF SelectAsync, SelectVariableInput, SelectVariableOutput, SelectGroup
<1>8. CASE SelectFixedInput \/ SelectFixedOutput \/ SelectScalarInput \/ SelectScalarOutput
  BY <1>8 DEF SelectFixedInput, SelectFixedOutput, SelectScalarInput, SelectScalarOutput, SelectOne
<1> QED
  BY <1>1, <1>2, <1>3, <1>4, <1>5, <1>6, <1>7, <1>8 DEF Next, Describe, Select

(* So they are done with before the first call arrives.                    *)
LEMMA TemplateStep ==
  ASSUME IInv, CallIInv, Next, UNCHANGED callVars
  PROVE  CallIInv'
<1>0. CallTypeOK /\ MappingsInv /\ CheckedInv
  BY DEF CallIInv
<1>1. UNCHANGED <<stage, selector, isUCC, scalarInputCount, scalarOutputCount, descriptor, given,
                  size, pointer, map, live, logged, result>>
  BY DEF callVars, callArgs, structVars
<1>2. PICK t \in Templates : consumed[t] < Len(params)
  BY NextInstantiates DEF Instantiates
<1>3. consumed[t] # Len(params)
  BY <1>2, ConsumedType DEF IInv
<1>4. stage = "idle"
  BY <1>0, <1>3 DEF CheckedInv, Described
<1>5. CallTypeOK' /\ MappingsInv'
  BY <1>0, <1>1 DEF CallTypeOK, MappingsInv, Unmapped
<1>6. BackedInv' /\ CheckedInv' /\ StructsInv'
  BY <1>1, <1>4 DEF BackedInv, CheckedInv, StructsInv, Running
<1> QED
  BY <1>5, <1>6 DEF CallIInv

-----------------------------------------------------------------------------
(* The invariant                                                           *)

LEMMA CallInitInv == CallInit => CallIInv
<1> SUFFICES ASSUME CallInit PROVE CallIInv
  OBVIOUS
<1>1. CallTypeOK
  <2>1. 0 \in 0..Word - 1 /\ 0 \in 0..Len(methods)
    BY WordAssumption DEF methods
  <2>2. /\ size \in [Directions -> 0..Word - 1]
        /\ descriptor \in [Directions -> Nat] /\ map \in [Directions -> Nat]
        /\ live \in [Directions -> Nat]
        /\ pointer \in [Directions -> {"caller", "mapping"}]
    BY <2>1 DEF CallInit, NoDescriptor
  <2>3. /\ stage \in Stages /\ selector \in 0..Len(methods)
        /\ scalarInputCount \in Nat /\ scalarOutputCount \in Nat
        /\ result \in {"none", "refused", "success", "error"}
    BY <2>1 DEF CallInit, Stages
  <2>4. isUCC \in BOOLEAN /\ given \in SUBSET AsyncMembers /\ logged \in SUBSET Directions
    BY DEF CallInit
  <2> QED
    BY <2>2, <2>3, <2>4 DEF CallTypeOK
<1>2. MappingsInv
  BY DEF CallInit, MappingsInv, Unmapped, Directions
<1>3. BackedInv /\ CheckedInv /\ StructsInv
  BY DEF CallInit, BackedInv, CheckedInv, StructsInv, Running
<1> QED
  BY <1>1, <1>2, <1>3 DEF CallIInv

LEMMA CallNextInv == IInv /\ CallIInv /\ [CallNext]_vars => CallIInv'
<1> SUFFICES ASSUME IInv, CallIInv, [CallNext]_vars PROVE CallIInv'
  OBVIOUS
<1>1. CASE UNCHANGED vars
  <2>1. UNCHANGED <<stage, selector, isUCC, scalarInputCount, scalarOutputCount, descriptor, given,
                    size, pointer, map, live, logged, result>>
        /\ UNCHANGED <<params, consumed, rejected, inputs, outputs, struct_input_size,
                       struct_output_size, is_async>>
    BY <1>1 DEF vars, templateVars, limits, callVars, callArgs, structVars
  <2>2. CallTypeOK' /\ MappingsInv' /\ BackedInv'
    BY <2>1 DEF CallIInv, CallTypeOK, MappingsInv, Unmapped, BackedInv, Backed
  <2>3. CheckedInv'
    BY <2>1 DEF CallIInv, CheckedInv, Described, HasMethod, AsyncGiven
  <2>4. StructsInv'
    BY <2>1 DEF CallIInv, StructsInv, StructFits, Delivered, WholeStruct
  <2> QED
    BY <2>2, <2>3, <2>4 DEF CallIInv
<1>2. CASE Next /\ UNCHANGED callVars
  BY <1>2, TemplateStep
<1>3. CASE Call /\ UNCHANGED templateVars
  <2>1. CASE Passing
    BY <1>3, <2>1, PassingStep
  <2>2. CASE Arrive
    BY <1>3, <2>2, ArriveStep
  <2>3. CASE MapInput
    BY <1>3, <2>3, MapInputStep
  <2>4. CASE MapOutput
    BY <1>3, <2>4, MapOutputStep
  <2>5. CASE MethodReturns
    BY <1>3, <2>5, ReturnStep
  <2>6. CASE ReleaseInput
    BY <1>3, <2>6, ReleaseInputStep
  <2>7. CASE ReleaseOutput
    BY <1>3, <2>7, ReleaseOutputStep
  <2> QED
    BY <1>3, <2>1, <2>2, <2>3, <2>4, <2>5, <2>6, <2>7 DEF Call, Passing
<1> QED
  BY <1>1, <1>2, <1>3 DEF CallNext

(* Calls take no part in the instantiation of the templates.               *)
LEMMA CallImplementsTemplates == CallSpec => Spec
<1>1. CallInit => Init
  BY DEF CallInit
<1>2. [CallNext]_vars => [Next]_templateVars
  BY DEF CallNext, vars
<1> QED
  BY <1>1, <1>2, PTL DEF CallSpec, Spec

(* For any methods and any caller: what is mapped, what the method will be *)
(* told of it and what has been checked, at every stage of a call.         *)
THEOREM CallInvariant == CallSpec => [](IInv /\ CallIInv)
<1>1. CallSpec => []IInv
  BY CallImplementsTemplates, ArgumentsInvariant, PTL
<1>2. CallInit => CallIInv
  BY CallInitInv
<1>3. IInv /\ CallIInv /\ [CallNext]_vars => CallIInv'
  BY CallNextInv
<1> QED
  BY <1>1, <1>2, <1>3, PTL DEF CallSpec

(* Type correctness of a call: sizes stay within 32 bits, and no mapping   *)
(* is released twice.                                                      *)
THEOREM CallTypeCorrect == CallSpec => []CallTypeOK
<1>1. CallIInv => CallTypeOK
  BY DEF CallIInv
<1> QED
  BY <1>1, CallInvariant, PTL

(* Whichever mapping failed and whatever the method returned, a call       *)
(* leaves no mapping behind.                                               *)
THEOREM NoMappingEverLeaks == CallSpec => []NoMappingLeaks
<1>1. CallIInv => NoMappingLeaks
  <2> SUFFICES ASSUME CallIInv PROVE NoMappingLeaks
    OBVIOUS
  <2>1. stage \in Stages /\ MappingsInv
    BY DEF CallIInv, CallTypeOK
  <2> QED
    BY <2>1 DEF NoMappingLeaks, MappingsInv, Unmapped, BeforeMapping, Stages
<1> QED
  BY <1>1, CallInvariant, PTL

(* The size a method is told never exceeds what is behind the pointer, for *)
(* lengths of any number of bits.                                          *)
THEOREM StructSizesAlwaysBacked == CallSpec => []StructSizesBacked
<1>1. CallIInv => StructSizesBacked
  BY DEF CallIInv, StructSizesBacked, BackedInv, Backed, MappingsInv
<1> QED
  BY <1>1, CallInvariant, PTL

(* No method reads a scalar or an async member that its caller did not     *)
(* pass: here what the templates derive meets what IOUserClient checks.    *)
THEOREM AlwaysReadsWhatWasGiven == CallSpec => []ReadsWhatWasGiven
<1>1. IInv /\ CallIInv => ReadsWhatWasGiven
  <2> SUFFICES ASSUME IInv, CallIInv, stage = "in method", NEW i \in DOMAIN seq
               PROVE  /\ seq[i].reads = "scalarInput" => seq[i].index < scalarInputCount
                      /\ seq[i].reads = "scalarOutput" => seq[i].index < scalarOutputCount
                      /\ seq[i].reads \in AsyncMembers => seq[i].reads \in given
    BY DEF ReadsWhatWasGiven
  <2>1. Covered(i)
    BY ReadsAreCovered DEF LimitsCoverReads
  <2>2. inputs = scalarInputCount /\ outputs = scalarOutputCount /\ AsyncGiven
    BY DEF CallIInv, CheckedInv, Running
  <2>3. seq[i].reads \in AsyncMembers => is_async
    BY <2>1 DEF Covered, AsyncMembers
  <2> QED
    BY <2>1, <2>2, <2>3 DEF Covered, AsyncGiven
<1> QED
  BY <1>1, CallInvariant, PTL

(* A method with a parameter of type T* or const T* finds a whole T there, *)
(* unless the code logged that it does not, or the caller passed a struct  *)
(* in both ways.                                                           *)
THEOREM FixedStructsAlwaysWhole == CallSpec => []FixedStructsWhole
<1>1. IInv /\ CallIInv => FixedStructsWhole
  <2> SUFFICES ASSUME IInv, CallIInv, stage = "in method", NEW i \in DOMAIN seq
               PROVE  /\ seq[i].reads = "structureInput" /\ ~At(i, VariableInput)
                           => WholeStruct("input", SizeOf[seq[i].type.of])
                      /\ seq[i].reads = "structureOutput" /\ ~At(i, VariableOutput)
                           => WholeStruct("output", SizeOf[seq[i].type.of])
    BY DEF FixedStructsWhole
  <2>1. Covered(i) /\ i \in Positions /\ Reads(seq[i], i)
    BY ReadsAreCovered, Selected DEF LimitsCoverReads
  <2>2. seq[i].type = params[i]
    BY <2>1 DEF Reads
  <2>3. Delivered(struct_input_size, "input") /\ Delivered(struct_output_size, "output")
    BY DEF CallIInv, StructsInv
  <2>4. params[i].of \in TypeNames
    BY <2>1, ParamsType DEF IInv, TypeOK
  <2>5. ASSUME seq[i].reads = "structureInput", ~At(i, VariableInput)
        PROVE  struct_input_size = SizeOf[params[i].of] /\ struct_input_size # 0
    <3>1. struct_input_size = SizeOf[params[i].of]
      BY <2>1, <2>5 DEF Covered, InputSize
    <3>2. i \in StructInputs
      BY <2>1, <2>5 DEF Reads
    <3>3. struct_input_size # 0
      BY <3>2, Selected, SelectorsLast, LimitsComplete
    <3> QED
      BY <3>1, <3>3
  <2>6. ASSUME seq[i].reads = "structureOutput", ~At(i, VariableOutput)
        PROVE  struct_output_size = SizeOf[params[i].of] /\ struct_output_size # 0
    <3>1. struct_output_size = SizeOf[params[i].of]
      BY <2>1, <2>6 DEF Covered, OutputSize
    <3>2. i \in StructOutputs
      BY <2>1, <2>6 DEF Reads
    <3>3. struct_output_size # 0
      BY <3>2, Selected, SelectorsLast, LimitsComplete
    <3> QED
      BY <3>1, <3>3
  <2>7. SizeOf[params[i].of] # 0 => SizeOf[params[i].of] \in 1..Word - 1
    BY <2>4, SizesAreWords
  <2>8. ASSUME seq[i].reads = "structureInput", ~At(i, VariableInput)
        PROVE  WholeStruct("input", SizeOf[params[i].of])
    BY <2>3, <2>5, <2>7, <2>8 DEF Delivered
  <2>9. ASSUME seq[i].reads = "structureOutput", ~At(i, VariableOutput)
        PROVE  WholeStruct("output", SizeOf[params[i].of])
    BY <2>3, <2>6, <2>7, <2>9 DEF Delivered
  <2> QED
    BY <2>2, <2>8, <2>9
<1> QED
  BY <1>1, CallInvariant, PTL
=============================================================================

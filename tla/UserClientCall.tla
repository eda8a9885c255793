--------------------------- MODULE UserClientCall ---------------------------
(***************************************************************************)
(* A call of an external method that userclient_method wraps, from the     *)
(* dispatch by selector to the return: the limits MethodArguments derives  *)
(* are checked by IOUserClient, structures that arrive as memory           *)
(* descriptors are mapped for the time of the method, and the method reads *)
(* its parameters through the selectors.  All the state of a call is on    *)
(* its stack and in its arguments, so that calls do not interact.          *)
(***************************************************************************)
EXTENDS MethodArguments

CONSTANTS
  Word,          (* 2^32: struct sizes are uint32_t, mapped lengths are not. *)
  ScalarCounts,  (* Scalar counts a caller may pass.                       *)
  InlineSizes,   (* Sizes of structs passed by value; 0 for none.          *)
  Lengths        (* Lengths of structs passed as memory descriptors.       *)

ASSUME WordAssumption ==
  /\ Word \in Nat \ {0}
  /\ \A name \in TypeNames : SizeOf[name] < Word

ASSUME CallerAssumption ==
  /\ ScalarCounts \subseteq Nat
  /\ InlineSizes \subseteq 0..Word - 1
  /\ Lengths \subseteq Nat \ {0}

NoDescriptor == 0

AsyncMembers == {"asyncWakePort", "asyncReference", "asyncReferenceCount"}

(* The dispatch table: the wrapped method, a method behind the shim of     *)
(* userclient_external_methods, and a selector without a function.         *)
methods == <<"wrapped", "shim", "none">>

Directions == {"input", "output"}

VARIABLES
  stage,       (* Where the call is.                                       *)
  selector,
  isUCC,       (* The target is an instance of the method's class.         *)
  scalarInputCount, scalarOutputCount,
  size,        (* structureInputSize and structureOutputSize.              *)
  descriptor,  (* The lengths of the memory descriptors.                   *)
  pointer,     (* structureInput and structureOutput: the caller's buffer  *)
               (* or the mapping.                                          *)
  given,       (* The async members that are set.                          *)
  map,         (* in_map and out_map: the length mapped, 0 for nullptr.    *)
  live,        (* The mappings that exist in the kernel, in each direction. *)
  logged,      (* The directions for which a failed mapping was logged.    *)
  result

callArgs == <<selector, isUCC, scalarInputCount, scalarOutputCount, descriptor, given>>
structVars == <<size, pointer, map, live, logged>>
callVars == <<stage, callArgs, structVars, result>>
vars == <<templateVars, callVars>>

CallInit ==
  /\ Init
  /\ stage = "idle"
  /\ selector = 0
  /\ isUCC = TRUE
  /\ scalarInputCount = 0 /\ scalarOutputCount = 0
  /\ size = [d \in Directions |-> 0]
  /\ descriptor = [d \in Directions |-> NoDescriptor]
  /\ pointer = [d \in Directions |-> "caller"]
  /\ given = {}
  /\ map = [d \in Directions |-> 0]
  /\ live = [d \in Directions |-> 0]
  /\ logged = {}
  /\ result = "none"

Goto(from, to) == stage = from /\ stage' = to

(* The class compiles, and IOKit passes the arguments of a call on.        *)
Arrive ==
  /\ Described
  /\ Goto("idle", "arrived")
  /\ selector' \in 0..Len(methods)
  /\ isUCC' \in BOOLEAN
  /\ scalarInputCount' \in ScalarCounts
  /\ scalarOutputCount' \in ScalarCounts
  /\ size' \in [Directions -> InlineSizes]
  /\ descriptor' \in [Directions -> Lengths \union {NoDescriptor}]
  /\ given' \in SUBSET AsyncMembers
  /\ UNCHANGED <<pointer, map, live, logged, result>>

Refuse(from) ==
  /\ Goto(from, "returned")
  /\ result' = "refused"
  /\ UNCHANGED <<callArgs, structVars>>

-----------------------------------------------------------------------------
(* djt_dispatch_methods *)

HasMethod == selector < Len(methods) /\ methods[selector + 1] # "none"

(* IOUserClient::externalMethod without a dispatch entry finds no method.  *)
NoMethod == Refuse("arrived") /\ ~HasMethod

Dispatch ==
  /\ Goto("arrived", "checking")
  /\ HasMethod
  /\ UNCHANGED <<callArgs, structVars, result>>

(* IOUserClient::externalMethod with a dispatch entry: the counts have to  *)
(* be the method's, and the size of a struct too unless it is variable.    *)
StructFits(limit, d) ==
  \/ limit = kIOUCVariableStructureSize
  \/ limit = IF descriptor[d] # NoDescriptor THEN descriptor[d] ELSE size[d]

WithinLimits ==
  methods[selector + 1] = "wrapped" =>
    /\ scalarInputCount = inputs
    /\ scalarOutputCount = outputs
    /\ StructFits(struct_input_size, "input")
    /\ StructFits(struct_output_size, "output")

OutsideLimits == Refuse("checking") /\ ~WithinLimits

CallFunction ==
  /\ stage = "checking"
  /\ WithinLimits
  /\ stage' = methods[selector + 1]
  /\ UNCHANGED <<callArgs, structVars, result>>

-----------------------------------------------------------------------------
(* userclient_external_methods: the arguments are passed on as they are.   *)

ShimBadArgument == Refuse("shim") /\ ~isUCC

ShimCalls ==
  /\ isUCC
  /\ Goto("shim", "in shimmed method")
  /\ UNCHANGED <<callArgs, structVars, result>>

ShimReturns ==
  /\ Goto("in shimmed method", "returned")
  /\ result' \in {"success", "error"}
  /\ UNCHANGED <<callArgs, structVars>>

-----------------------------------------------------------------------------
(* userclient_method::external_method and apply_fn *)

(* Mutated form of AsyncGiven: one member is enough.                       *)
AnyAsyncGiven == is_async => given # {}

AsyncGiven == is_async => given = AsyncMembers

BadArgument == Refuse("wrapped") /\ ~(isUCC /\ AsyncGiven)

Apply ==
  /\ isUCC /\ AsyncGiven
  /\ Goto("wrapped", "mapping input")
  /\ UNCHANGED <<callArgs, structVars, result>>

(* Mutated form of NeedsMapping: outputs are forgotten.                    *)
NeedsInputMapping(d) == d = "input" /\ size[d] = 0 /\ descriptor[d] # NoDescriptor

(* map_struct_arguments: only a struct that did not come by value.         *)
NeedsMapping(d) == size[d] = 0 /\ descriptor[d] # NoDescriptor

(* createMappingInTask succeeds; the length is cast to uint32_t.           *)
Map(d, from, to) ==
  /\ NeedsMapping(d)
  /\ Goto(from, to)
  /\ map' = [map EXCEPT ![d] = descriptor[d]]
  /\ live' = [live EXCEPT ![d] = @ + 1]
  /\ size' = [size EXCEPT ![d] = descriptor[d] % Word]
  /\ pointer' = [pointer EXCEPT ![d] = "mapping"]
  /\ UNCHANGED <<callArgs, logged, result>>

(* Mutated form of MapFails: the size is set before the mapping is tested. *)
MapFailsWithLength(d, from, to) ==
  /\ NeedsMapping(d)
  /\ Goto(from, to)
  /\ size' = [size EXCEPT ![d] = descriptor[d] % Word]
  /\ logged' = logged \union {d}
  /\ UNCHANGED <<callArgs, pointer, map, live, result>>

(* It fails: this is logged, and the method is called all the same.        *)
MapFails(d, from, to) ==
  /\ NeedsMapping(d)
  /\ Goto(from, to)
  /\ logged' = logged \union {d}
  /\ UNCHANGED <<callArgs, size, pointer, map, live, result>>

MapNothing(d, from, to) ==
  /\ ~NeedsMapping(d)
  /\ Goto(from, to)
  /\ UNCHANGED <<callArgs, structVars, result>>

MapInput ==
  \/ Map("input", "mapping input", "mapping output")
  \/ MapFails("input", "mapping input", "mapping output")
  \/ MapNothing("input", "mapping input", "mapping output")

MapOutput ==
  \/ Map("output", "mapping output", "in method")
  \/ MapFails("output", "mapping output", "in method")
  \/ MapNothing("output", "mapping output", "in method")

MethodReturns ==
  /\ Goto("in method", "releasing input")
  /\ result' \in {"success", "error"}
  /\ UNCHANGED <<callArgs, structVars>>

(* Mutated form of Release: a plain release, of nullptr too.               *)
ReleaseAlways(d, from, to) ==
  /\ Goto(from, to)
  /\ live' = [live EXCEPT ![d] = @ - 1]
  /\ map' = [map EXCEPT ![d] = 0]
  /\ UNCHANGED <<callArgs, size, pointer, logged, result>>

(* Mutated form of Release: the early return of a failed method skips it.  *)
ReleaseOnSuccess(d, from, to) ==
  /\ Goto(from, to)
  /\ live' = IF map[d] = 0 \/ result = "error" THEN live ELSE [live EXCEPT ![d] = @ - 1]
  /\ map' = [map EXCEPT ![d] = 0]
  /\ UNCHANGED <<callArgs, size, pointer, logged, result>>

(* OSSafeReleaseNULL.                                                      *)
Release(d, from, to) ==
  /\ Goto(from, to)
  /\ live' = IF map[d] = 0 THEN live ELSE [live EXCEPT ![d] = @ - 1]
  /\ map' = [map EXCEPT ![d] = 0]
  /\ UNCHANGED <<callArgs, size, pointer, logged, result>>

ReleaseInput == Release("input", "releasing input", "releasing output")
ReleaseOutput == Release("output", "releasing output", "returned")

-----------------------------------------------------------------------------
Call ==
  \/ Arrive
  \/ NoMethod \/ Dispatch \/ OutsideLimits \/ CallFunction
  \/ ShimBadArgument \/ ShimCalls \/ ShimReturns
  \/ BadArgument \/ Apply
  \/ MapInput \/ MapOutput \/ MethodReturns \/ ReleaseInput \/ ReleaseOutput

CallNext ==
  \/ Call /\ UNCHANGED templateVars
  \/ Next /\ UNCHANGED callVars

CallSpec == CallInit /\ [][CallNext]_vars

-----------------------------------------------------------------------------
Stages ==
  {"idle", "returned", "arrived", "checking", "wrapped", "mapping input", "mapping output",
   "in method", "releasing input", "releasing output", "shim", "in shimmed method"}

(* Type invariant; no mapping is released that is not there.               *)
CallTypeOK ==
  /\ stage \in Stages
  /\ selector \in 0..Len(methods)
  /\ isUCC \in BOOLEAN
  /\ scalarInputCount \in Nat /\ scalarOutputCount \in Nat
  /\ size \in [Directions -> 0..Word - 1]
  /\ descriptor \in [Directions -> Nat]
  /\ pointer \in [Directions -> {"caller", "mapping"}]
  /\ given \in SUBSET AsyncMembers
  /\ map \in [Directions -> Nat]
  /\ live \in [Directions -> Nat]
  /\ logged \in SUBSET Directions
  /\ result \in {"none", "refused", "success", "error"}

(* When no call is between mapping and release, no mapping is left in the  *)
(* kernel's address space, whichever of the two mappings failed and        *)
(* whatever the method returned.                                           *)
NoMappingLeaks ==
  stage \notin {"mapping input", "mapping output", "in method",
                "releasing input", "releasing output"} =>
    \A d \in Directions : live[d] = 0

(* While the method runs, the size it is told never exceeds what is behind *)
(* the pointer it is told: a mapping that is held and at least that long,  *)
(* or what the caller passed by value, which is nothing when a mapping was *)
(* wanted and failed.                                                      *)
StructSizesBacked ==
  stage = "in method" =>
    \A d \in Directions :
      /\ pointer[d] = "mapping" => live[d] = 1 /\ map[d] # 0 /\ size[d] <= map[d]
      /\ d \in logged => pointer[d] = "caller" /\ size[d] = 0

(* What the running method's selectors read was given by this caller: the  *)
(* scalars by their count, the async members because they were tested.     *)
ReadsWhatWasGiven ==
  stage = "in method" =>
    \A i \in DOMAIN seq :
      /\ seq[i].reads = "scalarInput" => seq[i].index < scalarInputCount
      /\ seq[i].reads = "scalarOutput" => seq[i].index < scalarOutputCount
      /\ seq[i].reads \in AsyncMembers => seq[i].reads \in given

(* A parameter of type const T* or T* points to a whole T while the method *)
(* runs, unless the failure to map it was logged, or the caller passed a   *)
(* descriptor of the right length next to a struct by value.               *)
WholeStruct(d, bytes) ==
  \/ size[d] = bytes
  \/ d \in logged
  \/ pointer[d] = "caller" /\ size[d] # 0 /\ descriptor[d] = bytes

FixedStructsWhole ==
  stage = "in method" =>
    \A i \in DOMAIN seq :
      /\ seq[i].reads = "structureInput" /\ ~At(i, VariableInput)
           => WholeStruct("input", SizeOf[seq[i].type.of])
      /\ seq[i].reads = "structureOutput" /\ ~At(i, VariableOutput)
           => WholeStruct("output", SizeOf[seq[i].type.of])
=============================================================================

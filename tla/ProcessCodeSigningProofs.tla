---------------------- MODULE ProcessCodeSigningProofs ----------------------
(***************************************************************************)
(* Proofs about the code-signing lookup, for any vnodes and files, any     *)
(* kernel version, and a process that execs and exits at any moment.       *)
(***************************************************************************)
EXTENDS ProcessCodeSigning, TLAPS

-----------------------------------------------------------------------------
(* The inductive invariant                                                 *)

Copying == {"csblob_get_info", "signer_type", "flags", "teamid", "vnode_put"}
Holding == Copying \union {"ubc_cs_blob_get", "fault"}
Before == {"idle", "proc_get_textvp", "vnode_get", "ubc_cs_blob_get", "fault",
           "csblob_get_info", "signer_type"}

CheckTypeOK ==
  /\ version \in Nat \X Nat
  /\ textvp \in Vnodes \union {NULLVP}
  /\ checkAt \in Before \union {"flags", "teamid", "vnode_put", "returned"}
  /\ file \in [Vnodes -> Files \union {"none"}]
  /\ iocount \in [Vnodes -> Nat]
  /\ executable_vnode \in Vnodes \union {NULLVP}
  /\ info \in [{"signer_type", "flags", "teamid"} -> Files \union {"unset"}]
  /\ result \in BOOLEAN

(* The call has an iocount on its vnode, and nobody has another: so the    *)
(* vnode goes on standing for the file it stood for.                       *)
IocountInv ==
  /\ checkAt \in Holding => executable_vnode \in Vnodes /\ file[executable_vnode] \in Files
  /\ \A v \in Vnodes :
       iocount[v] = IF checkAt \in Holding /\ v = executable_vnode THEN 1 ELSE 0

SignatureInv ==
  checkAt \in Copying => cs \in Files \ Unsigned /\ file[executable_vnode] = cs

(* A field is set once its turn has come.                                  *)
SetFields(type, flags, team) ==
  /\ info["signer_type"] = IF type THEN cs ELSE "unset"
  /\ info["flags"] = IF flags THEN cs ELSE "unset"
  /\ info["teamid"] = IF team THEN cs ELSE "unset"

FieldsInv ==
  /\ checkAt \in Holding \union {"vnode_get"} => TextvpKnown(version)
  /\ checkAt \in Before => SetFields(FALSE, FALSE, FALSE)
  /\ checkAt = "signer_type" => SignerTypeKnown(version)
  /\ checkAt = "flags" => SetFields(SignerTypeKnown(version), FALSE, FALSE)
  /\ checkAt = "teamid" => SetFields(SignerTypeKnown(version), TRUE, FALSE)
  /\ checkAt = "vnode_put" => SetFields(SignerTypeKnown(version), TRUE, TRUE)
  /\ checkAt = "returned" =>
       IF result
       THEN /\ TextvpKnown(version) /\ cs \in Files \ Unsigned
            /\ SetFields(SignerTypeKnown(version), TRUE, TRUE)
       ELSE SetFields(FALSE, FALSE, FALSE)

CheckIInv == CheckTypeOK /\ IocountInv /\ SignatureInv /\ FieldsInv

-----------------------------------------------------------------------------
(* Kernels                                                                 *)

(* proc_get_textvp and csblob_get_info agree on the kernels there are.     *)
LEMMA KernelsAgree ==
  ASSUME version \in Nat \X Nat, TextvpKnown(version)
  PROVE  /\ FlagsKnown(version)
         /\ SignerTypeKnown(version) <=> version[1] >= 17
  BY DEF TextvpKnown, FlagsKnown, SignerTypeKnown

-----------------------------------------------------------------------------
(* Steps of the kernel and of the process                                  *)

LEMMA EnvironmentStep == CheckIInv /\ Environment => CheckIInv'
<1> SUFFICES ASSUME CheckIInv, Environment PROVE CheckIInv'
  OBVIOUS
<1>0. CheckTypeOK /\ IocountInv /\ SignatureInv /\ FieldsInv
  BY DEF CheckIInv
<1>1. UNCHANGED <<checkAt, executable_vnode, cs, info, result, version, iocount>>
  BY DEF Environment, Exec, Exit, Recycle
<1>2. /\ file' \in [Vnodes -> Files \union {"none"}] /\ textvp' \in Vnodes \union {NULLVP}
      /\ \A v \in Vnodes : iocount[v] # 0 => file'[v] = file[v]
  <2>1. CASE Exec \/ Exit
    BY <1>0, <2>1 DEF Exec, Exit, CheckTypeOK
  <2>2. CASE Recycle
    <3>1. PICK v \in Vnodes, f \in Files \union {"none"} :
            iocount[v] = 0 /\ file' = [file EXCEPT ![v] = f] /\ textvp' = textvp
      BY <2>2 DEF Recycle
    <3> QED
      BY <1>0, <3>1 DEF CheckTypeOK
  <2> QED
    BY <2>1, <2>2 DEF Environment
<1>3. CheckTypeOK'
  BY <1>0, <1>1, <1>2 DEF CheckTypeOK
<1>4. IocountInv'
  BY <1>0, <1>1, <1>2 DEF IocountInv
<1>5. SignatureInv'
  <2> SUFFICES ASSUME checkAt \in Copying PROVE file'[executable_vnode] = file[executable_vnode]
    BY <1>0, <1>1 DEF SignatureInv
  <2>1. executable_vnode \in Vnodes /\ iocount[executable_vnode] # 0
    BY <1>0 DEF IocountInv, Holding
  <2> QED
    BY <1>2, <2>1
<1>6. FieldsInv'
  BY <1>0, <1>1 DEF FieldsInv, SetFields
<1> QED
  BY <1>3, <1>4, <1>5, <1>6 DEF CheckIInv

-----------------------------------------------------------------------------
(* Steps of the call                                                       *)

(* Returning without a vnode.                                              *)
LEMMA RefusalStep ==
  ASSUME CheckIInv, NoProcess \/ UnknownKernel \/ NoVnode
  PROVE  CheckIInv'
<1>0. CheckTypeOK /\ IocountInv /\ FieldsInv
  BY DEF CheckIInv
<1>1. /\ checkAt \in {"idle", "proc_get_textvp", "vnode_get"} /\ checkAt' = "returned"
      /\ result' = FALSE
      /\ UNCHANGED <<version, textvp, file, iocount, executable_vnode, cs, info>>
  BY DEF NoProcess, UnknownKernel, NoVnode, Returns, CheckTrans, system
<1>2. CheckTypeOK'
  BY <1>0, <1>1 DEF CheckTypeOK
<1>3. IocountInv' /\ SignatureInv'
  BY <1>0, <1>1 DEF IocountInv, SignatureInv, Holding, Copying
<1>4. FieldsInv'
  BY <1>0, <1>1 DEF FieldsInv, SetFields, Holding, Copying, Before
<1> QED
  BY <1>2, <1>3, <1>4 DEF CheckIInv

LEMMA LookupStep ==
  ASSUME CheckIInv, GetProcess \/ ReadTextvp
  PROVE  CheckIInv'
<1>0. CheckTypeOK /\ IocountInv /\ FieldsInv
  BY DEF CheckIInv
<1>1. /\ checkAt \in {"idle", "proc_get_textvp"}
      /\ checkAt' \in {"proc_get_textvp", "vnode_get"}
      /\ checkAt' = "vnode_get" => TextvpKnown(version)
      /\ UNCHANGED <<version, textvp, file, iocount, cs, info, result>>
  BY DEF GetProcess, ReadTextvp, CheckTrans, system
<1>2. executable_vnode' \in Vnodes \union {NULLVP}
  <2>1. CASE GetProcess
    BY <1>0, <2>1 DEF GetProcess, CheckTypeOK
  <2>2. CASE ReadTextvp
    BY <1>0, <2>2 DEF ReadTextvp, CheckTypeOK
  <2> QED
    BY <2>1, <2>2
<1>3. CheckTypeOK'
  BY <1>0, <1>1, <1>2 DEF CheckTypeOK, Before
<1>4. IocountInv' /\ SignatureInv'
  BY <1>0, <1>1 DEF IocountInv, SignatureInv, Holding, Copying
<1>5. FieldsInv'
  BY <1>0, <1>1 DEF FieldsInv, SetFields, Holding, Copying, Before
<1> QED
  BY <1>3, <1>4, <1>5 DEF CheckIInv

LEMMA VnodeGetStep ==
  ASSUME CheckIInv, vnode_get
  PROVE  CheckIInv'
<1>0. CheckTypeOK /\ IocountInv /\ FieldsInv
  BY DEF CheckIInv
<1>1. /\ checkAt = "vnode_get" /\ checkAt' = "ubc_cs_blob_get"
      /\ executable_vnode # NULLVP /\ file[executable_vnode] # "none"
      /\ iocount' = [iocount EXCEPT ![executable_vnode] = @ + 1]
      /\ UNCHANGED <<version, textvp, file, executable_vnode, cs, info, result>>
  BY DEF vnode_get, CheckTrans
<1>2. /\ executable_vnode \in Vnodes /\ file[executable_vnode] \in Files
      /\ \A v \in Vnodes : iocount[v] = 0
  BY <1>0, <1>1 DEF CheckTypeOK, IocountInv, Holding, Copying
<1>3. CheckTypeOK'
  BY <1>0, <1>1, <1>2 DEF CheckTypeOK, Before
<1>4. IocountInv' /\ SignatureInv'
  BY <1>0, <1>1, <1>2 DEF CheckTypeOK, IocountInv, SignatureInv, Holding, Copying
<1>5. FieldsInv'
  BY <1>0, <1>1 DEF FieldsInv, SetFields, Holding, Copying, Before
<1> QED
  BY <1>3, <1>4, <1>5 DEF CheckIInv

LEMMA BlobGetStep ==
  ASSUME CheckIInv, ubc_cs_blob_get
  PROVE  CheckIInv'
<1>0. CheckTypeOK /\ IocountInv /\ FieldsInv
  BY DEF CheckIInv
<1>1. /\ checkAt = "ubc_cs_blob_get" /\ checkAt' \in {"fault", "csblob_get_info"}
      /\ checkAt' = "csblob_get_info" => cs' \notin Unsigned
      /\ cs' = file[executable_vnode]
      /\ UNCHANGED <<version, textvp, file, iocount, executable_vnode, info, result>>
  BY DEF ubc_cs_blob_get, system
<1>2. CheckTypeOK'
  BY <1>0, <1>1 DEF CheckTypeOK, Before
<1>3. file[executable_vnode] \in Files
  BY <1>0, <1>1 DEF IocountInv, Holding
<1>4. IocountInv' /\ SignatureInv'
  BY <1>0, <1>1, <1>3 DEF IocountInv, SignatureInv, Holding, Copying
<1>5. FieldsInv'
  BY <1>0, <1>1 DEF FieldsInv, SetFields, Holding, Copying, Before
<1> QED
  BY <1>2, <1>4, <1>5 DEF CheckIInv

(* No kernel whose text vnode is known ends in the default case.           *)
LEMMA SwitchStep ==
  ASSUME CheckIInv, SwitchOnVersion
  PROVE  CheckIInv'
<1>0. CheckTypeOK /\ IocountInv /\ SignatureInv /\ FieldsInv
  BY DEF CheckIInv
<1>1. checkAt = "csblob_get_info" /\ FlagsKnown(version)
      /\ UNCHANGED <<version, textvp, file, iocount, executable_vnode, cs, info, result>>
  BY <1>0, KernelsAgree
     DEF SwitchOnVersion, system, CheckTypeOK, FieldsInv, Holding, Copying
<1>2. \/ checkAt' = "signer_type" /\ SignerTypeKnown(version)
      \/ checkAt' = "flags" /\ ~SignerTypeKnown(version)
  BY <1>1 DEF SwitchOnVersion
<1>3. CheckTypeOK'
  BY <1>0, <1>1, <1>2 DEF CheckTypeOK, Before
<1>4. IocountInv' /\ SignatureInv'
  BY <1>0, <1>1, <1>2 DEF IocountInv, SignatureInv, Holding, Copying
<1>5. FieldsInv'
  BY <1>0, <1>1, <1>2 DEF FieldsInv, SetFields, SignerTypeKnown, Holding, Copying, Before
<1> QED
  BY <1>3, <1>4, <1>5 DEF CheckIInv

LEMMA CopyStep ==
  ASSUME CheckIInv, CopySignerType \/ CopyFlags \/ CopyTeamid
  PROVE  CheckIInv'
<1>0. CheckTypeOK /\ IocountInv /\ SignatureInv /\ FieldsInv
  BY DEF CheckIInv
<1>1. /\ checkAt \in {"signer_type", "flags", "teamid"}
      /\ checkAt' \in {"flags", "teamid", "vnode_put"}
      /\ UNCHANGED <<version, textvp, file, iocount, executable_vnode, cs, result>>
  BY DEF CopySignerType, CopyFlags, CopyTeamid, CheckTrans, Copy, system
<1>2. Memory = cs /\ cs \in Files
  BY <1>0, <1>1 DEF SignatureInv, Memory, Copying
<1>3. \E field \in {"signer_type", "flags", "teamid"} : info' = [info EXCEPT ![field] = cs]
  BY <1>2 DEF CopySignerType, CopyFlags, CopyTeamid, Copy
<1>4. CheckTypeOK'
  BY <1>0, <1>1, <1>2, <1>3 DEF CheckTypeOK, Before
<1>5. IocountInv' /\ SignatureInv'
  BY <1>0, <1>1 DEF IocountInv, SignatureInv, Holding, Copying
<1>6. TextvpKnown(version)
  BY <1>0, <1>1 DEF FieldsInv, Holding, Copying
<1>7. FieldsInv'
  <2>0. info \in [{"signer_type", "flags", "teamid"} -> Files \union {"unset"}]
    BY <1>0 DEF CheckTypeOK
  <2>1. CASE CopySignerType
    <3>1. SetFields(FALSE, FALSE, FALSE) /\ SignerTypeKnown(version)
      BY <1>0, <2>1 DEF FieldsInv, CopySignerType, CheckTrans, Before
    <3>2. checkAt' = "flags" /\ info' = [info EXCEPT !["signer_type"] = cs]
      BY <1>2, <2>1 DEF CopySignerType, CheckTrans, Copy
    <3>3. SetFields(TRUE, FALSE, FALSE)'
      BY <1>1, <2>0, <3>1, <3>2 DEF SetFields
    <3> QED
      BY <1>1, <1>6, <3>1, <3>2, <3>3 DEF FieldsInv, SetFields, SignerTypeKnown, Before
  <2>2. CASE CopyFlags
    <3>1. SetFields(SignerTypeKnown(version), FALSE, FALSE)
      BY <1>0, <2>2 DEF FieldsInv, CopyFlags, CheckTrans
    <3>2. checkAt' = "teamid" /\ info' = [info EXCEPT !["flags"] = cs]
      BY <1>2, <2>2 DEF CopyFlags, CheckTrans, Copy
    <3>3. SetFields(SignerTypeKnown(version), TRUE, FALSE)'
      BY <1>1, <2>0, <3>1, <3>2 DEF SetFields
    <3> QED
      BY <1>1, <1>6, <3>2, <3>3 DEF FieldsInv, TextvpKnown, Before
  <2>3. CASE CopyTeamid
    <3>1. SetFields(SignerTypeKnown(version), TRUE, FALSE)
      BY <1>0, <2>3 DEF FieldsInv, CopyTeamid, CheckTrans
    <3>2. checkAt' = "vnode_put" /\ info' = [info EXCEPT !["teamid"] = cs]
      BY <1>2, <2>3 DEF CopyTeamid, CheckTrans, Copy
    <3>3. SetFields(SignerTypeKnown(version), TRUE, TRUE)'
      BY <1>1, <2>0, <3>1, <3>2 DEF SetFields
    <3> QED
      BY <1>1, <1>6, <3>2, <3>3 DEF FieldsInv, TextvpKnown, Before
  <2> QED
    BY <2>1, <2>2, <2>3
<1> QED
  BY <1>4, <1>5, <1>7 DEF CheckIInv

LEMMA VnodePutStep ==
  ASSUME CheckIInv, vnode_put
  PROVE  CheckIInv'
<1>0. CheckTypeOK /\ IocountInv /\ SignatureInv /\ FieldsInv
  BY DEF CheckIInv
<1>1. /\ checkAt = "vnode_put" /\ checkAt' = "returned" /\ result' = TRUE
      /\ iocount' = [iocount EXCEPT ![executable_vnode] = @ - 1]
      /\ UNCHANGED <<version, textvp, file, executable_vnode, cs, info>>
  BY DEF vnode_put, CheckTrans
<1>2. /\ executable_vnode \in Vnodes
      /\ \A v \in Vnodes : iocount[v] = IF v = executable_vnode THEN 1 ELSE 0
  BY <1>0, <1>1 DEF IocountInv, Holding, Copying
<1>3. CheckTypeOK' /\ \A v \in Vnodes : iocount'[v] = 0
  BY <1>0, <1>1, <1>2 DEF CheckTypeOK
<1>4. IocountInv' /\ SignatureInv'
  BY <1>1, <1>3 DEF IocountInv, SignatureInv, Holding, Copying
<1>5. FieldsInv'
  <2>1. /\ TextvpKnown(version) /\ cs \in Files \ Unsigned
        /\ SetFields(SignerTypeKnown(version), TRUE, TRUE)
    BY <1>0, <1>1 DEF FieldsInv, SignatureInv, Holding, Copying
  <2>2. SetFields(SignerTypeKnown(version), TRUE, TRUE)'
    BY <1>1, <2>1 DEF SetFields, SignerTypeKnown
  <2> QED
    BY <1>1, <2>1, <2>2 DEF FieldsInv, TextvpKnown, Holding, Copying, Before
<1> QED
  BY <1>3, <1>4, <1>5 DEF CheckIInv

LEMMA AskAgainStep ==
  ASSUME CheckIInv, AskAgain
  PROVE  CheckIInv'
<1>0. CheckTypeOK /\ IocountInv
  BY DEF CheckIInv
<1>1. /\ checkAt = "returned" /\ checkAt' = "idle"
      /\ executable_vnode' = NULLVP /\ info' = Unset /\ result' = FALSE
      /\ UNCHANGED <<version, textvp, file, iocount>>
  BY DEF AskAgain, CheckTrans, system
<1>2. CheckTypeOK'
  BY <1>0, <1>1 DEF CheckTypeOK, Before, Unset
<1>3. IocountInv' /\ SignatureInv'
  BY <1>0, <1>1 DEF IocountInv, SignatureInv, Holding, Copying
<1>4. FieldsInv'
  BY <1>1 DEF FieldsInv, SetFields, Unset, Holding, Copying, Before
<1> QED
  BY <1>2, <1>3, <1>4 DEF CheckIInv

-----------------------------------------------------------------------------
LEMMA CheckInitInv == CheckInit => CheckIInv
<1> SUFFICES ASSUME CheckInit PROVE CheckIInv
  OBVIOUS
<1>1. CheckTypeOK
  BY SigningAssumption DEF CheckInit, CheckTypeOK, Before, Unset
<1>2. IocountInv /\ SignatureInv
  BY DEF CheckInit, IocountInv, SignatureInv, Holding, Copying
<1>3. FieldsInv
  BY DEF CheckInit, FieldsInv, SetFields, Unset, Holding, Copying, Before
<1> QED
  BY <1>1, <1>2, <1>3 DEF CheckIInv

LEMMA CheckNextInv == CheckIInv /\ [CheckNext]_checkVars => CheckIInv'
<1> SUFFICES ASSUME CheckIInv, [CheckNext]_checkVars PROVE CheckIInv'
  OBVIOUS
<1>1. CASE UNCHANGED checkVars
  <2>1. UNCHANGED <<version, textvp, file, iocount, checkAt, executable_vnode, cs, info, result>>
    BY <1>1 DEF checkVars, system
  <2> QED
    BY <2>1 DEF CheckIInv, CheckTypeOK, IocountInv, SignatureInv, FieldsInv, SetFields
<1>2. CASE Environment
  BY <1>2, EnvironmentStep
<1>3. CASE Check
  BY <1>3, RefusalStep, LookupStep, VnodeGetStep, BlobGetStep, SwitchStep, CopyStep,
     VnodePutStep, AskAgainStep DEF Check
<1> QED
  BY <1>1, <1>2, <1>3 DEF CheckNext

(* At every stage of a lookup, which vnode is held and what has been       *)
(* copied of whose signature.                                              *)
THEOREM CheckInvariant == CheckSpec => []CheckIInv
<1>1. CheckInit => CheckIInv
  BY CheckInitInv
<1>2. CheckIInv /\ [CheckNext]_checkVars => CheckIInv'
  BY CheckNextInv
<1> QED
  BY <1>1, <1>2, PTL DEF CheckSpec

(* A lookup never mixes the signatures of two files, however often the     *)
(* process execs, exits and vnodes are recycled, and it leaves no iocount. *)
THEOREM InfoIsAlwaysOfOneFile == CheckSpec => []InfoIsOfOneFile
<1>1. CheckIInv => InfoIsOfOneFile
  <2> SUFFICES ASSUME CheckIInv, checkAt = "returned"
               PROVE  /\ \A v \in Vnodes : iocount[v] = 0
                      /\ \E f \in Files \ Unsigned :
                           \A field \in DOMAIN info : info[field] \in {"unset", f}
    BY DEF InfoIsOfOneFile
  <2>1. CheckTypeOK /\ IocountInv /\ FieldsInv
    BY DEF CheckIInv
  <2>2. \A v \in Vnodes : iocount[v] = 0
    BY <2>1 DEF IocountInv, Holding, Copying
  <2>3. DOMAIN info = {"signer_type", "flags", "teamid"}
    BY <2>1 DEF CheckTypeOK
  <2>4. CASE result
    BY <2>1, <2>2, <2>3, <2>4 DEF FieldsInv, SetFields
  <2>5. CASE ~result
    <3>1. PICK f \in Files : f \notin Unsigned
      BY SigningAssumption
    <3> QED
      BY <2>1, <2>2, <2>3, <2>5, <3>1 DEF FieldsInv, SetFields
  <2> QED
    BY <2>4, <2>5
<1> QED
  BY <1>1, CheckInvariant, PTL

(* On every kernel, a call that returns true has set every field there is  *)
(* on that kernel, and one that returns false none.                        *)
THEOREM TrueAlwaysMeansInformed == CheckSpec => []TrueMeansInformed
<1>1. CheckIInv => TrueMeansInformed
  <2> SUFFICES ASSUME CheckIInv, checkAt = "returned"
               PROVE  {field \in DOMAIN info : info[field] # "unset"} =
                        IF result THEN {"flags", "teamid"} \union
                                       (IF version[1] >= 17 THEN {"signer_type"} ELSE {})
                        ELSE {}
    BY DEF TrueMeansInformed
  <2>1. CheckTypeOK /\ FieldsInv
    BY DEF CheckIInv
  <2>2. DOMAIN info = {"signer_type", "flags", "teamid"}
    BY <2>1 DEF CheckTypeOK
  <2>3. CASE result
    <3>1. /\ TextvpKnown(version) /\ cs # "unset"
          /\ SetFields(SignerTypeKnown(version), TRUE, TRUE)
      BY <2>1, <2>3, SigningAssumption DEF FieldsInv
    <3>2. SignerTypeKnown(version) <=> version[1] >= 17
      BY <2>1, <3>1, KernelsAgree DEF CheckTypeOK
    <3> QED
      BY <2>2, <2>3, <3>1, <3>2 DEF SetFields
  <2>4. CASE ~result
    BY <2>1, <2>2, <2>4 DEF FieldsInv, SetFields
  <2> QED
    BY <2>3, <2>4
<1> QED
  BY <1>1, CheckInvariant, PTL
=============================================================================

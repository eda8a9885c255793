------------------------- MODULE ProcessCodeSigning -------------------------
(***************************************************************************)
(* security.c: djt_task_check_security looks up the code signature of a    *)
(* process that may at any time execute something else or exit.  A vnode   *)
(* stands for a file for as long as somebody uses it; then the kernel      *)
(* recycles it for another file, and the signature goes with the old one.  *)
(***************************************************************************)
EXTENDS Integers, FiniteSets

CONSTANTS
  Versions,   (* Of the kernel: <<version_major, version_minor>>.          *)
  Vnodes,
  Files, Unsigned,
  NULLVP

ASSUME SigningAssumption ==
  /\ Versions \subseteq Nat \X Nat
  /\ Unsigned \subseteq Files /\ Unsigned # Files
  /\ NULLVP \notin Vnodes
  /\ Files \intersect {"none", "unset", "something else"} = {}

VARIABLES
  version, resolved,   (* The kernel, and whether its symbols are found.   *)
  textvp,              (* The vnode of the program the process runs.       *)
  alive,
  file,                (* What each vnode stands for.                      *)
  iocount,             (* The vnode_gets that keep it from being recycled. *)
  checkAt,             (* Where the call is.                               *)
  executable_vnode,
  cs,                  (* The signature: that of a file, in a vnode.       *)
  info,                (* out_codesign_info: whose each field is, if set.  *)
  result

system == <<version, resolved, textvp, alive, file, iocount>>
checkVars == <<system, checkAt, executable_vnode, cs, info, result>>

Unset == [f \in {"signer_type", "flags", "teamid"} |-> "unset"]

CheckInit ==
  /\ version \in Versions /\ resolved \in BOOLEAN
  /\ textvp \in Vnodes /\ alive = TRUE
  /\ file \in [Vnodes -> Files]
  /\ iocount = [v \in Vnodes |-> 0]
  /\ checkAt = "idle" /\ executable_vnode = NULLVP /\ cs = "none"
  /\ info = Unset /\ result = FALSE

-----------------------------------------------------------------------------
(* The process, and the kernel's vnodes                                    *)

Exec ==
  /\ alive
  /\ \E v \in Vnodes \ {textvp} : file[v] # "none" /\ textvp' = v
  /\ UNCHANGED <<version, resolved, alive, file, iocount>>

Exit ==
  /\ alive' = FALSE /\ textvp' = NULLVP
  /\ UNCHANGED <<version, resolved, file, iocount>>

(* "none": the vnode is free, and vnode_get fails.                         *)
Recycle ==
  /\ \E v \in Vnodes \ {textvp} :
       /\ iocount[v] = 0
       /\ file' \in {[file EXCEPT ![v] = f] : f \in (Files \union {"none"}) \ {file[v]}}
  /\ UNCHANGED <<version, resolved, textvp, alive, iocount>>

Environment ==
  /\ Exec \/ Exit \/ Recycle
  /\ UNCHANGED <<checkAt, executable_vnode, cs, info, result>>

-----------------------------------------------------------------------------
(* djt_task_check_security                                                 *)

CheckTrans(from, to) == checkAt = from /\ checkAt' = to

Returns(from, value) ==
  /\ CheckTrans(from, "returned")
  /\ result' = value
  /\ UNCHANGED <<system, executable_vnode, cs, info>>

(* The symbols, and get_bsdtask_info, which returns NULL for a task that   *)
(* has lost its process.                                                   *)
NoProcess == Returns("idle", FALSE) /\ (~resolved \/ ~alive)

GetProcess ==
  /\ CheckTrans("idle", "proc_get_textvp")
  /\ resolved /\ alive
  /\ UNCHANGED <<system, executable_vnode, cs, info, result>>

(* proc_get_textvp: where p_textvp is is known for some kernels.           *)
TextvpKnown(v) == v[1] \in {16, 17, 18} \/ (v[1] = 19 /\ v[2] <= 2)

UnknownKernel == Returns("proc_get_textvp", FALSE) /\ ~TextvpKnown(version)

(* Nothing keeps the proc from being freed and used for another process.   *)
ReadTextvp ==
  /\ CheckTrans("proc_get_textvp", "vnode_get")
  /\ TextvpKnown(version)
  /\ executable_vnode' \in IF alive THEN {textvp} ELSE Vnodes \union {NULLVP}
  /\ UNCHANGED <<system, cs, info, result>>

vnode_get ==
  /\ CheckTrans("vnode_get", "ubc_cs_blob_get")
  /\ executable_vnode # NULLVP /\ file[executable_vnode] # "none"
  /\ iocount' = [iocount EXCEPT ![executable_vnode] = @ + 1]
  /\ UNCHANGED <<version, resolved, textvp, alive, file, executable_vnode, cs, info, result>>

NoVnode ==
  /\ Returns("vnode_get", FALSE)
  /\ executable_vnode = NULLVP \/ file[executable_vnode] = "none"

(* An executable need not be signed: cs is then NULL, and is read from.    *)
ubc_cs_blob_get ==
  /\ checkAt = "ubc_cs_blob_get"
  /\ cs' = file[executable_vnode]
  /\ checkAt' = IF cs' \in Unsigned THEN "fault" ELSE "csblob_get_info"
  /\ UNCHANGED <<system, executable_vnode, info, result>>

-----------------------------------------------------------------------------
(* csblob_get_info: the cases fall through from later kernels to earlier.  *)

(* Mutated form of SignerTypeKnown: the third minor release is not known.  *)
SignerTypeKnownEarlier(v) == v[1] \in {17, 18} \/ (v[1] = 19 /\ v[2] <= 1)

SignerTypeKnown(v) == v[1] \in {17, 18} \/ (v[1] = 19 /\ v[2] <= 2)
FlagsKnown(v) == v[1] = 16 \/ SignerTypeKnown(v)

(* The memory of a signature is something else once its vnode is recycled. *)
Memory == IF file[executable_vnode] = cs THEN cs ELSE "something else"

Copy(field) ==
  /\ info' = [info EXCEPT ![field] = Memory]
  /\ UNCHANGED <<system, executable_vnode, cs, result>>

SwitchOnVersion ==
  /\ checkAt = "csblob_get_info"
  /\ checkAt' = CASE SignerTypeKnown(version) -> "signer_type"
                 [] FlagsKnown(version) /\ ~SignerTypeKnown(version) -> "flags"
                 [] OTHER -> "vnode_put"
  /\ UNCHANGED <<system, executable_vnode, cs, info, result>>

CopySignerType == CheckTrans("signer_type", "flags") /\ Copy("signer_type")
CopyFlags == CheckTrans("flags", "teamid") /\ Copy("flags")
CopyTeamid == CheckTrans("teamid", "vnode_put") /\ Copy("teamid")

(* Mutated form of vnode_put: forgotten.                                   *)
vnode_put_forgotten == Returns("vnode_put", TRUE)

vnode_put ==
  /\ CheckTrans("vnode_put", "returned")
  /\ iocount' = [iocount EXCEPT ![executable_vnode] = @ - 1]
  /\ result' = TRUE
  /\ UNCHANGED <<version, resolved, textvp, alive, file, executable_vnode, cs, info>>

(* The caller uses the information and asks again.                         *)
AskAgain ==
  /\ CheckTrans("returned", "idle")
  /\ executable_vnode' = NULLVP /\ cs' = "none" /\ info' = Unset /\ result' = FALSE
  /\ UNCHANGED system

Check ==
  \/ NoProcess \/ GetProcess
  \/ UnknownKernel \/ ReadTextvp \/ NoVnode \/ vnode_get \/ ubc_cs_blob_get
  \/ SwitchOnVersion \/ CopySignerType \/ CopyFlags \/ CopyTeamid
  \/ vnode_put \/ AskAgain

CheckNext == Check \/ Environment

CheckSpec == CheckInit /\ [][CheckNext]_checkVars

-----------------------------------------------------------------------------
(* All fields of a result are of one file, and of a signed one, whatever   *)
(* becomes of the process and its vnode while they are copied.  Between    *)
(* calls no vnode is kept from being recycled.  (Whether it is the file    *)
(* the process runs is another matter: the vnode may have been recycled    *)
(* between the copy of p_textvp and vnode_get.)                            *)
InfoIsOfOneFile ==
  checkAt = "returned" =>
    /\ \A v \in Vnodes : iocount[v] = 0
    /\ \E f \in Files \ Unsigned : \A field \in DOMAIN info : info[field] \in {"unset", f}

(* The two functions that know kernels know the same ones: a call that     *)
(* returns true has set the flags and the team, and the type of the signer *)
(* from version 17 on; one that returns false has set nothing.             *)
TrueMeansInformed ==
  checkAt = "returned" =>
    {field \in DOMAIN info : info[field] # "unset"} =
      IF result THEN {"flags", "teamid"} \union (IF version[1] >= 17 THEN {"signer_type"} ELSE {})
      ELSE {}
=============================================================================

--------------------------- MODULE PropertyReaders ---------------------------
(***************************************************************************)
(* ioreg_property_util.cpp, whose readers copy the user properties of a    *)
(* registry entry from user space, and DJTRegistryEntryProperties.cpp,     *)
(* whose reader is the kernel's.  The registry entry is published to by    *)
(* its driver, whenever it likes.                                          *)
(***************************************************************************)
EXTENDS Integers

CONSTANTS
  Numbers,        (* What a number property may be...                      *)
  IntRange,       (* ...and how many of them an int can tell apart.        *)
  default_value   (* of the caller.                                        *)

ASSUME NumbersAssumption == Numbers \subseteq Nat /\ IntRange \in Nat \ {0}

(* A property: a number, a boolean, something else, or none; and instead   *)
(* of the dictionary of user properties there may be none or another type. *)
Properties ==
  [type : {"number"}, value : Numbers] \union [type : {"boolean"}, value : {0, 1}]
    \union {[type |-> t, value |-> 0] : t \in {"string", "none", "no dictionary"}}

VARIABLES
  published,   (* The property in the registry.                            *)
  seen,        (* What it has been since the call began.                   *)
  reader,      (* Whose call it is: "int", "boolean" or "kernel".          *)
  readAt,      (* Where the call is.                                       *)
  copy,        (* user_properties, or prop_obj.                            *)
  references,  (* of the copy; without one its memory is something else.   *)
  out_value, success

readVars == <<published, seen, reader, readAt, copy, references, out_value, success>>

Nothing == [type |-> "none", value |-> 0]

ReadInit ==
  /\ published = Nothing /\ seen = {}
  /\ reader = "none" /\ readAt = "idle"
  /\ copy = Nothing /\ references = 0
  /\ out_value = 0 /\ success = FALSE

Publish ==
  /\ published' \in Properties
  /\ seen' = IF readAt = "idle" THEN {} ELSE seen \union {published'}
  /\ UNCHANGED <<reader, readAt, copy, references, out_value, success>>

ReadTrans(from, to) == readAt = from /\ readAt' = to

(* *out_value = default_value; the kernel's reader starts from zero.       *)
BeginRead ==
  /\ ReadTrans("idle", "copying")
  /\ reader' \in {"int", "boolean", "kernel"}
  /\ out_value' = IF reader' = "kernel" THEN 0 ELSE default_value
  /\ success' = FALSE
  /\ seen' = {published}
  /\ UNCHANGED <<published, copy, references>>

(* A copy of the dictionary, or the object itself with a reference.        *)
CopyProperties ==
  /\ readAt = "copying"
  /\ copy' = published
  /\ references' = IF published.type = "none" /\ reader = "kernel" THEN 0 ELSE 1
  /\ readAt' = CASE reader = "kernel" /\ published.type = "none" -> "returned"
                 [] reader # "kernel" /\ published.type = "no dictionary" -> "releasing"
                 [] OTHER -> "reading"
  /\ UNCHANGED <<published, seen, reader, out_value, success>>

(* There is no such dictionary, or it could not be copied.                 *)
NothingToCopy ==
  /\ ReadTrans("copying", "returned")
  /\ reader # "kernel"
  /\ UNCHANGED <<published, seen, reader, copy, references, out_value, success>>

(* The property as it is in memory: anything once nobody refers to it.     *)
InMemory == IF references > 0 THEN {copy} ELSE Properties

TypeOf(r) == IF r = "boolean" THEN "boolean" ELSE "number"

(* CFNumberGetValue stores the nearest thing and says that it is not it.   *)
Converted(value) == IF reader = "int" THEN value % IntRange ELSE value

(* Mutated form of ReadValue: whatever was stored counts.                  *)
ReadValueUnasked ==
  /\ ReadTrans("reading", "releasing")
  /\ \E property \in InMemory :
       /\ property.type = TypeOf(reader)
       /\ out_value' = Converted(property.value)
       /\ success' = TRUE
  /\ UNCHANGED <<published, seen, reader, copy, references>>

ReadValue ==
  /\ ReadTrans("reading", "releasing")
  /\ \E property \in InMemory :
       /\ property.type = TypeOf(reader)
       /\ out_value' = Converted(property.value)
       /\ success' = (out_value' = property.value)
  /\ UNCHANGED <<published, seen, reader, copy, references>>

WrongType ==
  /\ ReadTrans("reading", "releasing")
  /\ \E property \in InMemory : property.type # TypeOf(reader)
  /\ UNCHANGED <<published, seen, reader, copy, references, out_value, success>>

ReleaseCopy ==
  /\ ReadTrans("releasing", "returned")
  /\ references' = references - 1
  /\ UNCHANGED <<published, seen, reader, copy, out_value, success>>

ReadReturns ==
  /\ ReadTrans("returned", "idle")
  /\ reader' = "none" /\ copy' = Nothing
  /\ out_value' = 0 /\ success' = FALSE /\ seen' = {}
  /\ UNCHANGED <<published, references>>

ReadNext ==
  \/ Publish \/ BeginRead \/ CopyProperties \/ NothingToCopy
  \/ ReadValue \/ WrongType \/ ReleaseCopy \/ ReadReturns

ReadSpec == ReadInit /\ [][ReadNext]_readVars

-----------------------------------------------------------------------------
(* A reader that succeeds returns what the property was at some time while *)
(* it ran, with its own type.  One that fails returns the default, or the  *)
(* remains of a number that does not fit into an int.  It leaves no        *)
(* reference behind, and drops none it did not have.                       *)
Initial == IF reader = "kernel" THEN 0 ELSE default_value

Truncated == {p.value % IntRange : p \in {q \in seen : q.type = "number" /\ q.value >= IntRange}}

ReadsWhatWasPublished ==
  readAt = "returned" =>
    /\ references = 0
    /\ IF success
       THEN [type |-> TypeOf(reader), value |-> out_value] \in seen
       ELSE out_value \in {Initial} \union (IF reader = "int" THEN Truncated ELSE {})

-----------------------------------------------------------------------------
(* The inductive invariant: what each statement of a reader can rely on.   *)
Outcome ==
  IF success
  THEN [type |-> TypeOf(reader), value |-> out_value] \in seen
  ELSE out_value \in {Initial} \union (IF reader = "int" THEN Truncated ELSE {})

ReadInv ==
  /\ published \in Properties
  /\ copy \in Properties \union {Nothing}
  /\ reader \in {"none", "int", "boolean", "kernel"}
  /\ readAt \in {"idle", "copying", "reading", "releasing", "returned"}
  /\ success \in BOOLEAN
  /\ references = IF readAt \in {"reading", "releasing"} THEN 1 ELSE 0
  /\ readAt # "idle" => published \in seen
  /\ readAt = "reading" => copy \in seen
  /\ readAt \in {"copying", "reading"} => ~success /\ out_value = Initial
  /\ readAt # "idle" => Outcome
=============================================================================

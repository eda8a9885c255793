------------------------ MODULE DictionaryUtilities ------------------------
(***************************************************************************)
(* osdictionary_util.cpp: the setters, the merge and the contents logger,  *)
(* with the retain counts of the objects they put into dictionaries.       *)
(* Allocations may fail.  A dictionary has room for as many keys as it has *)
(* allocated; only when it is full does setting a new key allocate.        *)
(***************************************************************************)
EXTENDS Integers, FiniteSets, DictionaryEntries

CONSTANTS
  Keys,
  Objects,      (* The heap: numbers and strings, reused when freed.       *)
  Null,
  DataLengths   (* Lengths of OSData values that may be logged.            *)

Booleans == {"kOSBooleanTrue", "kOSBooleanFalse"}   (* Never freed.        *)

ASSUME HeapAssumption ==
  /\ IsFiniteSet(Keys)
  /\ Objects \intersect (Booleans \union {Null}) = {}
  /\ DataLengths \subseteq Nat

(* The two dictionaries of the caller, and the one the merge creates.      *)
Dictionaries == {"dictionary", "into", "created"}

Empty == [k \in {} |-> Null]

VARIABLES
  contents,   (* Of each dictionary: a function from the keys it has.      *)
  capacity,
  count,      (* Retain counts.                                            *)
  dictAt,     (* Where the call is.                                        *)
  key, obj, ok,
  remaining,  (* The keys merge has not copied, or the logger not logged.  *)
  bytes_remain, buffer_remain   (* The logger's.                           *)

heap == <<contents, capacity, count>>
setterVars == <<key, obj, ok>>
logVars == <<bytes_remain, buffer_remain>>
dictVars == <<heap, dictAt, setterVars, remaining, logVars>>

DictInit ==
  /\ contents = [d \in Dictionaries |-> Empty]
  /\ capacity = [d \in Dictionaries |-> 0]
  /\ count = [o \in Objects |-> 0]
  /\ dictAt = "idle"
  /\ key = Null /\ obj = Null /\ ok = FALSE
  /\ remaining = {}
  /\ bytes_remain = 0 /\ buffer_remain = 0

DictTrans(from, to) == dictAt = from /\ dictAt' = to

-----------------------------------------------------------------------------
(* OSDictionary::setObject: retains the value, releases the one it was.    *)

HasRoom(d, k) == k \in DOMAIN contents[d] \/ Cardinality(DOMAIN contents[d]) < capacity[d]

SetObject(d, k, value) ==
  /\ contents' = [contents EXCEPT ![d] = Overlay(Entry(k, value), @)]
  /\ capacity' = [capacity EXCEPT ![d] = IF HasRoom(d, k) THEN @ ELSE @ + 1]
  /\ count' = [o \in Objects |->
       count[o] + (IF o = value THEN 1 ELSE 0)
                - (IF k \in DOMAIN contents[d] /\ contents[d][k] = o THEN 1 ELSE 0)]

(* DJTDictionarySetNumber, DJTDictionarySetString: withNumber, withCString. *)
CreateValue ==
  /\ DictTrans("idle", "setting")
  /\ key' \in Keys
  /\ \/ \E o \in Objects :
          /\ count[o] = 0
          /\ obj' = o
          /\ count' = [count EXCEPT ![o] = 1]
     \/ obj' = Null /\ UNCHANGED count
  /\ UNCHANGED <<contents, capacity, ok, remaining, logVars>>

(* On a null pointer, or without memory for a symbol or for an entry.      *)
SetterFails == ok' = FALSE /\ UNCHANGED heap

SetValue ==
  /\ DictTrans("setting", "releasing")
  /\ \/ obj # Null /\ SetObject("dictionary", key, obj) /\ ok' = TRUE
     \/ SetterFails
  /\ UNCHANGED <<key, obj, remaining, logVars>>

(* Mutated form of ReleaseValue: only when it was set.                     *)
ReleaseValueIfSet ==
  /\ DictTrans("releasing", "set")
  /\ count' = [o \in Objects |-> IF o = obj /\ ok THEN count[o] - 1 ELSE count[o]]
  /\ UNCHANGED <<contents, capacity, setterVars, remaining, logVars>>

(* OSSafeReleaseNULL, and the return.                                      *)
ReleaseValue ==
  /\ DictTrans("releasing", "set")
  /\ count' = [o \in Objects |-> IF o = obj THEN count[o] - 1 ELSE count[o]]
  /\ UNCHANGED <<contents, capacity, setterVars, remaining, logVars>>

(* DJTDictionarySetBoolean; the caller of a setter goes on with either     *)
(* dictionary (the model exchanges the two).                               *)
SetBoolean ==
  /\ DictTrans("idle", "set")
  /\ \E value \in Booleans :
       /\ key' \in Keys
       /\ obj' = value
       /\ \/ SetObject("dictionary", key', value) /\ ok' = TRUE
          \/ SetterFails
  /\ UNCHANGED <<remaining, logVars>>

Exchange(f) == [f EXCEPT !["dictionary"] = f["into"], !["into"] = f["dictionary"]]

SetterReturns ==
  /\ DictTrans("set", "idle")
  /\ \/ UNCHANGED <<contents, capacity>>
     \/ contents' = Exchange(contents) /\ capacity' = Exchange(capacity)
  /\ key' = Null /\ obj' = Null /\ ok' = FALSE
  /\ UNCHANGED <<count, remaining, logVars>>

-----------------------------------------------------------------------------
(* djt_osdictionary_create_merged                                          *)

Occurrences(o, f) == Cardinality({k \in DOMAIN f : f[k] = o})

(* OSDictionary::withDictionary succeeds.                                  *)
CreateCopy(d, room) ==
  /\ contents' = [contents EXCEPT !["created"] = contents[d]]
  /\ capacity' = [capacity EXCEPT !["created"] = room]
  /\ count' = [o \in Objects |-> count[o] + Occurrences(o, contents[d])]

getCount(d) == Cardinality(DOMAIN contents[d])

(* Mutated form of MergedCapacity: room for the copy only.                 *)
CopiedCapacity == getCount("into")

MergedCapacity == getCount("into") + getCount("dictionary")

(* One of the two dictionaries is a null pointer: a copy of the other.     *)
CopyOne ==
  /\ dictAt = "idle"
  /\ \/ \E d \in {"dictionary", "into"} :
          CreateCopy(d, getCount(d)) /\ dictAt' = "copied"
     \/ dictAt' = "noMemory" /\ UNCHANGED heap
  /\ UNCHANGED <<setterVars, remaining, logVars>>

(* The copy is not tested before merge is called on it.                    *)
CopyInto ==
  /\ dictAt = "idle"
  /\ \/ CreateCopy("into", MergedCapacity) /\ dictAt' = "copiedInto"
     \/ dictAt' = "fault" /\ UNCHANGED heap
  /\ UNCHANGED <<setterVars, remaining, logVars>>

(* merge needs an iterator; its result is not used.                        *)
Merge ==
  /\ dictAt = "copiedInto"
  /\ \/ dictAt' = "merging" /\ remaining' = DOMAIN contents["dictionary"]
     \/ dictAt' = "merged" /\ UNCHANGED remaining
  /\ UNCHANGED <<heap, setterVars, logVars>>

(* It stops at the first key it cannot set, for want of room.              *)
MergeKey ==
  /\ dictAt = "merging"
  /\ \E k \in remaining :
       \/ /\ SetObject("created", k, contents["dictionary"][k])
          /\ remaining' = remaining \ {k}
       \/ /\ ~HasRoom("created", k)
          /\ remaining' = {}
          /\ UNCHANGED heap
  /\ UNCHANGED <<dictAt, setterVars, logVars>>

MergeReturns ==
  /\ DictTrans("merging", "merged")
  /\ remaining = {}
  /\ UNCHANGED <<heap, setterVars, remaining, logVars>>

(* The caller is done with what it was given.                              *)
CallerReleases ==
  /\ dictAt \in {"copied", "merged", "noMemory"}
  /\ dictAt' = "idle"
  /\ count' = [o \in Objects |-> count[o] - Occurrences(o, contents["created"])]
  /\ contents' = [contents EXCEPT !["created"] = Empty]
  /\ capacity' = [capacity EXCEPT !["created"] = 0]
  /\ UNCHANGED <<setterVars, remaining, logVars>>

-----------------------------------------------------------------------------
(* log_dictionary_contents                                                 *)

(* The iterator is not tested either.                                      *)
LogContents ==
  /\ dictAt = "idle"
  /\ \/ dictAt' = "logging" /\ remaining' = DOMAIN contents["dictionary"]
     \/ dictAt' = "fault" /\ UNCHANGED remaining
  /\ UNCHANGED <<heap, setterVars, logVars>>

(* A value that is logged in one line, or OSData: rows of sixteen bytes,   *)
(* and a last line put together in a buffer of 100.                        *)
LogEntry ==
  /\ dictAt = "logging"
  /\ \E k \in remaining : remaining' = remaining \ {k}
  /\ \/ UNCHANGED <<dictAt, bytes_remain>>
     \/ dictAt' = "rows" /\ bytes_remain' \in DataLengths
  /\ UNCHANGED <<heap, setterVars, buffer_remain>>

(* Mutated form of FullRow: a last line of sixteen bytes.                  *)
MoreThanARow == bytes_remain > 16

FullRow == bytes_remain >= 16

LogRow ==
  /\ dictAt = "rows" /\ FullRow
  /\ bytes_remain' = bytes_remain - 16
  /\ UNCHANGED <<heap, dictAt, setterVars, remaining, buffer_remain>>

BeginLastLine ==
  /\ DictTrans("rows", "lastLine")
  /\ ~FullRow
  /\ buffer_remain' = 100 - 4
  /\ UNCHANGED <<heap, setterVars, remaining, bytes_remain>>

(* Two digits, a space and, as index stays 0, three spaces.  (A buffer too *)
(* short would make this size_t wrap around.)                              *)
LogByte ==
  /\ dictAt = "lastLine" /\ bytes_remain > 0 /\ buffer_remain > 0
  /\ buffer_remain' = buffer_remain - 6
  /\ bytes_remain' = bytes_remain - 1
  /\ UNCHANGED <<heap, dictAt, setterVars, remaining>>

LogEnd ==
  /\ DictTrans("lastLine", "logged")
  /\ bytes_remain = 0 \/ buffer_remain <= 0
  /\ buffer_remain' = buffer_remain - 2
  /\ UNCHANGED <<heap, setterVars, remaining, bytes_remain>>

LogNextEntry ==
  /\ DictTrans("logged", "logging")
  /\ bytes_remain' = 0 /\ buffer_remain' = 0
  /\ UNCHANGED <<heap, setterVars, remaining>>

LogReturns ==
  /\ DictTrans("logging", "idle")
  /\ remaining = {}
  /\ UNCHANGED <<heap, setterVars, remaining, logVars>>

-----------------------------------------------------------------------------
DictNext ==
  \/ CreateValue \/ SetValue \/ ReleaseValue \/ SetBoolean \/ SetterReturns
  \/ CopyOne \/ CopyInto \/ Merge \/ MergeKey \/ MergeReturns \/ CallerReleases
  \/ LogContents \/ LogEntry \/ LogRow \/ BeginLastLine \/ LogByte \/ LogEnd
  \/ LogNextEntry \/ LogReturns

DictSpec == DictInit /\ [][DictNext]_dictVars

-----------------------------------------------------------------------------
(* The retain count of an object is the number of dictionary entries that  *)
(* hold it, and one for the setter that is using it: nothing leaks and     *)
(* nothing is freed under a dictionary, however many calls were made and   *)
(* whichever allocations failed in them.                                   *)
Holders(o) ==
  Occurrences(o, contents["dictionary"]) + Occurrences(o, contents["into"])
    + Occurrences(o, contents["created"])

CountsAreHolders ==
  \A o \in Objects :
    count[o] = Holders(o) + (IF obj = o /\ dictAt \in {"setting", "releasing"} THEN 1 ELSE 0)

(* The merge is all or nothing, although its result is dropped: the room   *)
(* for all keys was allocated with the copy, so that once it has begun no  *)
(* key can fail.  (It may not begin: "Creates a copy of 'into' and then    *)
(* merges the key/values of 'dictionary' into that copy" is then only half *)
(* true, and the caller cannot tell.)                                      *)
MergedAllOrNothing ==
  dictAt = "merged" =>
    contents["created"] \in {contents["into"], Overlay(contents["dictionary"], contents["into"])}

(* Every byte of a logged value, and the bracket after it with the end of  *)
(* the string, fits into the buffer.                                       *)
LastLineFits == dictAt = "logged" => bytes_remain = 0 /\ buffer_remain >= 1

-----------------------------------------------------------------------------
(* The inductive invariant.                                                *)

Values == Objects \union Booleans
Contents == UNION {[S -> Values] : S \in SUBSET Keys}

HeapTypeOK ==
  /\ contents \in [Dictionaries -> Contents]
  /\ capacity \in [Dictionaries -> Nat]
  /\ count \in [Objects -> Int]

DictTypeOK ==
  /\ HeapTypeOK
  /\ dictAt \in {"idle", "setting", "releasing", "set", "copied", "copiedInto", "merging",
                 "merged", "noMemory", "fault", "logging", "rows", "lastLine", "logged"}
  /\ key \in Keys \union {Null} /\ obj \in Values \union {Null} /\ ok \in BOOLEAN
  /\ remaining \subseteq Keys
  /\ bytes_remain \in Nat /\ buffer_remain \in Int

(* Which objects a call has in hand.                                       *)
InHand ==
  /\ dictAt \in {"setting", "releasing"} => key \in Keys /\ obj \in Objects \union {Null}
  /\ dictAt \notin {"copied", "copiedInto", "merging", "merged"} => contents["created"] = Empty

(* The part of the merge that is done, and the room for the rest.          *)
Copied(S) == [k \in S |-> contents["dictionary"][k]]

MergeGoesOn ==
  /\ dictAt = "copiedInto" => contents["created"] = contents["into"]
  /\ dictAt = "merging" =>
       /\ remaining \subseteq DOMAIN contents["dictionary"]
       /\ contents["created"] =
            Overlay(Copied(DOMAIN contents["dictionary"] \ remaining), contents["into"])
  /\ dictAt \in {"copiedInto", "merging"} => capacity["created"] >= MergedCapacity

(* Each byte to come has six characters left, and the bracket has four.    *)
LastLineHasRoom ==
  dictAt = "lastLine" => bytes_remain <= 15 /\ buffer_remain >= 6 * bytes_remain + 6

DictInv ==
  /\ DictTypeOK
  /\ CountsAreHolders
  /\ InHand
  /\ MergeGoesOn
  /\ MergedAllOrNothing
  /\ LastLineHasRoom
  /\ LastLineFits
=============================================================================

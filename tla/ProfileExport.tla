--------------------------- MODULE ProfileExport ---------------------------
(***************************************************************************)
(* One invocation of dj_profile_iouc_export (profiling.cpp) copying an     *)
(* array of probes to a caller's buffer while calls of dj_profile_sample   *)
(* keep updating one of them, the tracked probe.                           *)
(*                                                                         *)
(* The loads of the tracked probe's fields are a step each.  The other     *)
(* probes are copied the same way; what matters of them here is only that  *)
(* a slot of the buffer is written, so each of them is one step.           *)
(***************************************************************************)
EXTENDS ProfileProbe

CONSTANTS
  NumProbes,    (* The length of the array of probes.                      *)
  Tracked,      (* The index of the tracked probe.                         *)
  ProbeSize,    (* sizeof(dj_profile_probe_t): 64 in the code.             *)
  BufferSizes,  (* The values of structureOutputSize a caller may pass.    *)
  MaxTries      (* The bound on the passes over a probe: 100 in the code.  *)

ASSUME ExportAssumption ==
  /\ NumProbes \in Nat \ {0}
  /\ Tracked \in 0..NumProbes - 1
  /\ ProbeSize \in Nat \ {0}
  /\ BufferSizes \subseteq Nat
  /\ MaxTries \in Nat \ {0}

VARIABLES
  at,             (* The next statement of the export.                     *)
  structureOutputSize,
  scalarOutput,   (* The values written to the caller's scalarOutput.      *)
  export_probes,  (* The slots of the caller's buffer that were written.   *)
  limit,          (* num_probes after the clip to the buffer.              *)
  i, tries,
  probe_copy,     (* The local copy; n1 and n2 are the sample counters.    *)
  sq_read,        (* The halves of sum_sq_ns this pass has loaded.         *)
  (* History: the calls that had returned when this pass began and those   *)
  (* that had started when it ended.                                       *)
  before, after

copyVars == <<probe_copy, sq_read, before, after>>
outputVars == <<structureOutputSize, scalarOutput, export_probes>>
exportVars == <<at, limit, i, tries, outputVars, copyVars>>

OtherProbe == "another_probe"
EmptyCopy == [n1 |-> 0, n2 |-> 0, sum |-> 0, sq_lo |-> 0, sq_hi |-> 0, min |-> 0, max |-> 0]

ExportInit ==
  /\ Init
  /\ at = "call"
  /\ structureOutputSize = 0
  /\ scalarOutput = <<>>
  /\ export_probes = <<>>
  /\ limit = 0
  /\ i = 0
  /\ tries = 0
  /\ probe_copy = EmptyCopy
  /\ sq_read = {}
  /\ before = {}
  /\ after = {}

-----------------------------------------------------------------------------
(* num_probes clipped to the whole probes that fit.                        *)
FitRoundingUp(size) ==  \* mutated form of Fit
  LET fitting == (size + ProbeSize - 1) \div ProbeSize
  IN  IF fitting < NumProbes THEN fitting ELSE NumProbes
Fit(size) ==
  LET fitting == size \div ProbeSize IN IF fitting < NumProbes THEN fitting ELSE NumProbes

(* The check of the arguments: exactly one scalar output, and a buffer     *)
(* wherever a size is given.                                               *)
Refuse ==
  /\ at = "call"
  /\ \E scalarOutputCount \in 0..2, size \in BufferSizes, mapped \in BOOLEAN :
       /\ scalarOutputCount # 1 \/ (size > 0 /\ ~mapped)
       /\ structureOutputSize' = size
  /\ at' = "bad_argument"
  /\ UNCHANGED <<scalarOutput, export_probes, limit, i, tries, copyVars>>

Accept ==
  /\ at = "call"
  /\ structureOutputSize' \in BufferSizes
  /\ scalarOutput' = <<NumProbes>>
  /\ limit' = Fit(structureOutputSize')
  /\ at' = "next_probe"
  /\ UNCHANGED <<export_probes, i, tries, copyVars>>

(* The head of the loop over the probes.                                   *)
FirstPass ==
  /\ at = "next_probe"
  /\ i < limit /\ i = Tracked
  /\ tries' = 0
  /\ probe_copy' = EmptyCopy
  /\ at' = "load_n1"
  /\ UNCHANGED <<outputVars, limit, i, sq_read, before, after>>

StoreAt(copy) ==
  /\ export_probes' = [n \in DOMAIN export_probes \union {i} |->
                         IF n = i THEN copy ELSE export_probes[n]]
  /\ i' = i + 1

ExportOtherProbe ==
  /\ at = "next_probe"
  /\ i < limit /\ i # Tracked
  /\ StoreAt(OtherProbe)
  /\ UNCHANGED <<at, structureOutputSize, scalarOutput, limit, tries, copyVars>>

Return ==
  /\ at = "next_probe"
  /\ i >= limit
  /\ at' = "success"
  /\ UNCHANGED <<outputVars, limit, i, tries, copyVars>>

(* A pass over the tracked probe, one load after the other.                *)
Load(field, value, from, to) ==
  /\ at = from
  /\ at' = to
  /\ probe_copy' = [probe_copy EXCEPT ![field] = value]
  /\ UNCHANGED <<outputVars, limit, i>>

LoadSamples1 ==
  /\ Load("n1", num_samples_1, "load_n1", "load_sum")
  /\ before' = Done
  /\ sq_read' = {}
  /\ UNCHANGED <<tries, after>>

LoadSum ==
  /\ Load("sum", sum_ns, "load_sum", "load_squares")
  /\ UNCHANGED <<tries, sq_read, before, after>>

(* The 128-bit load is two 64-bit loads, in an order of the compiler's.    *)
LoadSquares ==
  /\ \/ /\ "lo" \notin sq_read
        /\ sq_read' = sq_read \union {"lo"}
        /\ Load("sq_lo", sum_sq_ns_lo, "load_squares",
                IF "hi" \in sq_read THEN "load_min" ELSE "load_squares")
     \/ /\ "hi" \notin sq_read
        /\ sq_read' = sq_read \union {"hi"}
        /\ Load("sq_hi", sum_sq_ns_hi, "load_squares",
                IF "lo" \in sq_read THEN "load_min" ELSE "load_squares")
  /\ UNCHANGED <<tries, before, after>>

LoadMin ==
  /\ Load("min", min_ns, "load_min", "load_max")
  /\ UNCHANGED <<tries, sq_read, before, after>>

(* Mutated form of LoadMax: the minimum is copied to both fields. *)
LoadMinAsMax ==
  /\ Load("max", min_ns, "load_max", "load_n2")
  /\ UNCHANGED <<tries, sq_read, before, after>>

LoadMax ==
  /\ Load("max", max_ns, "load_max", "load_n2")
  /\ UNCHANGED <<tries, sq_read, before, after>>

(* Mutated form of LoadSamples2: the pass is not counted. *)
LoadSamples2Uncounted ==
  /\ Load("n2", num_samples_2, "load_n2", "compare")
  /\ after' = Started
  /\ UNCHANGED <<tries, sq_read, before>>

LoadSamples2 ==
  /\ Load("n2", num_samples_2, "load_n2", "compare")
  /\ tries' = tries + 1
  /\ after' = Started
  /\ UNCHANGED <<sq_read, before>>

(* The condition of the do-while loop.                                     *)
AgainWhileTorn == probe_copy.n1 # probe_copy.n2  \* mutated form of Again
Again == probe_copy.n1 # probe_copy.n2 /\ tries < MaxTries

NextPass ==
  /\ at = "compare"
  /\ Again
  /\ at' = "load_n1"
  /\ UNCHANGED <<outputVars, limit, i, tries, copyVars>>

StoreCopy ==
  /\ at = "compare"
  /\ ~Again
  /\ StoreAt(probe_copy)
  /\ at' = "next_probe"
  /\ UNCHANGED <<structureOutputSize, scalarOutput, limit, tries, copyVars>>

Export ==
  \/ Refuse \/ Accept \/ FirstPass \/ ExportOtherProbe \/ Return
  \/ LoadSamples1 \/ LoadSum \/ LoadSquares \/ LoadMin \/ LoadMax \/ LoadSamples2
  \/ NextPass \/ StoreCopy

ExportNext ==
  \/ Next /\ UNCHANGED exportVars
  \/ Export /\ UNCHANGED vars

ExportSpec == ExportInit /\ [][ExportNext]_<<vars, exportVars>>

(* Only the exporting thread is known to run: a thread inside              *)
(* dj_profile_sample may be preempted for as long as the export takes.     *)
FairExportSpec == ExportSpec /\ WF_<<vars, exportVars>>(Export /\ UNCHANGED vars)

-----------------------------------------------------------------------------
Copies == [n1: Nat, n2: Nat, sum: 0..W - 1, sq_lo: 0..W - 1, sq_hi: 0..W - 1,
           min: 0..W - 1, max: 0..W - 1]

ExportTypeOK ==
  /\ TypeOK
  /\ at \in {"call", "bad_argument", "next_probe", "load_n1", "load_sum", "load_squares",
             "load_min", "load_max", "load_n2", "compare", "success"}
  /\ structureOutputSize \in Nat
  /\ scalarOutput \in {<<>>, <<NumProbes>>}
  /\ i \in 0..NumProbes /\ limit \in 0..NumProbes
  /\ tries \in 0..MaxTries
  /\ probe_copy \in Copies
  /\ sq_read \subseteq {"lo", "hi"}
  /\ before \subseteq Calls /\ after \subseteq Calls

(* The tracked probe's slot has been written.                              *)
Exported == Tracked \in DOMAIN export_probes

(* What an exported copy says.                                             *)
CopiedStats(copy) ==
  [sum |-> copy.sum, sum_sq |-> copy.sq_hi * W + copy.sq_lo, min |-> copy.min,
   max |-> copy.max]

(***************************************************************************)
(* The export writes the slots in order, one per probe that fits, and      *)
(* never past the buffer; it reports the length of the whole array, so     *)
(* that a caller who got less knows; and a refused call writes nothing.    *)
(***************************************************************************)
WritesWhatFits ==
  /\ \E k \in 0..NumProbes : DOMAIN export_probes = 0..k - 1 /\ k * ProbeSize <= structureOutputSize
  /\ at = "success" =>
       /\ scalarOutput = <<NumProbes>>
       /\ \/ DOMAIN export_probes = 0..NumProbes - 1
          \/ (Cardinality(DOMAIN export_probes) + 1) * ProbeSize > structureOutputSize
  /\ at = "bad_argument" => scalarOutput = <<>> /\ export_probes = <<>>

(***************************************************************************)
(* A pass during which no call was inside dj_profile_sample copies the     *)
(* exact statistics, in whichever order the fields were loaded, and is     *)
(* accepted.                                                               *)
(***************************************************************************)
QuietPassIsExact ==
  Exported /\ before = after =>
    LET copy == export_probes[Tracked] IN
      /\ copy.n1 = Cardinality(before) /\ copy.n2 = copy.n1
      /\ ExactFor(CopiedStats(copy), before, delta)

(***************************************************************************)
(* Whatever races with the export, and even when it gives up, the counters *)
(* and the extremes it copies lie between those of the calls that had      *)
(* returned before the pass and those of the calls that had started when   *)
(* it ended; and so does the sum while it has not wrapped.                 *)
(***************************************************************************)
CopyIsBracketed ==
  Exported =>
    LET copy == export_probes[Tracked] IN
      /\ {copy.n1, copy.n2} \subseteq Cardinality(before)..Cardinality(after)
      /\ \A c \in before : copy.min <= delta[c] /\ copy.max >= delta[c]
      /\ copy.min = UINT64_MAX \/ \E c \in after : copy.min = delta[c]
      /\ copy.max = 0 \/ \E c \in after : copy.max = delta[c]
      /\ SumOver(after, delta) < W =>
           copy.sum \in SumOver(before, delta)..SumOver(after, delta)

(***************************************************************************)
(* The export returns although no call inside dj_profile_sample is known   *)
(* to make progress: the bound on the passes sees to it.                   *)
(***************************************************************************)
ExportReturns == at # "call" ~> at \in {"bad_argument", "success"}

(***************************************************************************)
(* "Makes an attempt at getting a consistent snapshot of each probe"       *)
(* (profiling.h:83): a copy that passes the comparison of the two counters *)
(* is the statistics of as many calls as it says it covers.                *)
(***************************************************************************)
AcceptedCopyConsistent ==
  Exported =>
    LET copy == export_probes[Tracked] IN
      copy.n1 = copy.n2 =>
        \E S \in SUBSET after :
          Cardinality(S) = copy.n1 /\ ExactFor(CopiedStats(copy), S, delta)

-----------------------------------------------------------------------------
(* The inductive invariant.  A pass over the tracked probe is under way    *)
(* at PassPoints; the operators after it say which fields it has loaded    *)
(* (all of them, once the copy is compared or stored).                     *)
PassPoints == {"load_sum", "load_squares", "load_min", "load_max", "load_n2"}

HasSamples2 == at = "compare" \/ Exported
HasMax == at = "load_n2" \/ HasSamples2
HasMin == at = "load_max" \/ HasMax
HasSquares == at = "load_min" \/ HasMin
HasHalf(half) == (at = "load_squares" /\ half \in sq_read) \/ HasSquares
HasSum == at = "load_squares" \/ HasSquares
HasSamples1 == at = "load_sum" \/ HasSum

(* The calls that had started by the end of the pass, or by now.           *)
StartedInPass == IF at \in PassPoints THEN Started ELSE after

(* Slots are written in order, up to the limit.                            *)
SlotsInOrder ==
  /\ at \in {"call", "bad_argument"} =>
       i = 0 /\ limit = 0 /\ scalarOutput = <<>> /\ export_probes = <<>>
  /\ at \notin {"call", "bad_argument"} =>
       limit = Fit(structureOutputSize) /\ scalarOutput = <<NumProbes>>
  /\ DOMAIN export_probes = 0..i - 1 /\ i <= limit
  /\ at = "success" => i = limit
  /\ at \in PassPoints \union {"load_n1", "compare"} => i = Tracked /\ i < limit
  /\ at \in PassPoints \union {"load_n1"} => tries < MaxTries
  /\ Exported => export_probes[Tracked] = probe_copy
  /\ at = "load_sum" => sq_read = {}
  /\ at = "load_squares" => sq_read # {"lo", "hi"}

CallsOfPass ==
  /\ before \subseteq Done /\ after \subseteq Started
  /\ HasSamples2 => before \subseteq after

(* Each field that is loaded is bracketed.                                 *)
CountsBracketed ==
  /\ HasSamples1 => probe_copy.n1 \in Cardinality(before)..Cardinality(StartedInPass)
  /\ HasSamples2 => probe_copy.n2 \in Cardinality(before)..Cardinality(StartedInPass)

ExtremesBracketed ==
  /\ HasMin =>
       /\ \A c \in before : probe_copy.min <= delta[c]
       /\ probe_copy.min = UINT64_MAX \/ \E c \in StartedInPass : probe_copy.min = delta[c]
  /\ HasMax =>
       /\ \A c \in before : probe_copy.max >= delta[c]
       /\ probe_copy.max = 0 \/ \E c \in StartedInPass : probe_copy.max = delta[c]

SumBracketed ==
  HasSum /\ SumOver(StartedInPass, delta) < W =>
    probe_copy.sum \in SumOver(before, delta)..SumOver(StartedInPass, delta)

(* While no call has entered, what was loaded is still there.              *)
QuietSoFar ==
  at \in PassPoints /\ Started = before =>
    /\ HasSamples1 => probe_copy.n1 = num_samples_1
    /\ HasSum => probe_copy.sum = sum_ns
    /\ HasHalf("lo") => probe_copy.sq_lo = sum_sq_ns_lo
    /\ HasHalf("hi") => probe_copy.sq_hi = sum_sq_ns_hi
    /\ HasMin => probe_copy.min = min_ns
    /\ HasMax => probe_copy.max = max_ns

QuietCopy ==
  HasSamples2 /\ before = after =>
    /\ probe_copy.n1 = Cardinality(before) /\ probe_copy.n2 = probe_copy.n1
    /\ ExactFor(CopiedStats(probe_copy), before, delta)

ExportInv ==
  /\ IInv
  /\ ExportTypeOK
  /\ SlotsInOrder
  /\ CallsOfPass
  /\ CountsBracketed
  /\ ExtremesBracketed
  /\ SumBracketed
  /\ QuietSoFar
  /\ QuietCopy
=============================================================================

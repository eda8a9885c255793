---------------------------- MODULE ProbePromise ----------------------------
(***************************************************************************)
(* What a profiling probe promises, without saying how it is updated.      *)
(*                                                                         *)
(* Calls come and go; between the first call that enters an idle probe and *)
(* the last one that leaves it the statistics may hold anything, except    *)
(* that the minimum never rises and the maximum never falls.  When the     *)
(* last call leaves, the statistics are exactly those of the calls         *)
(* recorded so far, and an idle probe does not change.                     *)
(***************************************************************************)
EXTENDS SampleStatistics

CONSTANT
  Calls   (* The calls of dj_profile_sample made on the probe.             *)

VARIABLES
  recording,  (* The calls in progress.                                    *)
  recorded,   (* The calls that have returned.                             *)
  duration,   (* The duration each call was given.                         *)
  stats       (* The statistics the probe shows.                           *)

promiseVars == <<recording, recorded, duration, stats>>

PromiseInit ==
  /\ recording = {}
  /\ recorded = {}
  /\ duration = [c \in Calls |-> 0]
  /\ stats = [sum |-> 0, sum_sq |-> 0, min |-> UINT64_MAX, max |-> 0]

Begin(c) ==
  /\ c \notin recording \union recorded
  /\ recording' = recording \union {c}
  /\ \E d \in 0..W - 1 : duration' = [duration EXCEPT ![c] = d]
  /\ UNCHANGED <<recorded, stats>>

Update ==
  /\ recording # {}
  /\ stats' \in Statistics
  /\ stats'.min <= stats.min
  /\ stats'.max >= stats.max
  /\ UNCHANGED <<recording, recorded, duration>>

End(c) ==
  /\ c \in recording
  /\ recording = {c} => ExactFor(stats, recorded \union {c}, duration)
  /\ recording' = recording \ {c}
  /\ recorded' = recorded \union {c}
  /\ UNCHANGED <<duration, stats>>

PromiseNext ==
  \/ \E c \in Calls : Begin(c) \/ End(c)
  \/ Update

PromiseSpec == PromiseInit /\ [][PromiseNext]_promiseVars
=============================================================================

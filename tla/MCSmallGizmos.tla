---------------------------- MODULE MCSmallGizmos ----------------------------
(* Model-checking instance of the gizmos that have no more state than one  *)
(* call of theirs and the objects it uses.  They do not call each other    *)
(* and share nothing: in a behaviour one of them runs.                     *)
EXTENDS DictionaryUtilities, PropertyReaders, ExternalMethodQueue, RetainTracing,
        MatchingDictionaries

VARIABLE gizmo

GizmoInit ==
  /\ DictInit /\ ReadInit /\ QueueInit /\ TraceInit /\ MatchInit
  /\ gizmo \in {"osdictionary_util", "property readers", "dext_external_method_queue",
                "osobject_retaincount", "matching dictionaries"}

GizmoNext ==
  /\ UNCHANGED gizmo
  /\ \/ /\ gizmo = "osdictionary_util" /\ DictNext
        /\ UNCHANGED <<readVars, queueVars, traceVars, matchVars>>
     \/ /\ gizmo = "property readers" /\ ReadNext
        /\ UNCHANGED <<dictVars, queueVars, traceVars, matchVars>>
     \/ /\ gizmo = "dext_external_method_queue" /\ QueueNext
        /\ UNCHANGED <<dictVars, readVars, traceVars, matchVars>>
     \/ /\ gizmo = "osobject_retaincount" /\ TraceNext
        /\ UNCHANGED <<dictVars, readVars, queueVars, matchVars>>
     \/ /\ gizmo = "matching dictionaries" /\ MatchNext
        /\ UNCHANGED <<dictVars, readVars, queueVars, traceVars>>

GizmoSpec ==
  GizmoInit /\ [][GizmoNext]_<<gizmo, dictVars, readVars, queueVars, traceVars, matchVars>>
=============================================================================

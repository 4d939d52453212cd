---------------------------- MODULE PhaseMachine ----------------------------
(***************************************************************************)
(* The abstract specification of one environment: an object that moves     *)
(* along the phase graph.                                                  *)
(***************************************************************************)
EXTENDS PhaseGraph

VARIABLE object

Init == object = NewObject

Next == \/ Reconciled(object, object')
        \/ Granted(object, object')
        \/ Saved(object, object')
        \/ Deleted(object, object')

Spec == Init /\ [][Next]_object
=============================================================================

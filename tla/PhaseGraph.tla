----------------------------- MODULE PhaseGraph -----------------------------
(***************************************************************************)
(* What the rest of the operator may rely on about one environment: which  *)
(* phase may follow which, and how its slot follows its phase.  An object  *)
(* here is the part of a SandboxEnvironment that the slot scheduler and    *)
(* the archive care about; how a pass comes to its decision is Lifecycle's *)
(* business.                                                               *)
(***************************************************************************)
EXTENDS Lifecycle

\* saved: the environment has a snapshot.
Objects == [phase : StatusPhases, granted : BOOLEAN, finished : BOOLEAN,
            saved : BOOLEAN, deleting : BOOLEAN]
NewObject == [phase |-> "", granted |-> FALSE, finished |-> FALSE,
              saved |-> FALSE, deleting |-> FALSE]

ActivePhases == {"Restoring", "Running"}

(* The phases one status write may lead to.  A freeze ends with a          *)
(* snapshot; a finished run only goes round the archive detour, and only   *)
(* when there is no snapshot yet.                                          *)
Successors(o) ==
  (CASE o.phase \in {"", "Pending"} -> {"Pending", "Ready", "Failed"}
     [] o.phase = "Ready"     -> {"Ready", "Restoring", "Failed"}
     [] o.phase = "Restoring" -> {"Ready", "Restoring", "Running", "Done", "Failed"}
     [] o.phase = "Running"   -> {"Running", "Freezing", "Done", "Failed"}
     [] o.phase = "Freezing"  -> {"Freezing"} \cup
                                 (IF o.saved THEN {"Waiting"} ELSE {}) \cup
                                 (IF o.finished THEN {} ELSE {"Failed"})
     [] o.phase = "Waiting"   -> IF o.finished THEN {"Done", "Failed"}
                                               ELSE {"Waiting", "Ready", "Failed"}
     [] o.phase \in TerminalPhases -> {o.phase} \cup
                                 (IF o.saved THEN {} ELSE {"Freezing"}))
  \cup (IF o.deleting /\ ~o.saved THEN {"Freezing"} ELSE {})

(* How the slot goes with the phase a write leaves.                        *)
SlotFits(o) ==
  /\ o.phase \in ActivePhases => o.granted
  /\ o.phase = "Freezing" => o.granted \/ o.finished \/ o.deleting
  /\ o.phase \in {"Pending", "Waiting"} \cup TerminalPhases => ~o.granted

(* A status write of the reconciler: it moves along the graph, never       *)
(* grants a slot, never takes back that the run is finished, and only ends *)
(* a run by finishing it.                                                  *)
Reconciled(o, n) ==
  /\ n.phase \in Successors(o)
  /\ n.granted => o.granted
  /\ o.finished => n.finished
  /\ n.phase \in TerminalPhases => n.finished
  /\ n.finished /\ ~o.finished => n.phase \in TerminalPhases
  /\ n.deleting = o.deleting /\ n.saved = o.saved
  /\ SlotFits(n)

NextObjects(o) ==
  {n \in [phase : Successors(o), granted : BOOLEAN, finished : BOOLEAN,
          saved : {o.saved}, deleting : {o.deleting}] : Reconciled(o, n)}

(* Granting is the scheduler's, and only for an environment that is Ready. *)
Granted(o, n) ==
  /\ o.phase = "Ready" /\ ~o.granted /\ ~o.deleting
  /\ n = [o EXCEPT !.granted = TRUE]

(* A snapshot is recorded, by whichever process took it.                   *)
Saved(o, n) == n = [o EXCEPT !.saved = TRUE]

Deleted(o, n) == ~o.deleting /\ n = [o EXCEPT !.deleting = TRUE]
=============================================================================

----------------------------- MODULE Lifecycle -----------------------------
(***************************************************************************)
(* The pure state machine of a SandboxEnvironment: what one reconcile pass *)
(* decides (lifecycle.Next) and how the decision is projected onto the     *)
(* object's status (lifecycle.Apply).  There are no variables here: an     *)
(* environment is a record e, what the observers saw is a record f, and a  *)
(* decision is a record d.                                                 *)
(*                                                                         *)
(* The order of the tests is the order of the code; the conditions,        *)
(* messages and timestamps a decision also carries are left out (a set-    *)
(* once timestamp is the fact that it is set).                             *)
(***************************************************************************)
EXTENDS Integers

Phases == {"Pending", "Ready", "Restoring", "Running", "Freezing", "Waiting",
           "Done", "Failed"}
TerminalPhases == {"Done", "Failed"}

\* status.phase is "" until the first status write.
StatusPhases == Phases \cup {""}

\* The sequence number of a snapshot that does not exist.
NoSeq == -1
Seqs  == Nat \cup {NoSeq}

\* status.snapshotAttempt: the latest try and how it ended.
AttemptPhases == {"None", "InProgress", "Succeeded", "Failed"}

Actions  == {"EnsureResources", "EnsurePod", "FreezePod", "DeletePod", "Archive"}
PodPhases == {"", "Pending", "Running", "Succeeded", "Failed"}
Results  == {"None", "Succeeded", "Failed"}
ProbeOutcomes == {"NotObserved", "Pending", "Satisfied", "Failed"}

(***************************************************************************)
(* The environment as stored in the API server: the part of spec and       *)
(* status that the decision reads or writes.                               *)
(***************************************************************************)
Envs ==
  [phase        : StatusPhases,
   generation   : Nat,
   suspend      : BOOLEAN,
   granted      : BOOLEAN,        \* status.slot.granted
   waitFor      : BOOLEAN,        \* status.waitFor is set
   result       : Results,        \* status.agentResult.outcome
   snapshot     : Seqs,           \* status.snapshot.seq
   attemptSeq   : Seqs,           \* status.snapshotAttempt.seq
   attempt      : AttemptPhases,  \* status.snapshotAttempt.phase
   freezeCount  : Nat,
   wakeCount    : Nat,
   finished     : BOOLEAN,        \* status.finishedAt is set
   terminalPhase: TerminalPhases \cup {""},
   archived     : BOOLEAN,        \* status.archive is set
   finalizer    : BOOLEAN,        \* carries the archive-on-delete finalizer
   deleting     : BOOLEAN]        \* metadata.deletionTimestamp is set

Facts ==
  [classResolved : BOOLEAN, resourcesReady : BOOLEAN,
   podObserved   : BOOLEAN, podExists      : BOOLEAN,
   podPhase      : PodPhases, podReady     : BOOLEAN,
   podFailure    : BOOLEAN, probe : ProbeOutcomes,
   timeoutDue    : BOOLEAN]       \* one of the class's timeouts has elapsed

Decisions ==
  [phase : Phases, slotWanted : BOOLEAN, actions : SUBSET Actions,
   setFinishedAt : BOOLEAN, setTerminalPhase : TerminalPhases \cup {""},
   incFreezeCount : BOOLEAN, incWakeCount : BOOLEAN, clearWaitFor : BOOLEAN]

NewEnvironment ==
  [phase |-> "", generation |-> 1, suspend |-> FALSE, granted |-> FALSE,
   waitFor |-> FALSE, result |-> "None", snapshot |-> NoSeq,
   attemptSeq |-> NoSeq, attempt |-> "None", freezeCount |-> 0, wakeCount |-> 0,
   finished |-> FALSE, terminalPhase |-> "", archived |-> FALSE,
   finalizer |-> FALSE, deleting |-> FALSE]

-----------------------------------------------------------------------------
(* Mutated forms, here and below, change a definition the way a plausible  *)
(* mistake in the code would; TLC must notice each of them.                *)

\* Mutant: any snapshot will do, an older freeze's too.
AnySnapshotComplete(e) == e.snapshot # NoSeq

(* What the status says about the snapshot of the freeze in flight.        *)
SnapshotComplete(e) == e.snapshot # NoSeq /\ e.snapshot >= e.freezeCount
SnapshotFailure(e)  == e.attempt = "Failed" /\ e.attemptSeq >= e.freezeCount

(* A running pod whose agent home no snapshot has captured.                *)
PodAliveForArchive(e, f) ==
  f.podObserved /\ f.podExists /\ f.podPhase = "Running" /\ e.snapshot = NoSeq

-----------------------------------------------------------------------------
(* A decision with nothing to patch; the steps below add to it.            *)
Decide(phase, slot, acts) ==
  [phase |-> phase, slotWanted |-> slot, actions |-> acts,
   setFinishedAt |-> FALSE, setTerminalPhase |-> "",
   incFreezeCount |-> FALSE, incWakeCount |-> FALSE, clearWaitFor |-> FALSE]

\* Mutant: only a successful run is archived.
terminalDoneOnly(e, f) ==
  [Decide(e.phase, FALSE, IF e.phase # "Done" THEN {}
                          ELSE IF e.archived THEN {"DeletePod"} ELSE {"Archive"})
     EXCEPT !.setFinishedAt = TRUE, !.setTerminalPhase = e.phase]

(* An environment already Done or Failed: archive it, by way of a freeze   *)
(* when its pod still holds context no snapshot has; delete the pod of a   *)
(* Done environment once the archive is written.                           *)
terminal(e, f) ==
  LET settle(phase, slot, acts) ==
        [Decide(phase, slot, acts) EXCEPT !.setFinishedAt = TRUE,
                                          !.setTerminalPhase = e.phase]
  IN IF ~e.archived
     THEN IF PodAliveForArchive(e, f)
          THEN settle("Freezing", TRUE, {"FreezePod"})
          ELSE settle(e.phase, FALSE, {"Archive"})
     ELSE settle(e.phase, FALSE, IF e.phase = "Done" THEN {"DeletePod"} ELSE {})

(* The first of the agent's own report and the pod's fate, "" for neither. *)
ObservedOutcome(e, f) ==
  IF e.result = "Failed" THEN "Failed"
  ELSE IF e.result = "Succeeded" THEN "Done"
  ELSE IF f.podObserved /\ (f.podFailure \/ f.podPhase = "Failed") THEN "Failed"
  ELSE IF f.podObserved /\ f.podPhase = "Succeeded" THEN "Done"
  ELSE ""

agentOrPodTerminal(e, f) ==
  LET outcome == ObservedOutcome(e, f)
  IN [Decide(outcome, FALSE,
             IF outcome = "Done" /\ e.archived THEN {"DeletePod"} ELSE {})
        EXCEPT !.setFinishedAt = TRUE, !.setTerminalPhase = outcome,
               !.incWakeCount = e.phase = "Restoring" /\ e.snapshot # NoSeq]

timeoutFired == [Decide("Failed", FALSE, {}) EXCEPT !.setFinishedAt = TRUE]

(* The class cannot be read: keep the phase and mirror the slot as read.   *)
hold(e, phase) == Decide(phase, e.granted, {})

nextPending(f) ==
  IF f.resourcesReady THEN Decide("Ready", FALSE, {})
                      ELSE Decide("Pending", FALSE, {"EnsureResources"})

nextReady(e) ==
  IF e.suspend      THEN Decide("Ready", FALSE, {})
  ELSE IF e.granted THEN Decide("Restoring", TRUE, {"EnsurePod"})
  ELSE                   Decide("Ready", TRUE, {})

nextRestoring(e, f) ==
  IF e.suspend         THEN Decide("Ready", FALSE, {"DeletePod"})
  ELSE IF ~e.granted   THEN Decide("Ready", TRUE, {"DeletePod"})
  ELSE IF f.podObserved /\ f.podPhase = "Running" /\ f.podReady
  THEN [Decide("Running", TRUE, {}) EXCEPT !.incWakeCount = e.snapshot # NoSeq]
  ELSE Decide("Restoring", TRUE, {"EnsurePod"})

nextRunning(e) ==
  IF e.waitFor \/ e.suspend THEN Decide("Freezing", TRUE, {"FreezePod"})
                            ELSE Decide("Running", TRUE, {})

\* Mutant: waits for the pod to go without deleting it.
nextFreezingNoDelete(e, f) ==
  IF SnapshotFailure(e)        THEN Decide("Freezing", TRUE, {})
  ELSE IF ~SnapshotComplete(e) THEN Decide("Freezing", TRUE, {"FreezePod"})
  ELSE IF f.podExists          THEN Decide("Freezing", TRUE, {})
  ELSE [Decide("Waiting", FALSE, {}) EXCEPT !.incFreezeCount = TRUE]

nextFreezing(e, f) ==
  IF SnapshotFailure(e)        THEN Decide("Freezing", TRUE, {})
  ELSE IF ~SnapshotComplete(e) THEN Decide("Freezing", TRUE, {"FreezePod"})
  ELSE IF f.podExists          THEN Decide("Freezing", TRUE, {"DeletePod"})
  ELSE [Decide("Waiting", FALSE, {}) EXCEPT !.incFreezeCount = TRUE]

\* Mutant: the detour forgets that the run had failed.
nextWaitingAlwaysDone(e, f) ==
  IF e.finished           THEN Decide("Done", FALSE, {})
  ELSE IF f.probe = "Failed"
  THEN [Decide("Failed", FALSE, {}) EXCEPT !.setFinishedAt = TRUE]
  ELSE IF e.suspend \/ (e.waitFor /\ f.probe # "Satisfied")
  THEN Decide("Waiting", FALSE, {})
  ELSE [Decide("Ready", TRUE, {}) EXCEPT !.clearWaitFor = e.waitFor]

\* Mutant: a finished run in the detour is woken like any other.
nextWaitingWakesFinished(e, f) ==
  IF f.probe = "Failed"
  THEN [Decide("Failed", FALSE, {}) EXCEPT !.setFinishedAt = TRUE]
  ELSE IF e.suspend \/ (e.waitFor /\ f.probe # "Satisfied")
  THEN Decide("Waiting", FALSE, {})
  ELSE [Decide("Ready", TRUE, {}) EXCEPT !.clearWaitFor = e.waitFor]

nextWaiting(e, f) ==
  IF e.finished
  THEN Decide(IF e.terminalPhase = "Failed" THEN "Failed" ELSE "Done", FALSE, {})
  ELSE IF f.probe = "Failed"
  THEN [Decide("Failed", FALSE, {}) EXCEPT !.setFinishedAt = TRUE]
  ELSE IF e.suspend  THEN Decide("Waiting", FALSE, {})
  ELSE IF ~e.waitFor THEN Decide("Ready", TRUE, {})
  ELSE IF f.probe = "Satisfied"
  THEN [Decide("Ready", TRUE, {}) EXCEPT !.clearWaitFor = TRUE]
  ELSE Decide("Waiting", FALSE, {})

dispatchPhase(e, f, phase) ==
  CASE phase = "Pending"   -> nextPending(f)
    [] phase = "Ready"     -> nextReady(e)
    [] phase = "Restoring" -> nextRestoring(e, f)
    [] phase = "Running"   -> nextRunning(e)
    [] phase = "Freezing"  -> nextFreezing(e, f)
    [] phase = "Waiting"   -> nextWaiting(e, f)

\* Mutant: a finished run in the detour can still time out.
decideTimesOutFinished(e, f, phase) ==
  IF phase \in TerminalPhases THEN terminal(e, f)
  ELSE IF phase \in {"Restoring", "Running"} /\ ObservedOutcome(e, f) # ""
  THEN agentOrPodTerminal(e, f)
  ELSE IF f.timeoutDue     THEN timeoutFired
  ELSE IF ~f.classResolved THEN hold(e, phase)
  ELSE dispatchPhase(e, f, phase)

decide(e, f, phase) ==
  IF phase \in TerminalPhases THEN terminal(e, f)
  ELSE IF phase \in {"Restoring", "Running"} /\ ObservedOutcome(e, f) # ""
  THEN agentOrPodTerminal(e, f)
  ELSE IF e.finished       THEN dispatchPhase(e, f, phase)
  ELSE IF f.timeoutDue     THEN timeoutFired
  ELSE IF ~f.classResolved THEN hold(e, phase)
  ELSE dispatchPhase(e, f, phase)

(* Child objects are re-applied on every pass that is not terminal.        *)
withEnsureResources(d, f) ==
  IF d.phase \notin TerminalPhases /\ f.classResolved
  THEN [d EXCEPT !.actions = @ \cup {"EnsureResources"}]
  ELSE d

\* Mutant: a pass that stays Pending writes back the empty phase it read.
NextDecisionKeepsEmpty(e, f) ==
  LET d == decide(e, f, IF e.phase = "" THEN "Pending" ELSE e.phase)
  IN withEnsureResources(IF e.phase = "" /\ d.phase = "Pending"
                         THEN [d EXCEPT !.phase = e.phase] ELSE d, f)

NextDecision(e, f) ==
  withEnsureResources(decide(e, f, IF e.phase = "" THEN "Pending" ELSE e.phase), f)

-----------------------------------------------------------------------------
\* Mutant: the slot is never released.
ApplyKeepsSlot(e, d) ==
  [e EXCEPT
     !.phase         = d.phase,
     !.finished      = @ \/ d.setFinishedAt,
     !.terminalPhase = IF @ = "" THEN d.setTerminalPhase ELSE @,
     !.freezeCount   = IF d.incFreezeCount THEN @ + 1 ELSE @,
     !.wakeCount     = IF d.incWakeCount THEN @ + 1 ELSE @,
     !.waitFor       = @ /\ ~d.clearWaitFor]

\* Mutant: the slot is whatever the decision wants.
ApplyTakesSlot(e, d) == [ApplyKeepsSlot(e, d) EXCEPT !.granted = d.slotWanted]

(* The decision projected onto the (freshly read) environment.  A slot is  *)
(* only ever released here; granting is the scheduler's.                   *)
Apply(e, d) ==
  [e EXCEPT
     !.phase         = d.phase,
     !.finished      = @ \/ d.setFinishedAt,
     !.terminalPhase = IF @ = "" THEN d.setTerminalPhase ELSE @,
     !.freezeCount   = IF d.incFreezeCount THEN @ + 1 ELSE @,
     !.wakeCount     = IF d.incWakeCount THEN @ + 1 ELSE @,
     !.waitFor       = @ /\ ~d.clearWaitFor,
     !.granted       = @ /\ d.slotWanted]
=============================================================================

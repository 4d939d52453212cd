---------------------- MODULE SandboxEnvironmentProofs ----------------------
(***************************************************************************)
(* For any scenarios (events, and bounds on edits, freezes and faults) and *)
(* backend: the state of an environment and of the processes around it is  *)
(* well typed, and the slot follows the phase.                             *)
(***************************************************************************)
EXTENDS SandboxEnvironment, TLAPS

Active == {"Restoring", "Running"}
Slotless == {"Pending", "Waiting", "Done", "Failed"}

(* The slot rule of an environment.                                        *)
SlotRule(e) ==
  /\ e.phase \in Active => e.granted
  /\ e.phase = "Freezing" => e.granted \/ e.finished \/ e.deleting
  /\ e.phase \in Slotless \cup {""} => ~e.granted

(* A decision for e that keeps the rule when it is applied.                *)
Fitting(e, d) ==
  /\ d.phase \in Slotless => ~d.slotWanted
  /\ d.phase \in Active => d.slotWanted /\ (e.phase \in Active \/ e.granted)
  /\ d.phase = "Freezing" =>
       \/ d.setFinishedAt
       \/ e.phase = "Running" /\ d.slotWanted
       \/ e.phase = "Freezing" /\ (d.slotWanted \/ e.finished \/ e.deleting)

-----------------------------------------------------------------------------
(* lifecycle.Next.                                                         *)

(* next.go terminal: a finished run asks for no slot but in the detour.    *)
LEMMA TerminalDecision ==
  ASSUME NEW e \in Envs, NEW f \in Facts, e.phase \in TerminalPhases
  PROVE  terminal(e, f) \in Decisions /\ Fitting(e, terminal(e, f))
BY DEF terminal, Decide, Decisions, Actions, Fitting, Active, Slotless,
       TerminalPhases, Phases, Envs

(* next.go agentOrPodTerminal: an outcome gives the slot up.               *)
LEMMA OutcomeDecision ==
  ASSUME NEW e \in Envs, NEW f \in Facts, ObservedOutcome(e, f) # ""
  PROVE  /\ agentOrPodTerminal(e, f) \in Decisions
         /\ Fitting(e, agentOrPodTerminal(e, f))
<1>1. ObservedOutcome(e, f) \in TerminalPhases
  BY DEF ObservedOutcome, TerminalPhases
<1> QED
  BY <1>1 DEF agentOrPodTerminal, Decide, Decisions, Actions, Fitting, Active,
              Slotless, TerminalPhases, Phases

(* next.go timeoutFired: a timeout gives the slot up.                      *)
LEMMA TimeoutDecision ==
  ASSUME NEW e \in Envs
  PROVE  timeoutFired \in Decisions /\ Fitting(e, timeoutFired)
BY DEF timeoutFired, Decide, Decisions, Actions, Fitting, Active, Slotless,
       TerminalPhases, Phases

(* next.go hold: mirroring the slot as read keeps the rule.                *)
LEMMA HoldDecision ==
  ASSUME NEW e \in Envs, SlotRule(e), NEW phase \in Phases,
         e.phase = phase \/ (e.phase = "" /\ phase = "Pending")
  PROVE  hold(e, phase) \in Decisions /\ Fitting(e, hold(e, phase))
BY DEF hold, Decide, Decisions, Actions, Fitting, SlotRule, Active, Slotless,
       TerminalPhases, Phases, Envs

(* The step of each phase.                                                 *)
LEMMA PendingDecision ==
  ASSUME NEW e \in Envs, NEW f \in Facts
  PROVE  nextPending(f) \in Decisions /\ Fitting(e, nextPending(f))
BY DEF nextPending, Decide, Decisions, Actions, Fitting, Active, Slotless,
       TerminalPhases, Phases

(* nextReady only leaves for Restoring with a grant it has read.           *)
LEMMA ReadyDecision ==
  ASSUME NEW e \in Envs
  PROVE  nextReady(e) \in Decisions /\ Fitting(e, nextReady(e))
BY DEF nextReady, Decide, Decisions, Actions, Fitting, Active, Slotless,
       TerminalPhases, Phases

(* nextRestoring keeps its slot, or goes back to Ready.                    *)
LEMMA RestoringDecision ==
  ASSUME NEW e \in Envs, NEW f \in Facts, e.phase = "Restoring"
  PROVE  nextRestoring(e, f) \in Decisions /\ Fitting(e, nextRestoring(e, f))
BY DEF nextRestoring, Decide, Decisions, Actions, Fitting, Active, Slotless,
       TerminalPhases, Phases

(* nextRunning takes its slot along into Freezing.                         *)
LEMMA RunningDecision ==
  ASSUME NEW e \in Envs, e.phase = "Running"
  PROVE  nextRunning(e) \in Decisions /\ Fitting(e, nextRunning(e))
BY DEF nextRunning, Decide, Decisions, Actions, Fitting, Active, Slotless,
       TerminalPhases, Phases

(* nextFreezing holds the slot until it leaves for Waiting.                *)
LEMMA FreezingDecision ==
  ASSUME NEW e \in Envs, NEW f \in Facts, e.phase = "Freezing"
  PROVE  nextFreezing(e, f) \in Decisions /\ Fitting(e, nextFreezing(e, f))
BY DEF nextFreezing, Decide, Decisions, Actions, Fitting, Active, Slotless,
       TerminalPhases, Phases

(* nextWaiting goes nowhere that needs a slot at once.                     *)
LEMMA WaitingDecision ==
  ASSUME NEW e \in Envs, NEW f \in Facts
  PROVE  nextWaiting(e, f) \in Decisions /\ Fitting(e, nextWaiting(e, f))
BY DEF nextWaiting, Decide, Decisions, Actions, Fitting, Active, Slotless,
       TerminalPhases, Phases

(* dispatchPhase: whichever phase it is.                                   *)
LEMMA DispatchDecision ==
  ASSUME NEW e \in Envs, NEW f \in Facts,
         NEW phase \in Phases \ TerminalPhases,
         e.phase = phase \/ (e.phase = "" /\ phase = "Pending")
  PROVE  /\ dispatchPhase(e, f, phase) \in Decisions
         /\ Fitting(e, dispatchPhase(e, f, phase))
<1>1. phase \in {"Pending", "Ready", "Restoring", "Running", "Freezing", "Waiting"}
  BY DEF Phases, TerminalPhases
<1>2. CASE phase = "Pending"
  BY <1>2, PendingDecision DEF dispatchPhase
<1>3. CASE phase = "Ready"
  BY <1>3, ReadyDecision DEF dispatchPhase
<1>4. CASE phase = "Restoring"
  BY <1>4, RestoringDecision DEF dispatchPhase
<1>5. CASE phase = "Running"
  BY <1>5, RunningDecision DEF dispatchPhase
<1>6. CASE phase = "Freezing"
  BY <1>6, FreezingDecision DEF dispatchPhase
<1>7. CASE phase = "Waiting"
  BY <1>7, WaitingDecision DEF dispatchPhase
<1> QED
  BY <1>1, <1>2, <1>3, <1>4, <1>5, <1>6, <1>7

(* Every decision is one, and keeps the slot rule.                         *)
LEMMA NextDecisionFits ==
  ASSUME NEW e \in Envs, NEW f \in Facts, SlotRule(e)
  PROVE  NextDecision(e, f) \in Decisions /\ Fitting(e, NextDecision(e, f))
<1> DEFINE phase == IF e.phase = "" THEN "Pending" ELSE e.phase
           d == decide(e, f, phase)
<1>1. phase \in Phases /\ (e.phase = phase \/ (e.phase = "" /\ phase = "Pending"))
  BY DEF Envs, StatusPhases, Phases
<1>2. d \in Decisions /\ Fitting(e, d)
  <2>1. CASE phase \in TerminalPhases
    <3>1. d = terminal(e, f) /\ e.phase \in TerminalPhases
      BY <2>1 DEF decide, TerminalPhases
    <3> QED
      BY <3>1, TerminalDecision
  <2>2. CASE phase \notin TerminalPhases
    <3>1. \/ d = agentOrPodTerminal(e, f) /\ ObservedOutcome(e, f) # ""
          \/ d = dispatchPhase(e, f, phase)
          \/ d = timeoutFired
          \/ d = hold(e, phase)
      BY <2>2 DEF decide
    <3>2. phase \in Phases \ TerminalPhases
      BY <1>1, <2>2
    <3> HIDE DEF d, phase
    <3> QED
      BY <1>1, <3>1, <3>2, OutcomeDecision, DispatchDecision, TimeoutDecision,
         HoldDecision
  <2> QED
    BY <2>1, <2>2
<1>3. NextDecision(e, f) = withEnsureResources(d, f)
  BY DEF NextDecision
<1> HIDE DEF d
<1>4. withEnsureResources(d, f) \in Decisions /\ Fitting(e, withEnsureResources(d, f))
  BY <1>2 DEF withEnsureResources, Decisions, Actions, Fitting
<1> QED
  BY <1>3, <1>4

(* lifecycle.Apply keeps an environment well typed, only ever gives up its *)
(* slot, and leaves its deletion alone.                                    *)
LEMMA ApplyType ==
  ASSUME NEW e \in Envs, NEW d \in Decisions
  PROVE  /\ Apply(e, d) \in Envs
         /\ Apply(e, d).phase = d.phase
         /\ Apply(e, d).granted = (e.granted /\ d.slotWanted)
         /\ Apply(e, d).finished = (e.finished \/ d.setFinishedAt)
         /\ Apply(e, d).deleting = e.deleting
<1> DEFINE p  == d.phase
           t  == IF e.terminalPhase = "" THEN d.setTerminalPhase ELSE e.terminalPhase
           fc == IF d.incFreezeCount THEN e.freezeCount + 1 ELSE e.freezeCount
           wc == IF d.incWakeCount THEN e.wakeCount + 1 ELSE e.wakeCount
           fin == e.finished \/ d.setFinishedAt
           wf == e.waitFor /\ ~d.clearWaitFor
           g  == e.granted /\ d.slotWanted
<1>1. Apply(e, d) = [e EXCEPT !.phase = p, !.finished = fin,
                              !.terminalPhase = t, !.freezeCount = fc,
                              !.wakeCount = wc, !.waitFor = wf, !.granted = g]
  BY DEF Apply
<1>2. p \in StatusPhases
  BY Zenon DEF Decisions, StatusPhases
<1>3. t \in TerminalPhases \cup {""}
  BY Zenon DEF Envs, Decisions
<1>4. fc \in Nat
  <2>1. e.freezeCount \in Nat
    BY Zenon DEF Envs
  <2> QED
    BY <2>1
<1>5. wc \in Nat
  <2>1. e.wakeCount \in Nat
    BY Zenon DEF Envs
  <2> QED
    BY <2>1
<1>6. fin \in BOOLEAN /\ wf \in BOOLEAN /\ g \in BOOLEAN
  BY Zenon
<1>9. p = d.phase /\ g = (e.granted /\ d.slotWanted) /\ fin = (e.finished \/ d.setFinishedAt)
  OBVIOUS
<1> HIDE DEF p, t, fc, wc, fin, wf, g
<1>7. Apply(e, d) \in Envs
  <2>2. [e EXCEPT !.phase = p, !.finished = fin, !.terminalPhase = t,
                  !.freezeCount = fc, !.wakeCount = wc, !.waitFor = wf,
                  !.granted = g] \in Envs
    BY <1>2, <1>3, <1>4, <1>5, <1>6, Zenon DEF Envs
  <2> QED
    BY <1>1, <2>2
<1>8. /\ Apply(e, d).phase = p
      /\ Apply(e, d).granted = g
      /\ Apply(e, d).finished = fin
      /\ Apply(e, d).deleting = e.deleting
  BY <1>1, Zenon DEF Envs
<1> QED
  BY <1>7, <1>8, <1>9, Zenon

-----------------------------------------------------------------------------
(* Updates of the parts of the state.                                      *)

(* The status and spec patches of the other writers.                       *)
LEMMA EnvUpdates ==
  ASSUME NEW e \in Envs
  PROVE  /\ [e EXCEPT !.finalizer = TRUE] \in Envs
         /\ [e EXCEPT !.granted = TRUE] \in Envs
         /\ [e EXCEPT !.waitFor = TRUE] \in Envs
         /\ [e EXCEPT !.archived = TRUE] \in Envs
         /\ \A r \in Results : [e EXCEPT !.result = r] \in Envs
         /\ \A s \in Seqs, a \in AttemptPhases :
              [e EXCEPT !.attemptSeq = s, !.attempt = a] \in Envs
         /\ \A s \in Seqs, a \in AttemptPhases :
              [e EXCEPT !.snapshot = s, !.attemptSeq = s, !.attempt = a] \in Envs
         /\ \A b \in BOOLEAN, g \in Nat :
              [e EXCEPT !.suspend = b, !.generation = g] \in Envs
         /\ \A g \in Nat : [e EXCEPT !.deleting = TRUE, !.generation = g] \in Envs
BY Zenon DEF Envs

(* What the kubelet and the reconciler do to a pod.                        *)
LEMMA PodUpdates ==
  ASSUME NEW x \in Pods
  PROVE  /\ \A b \in BOOLEAN : [x EXCEPT !.deleting = b] \in Pods
         /\ [x EXCEPT !.restore = FALSE] \in Pods
         /\ [x EXCEPT !.ready = TRUE] \in Pods
         /\ \A y \in PodPhases : [x EXCEPT !.phase = y] \in Pods
         /\ \A y \in PodPhases : [x EXCEPT !.phase = y, !.ready = FALSE] \in Pods
         /\ \A y \in PodPhases, b \in BOOLEAN :
              [x EXCEPT !.phase = y, !.restore = b] \in Pods
         /\ \A y \in PodPhases, o \in {"", "Succeeded", "Failed"} :
              [x EXCEPT !.phase = y, !.exit = o] \in Pods
         /\ \A o \in {"", "Succeeded", "Failed"} :
              [x EXCEPT !.exit = o, !.ready = FALSE] \in Pods
BY Zenon DEF Pods

(* No pod is a pod value.                                                  *)
LEMMA NoPodType == NoPod \in Pods
BY DEF NoPod, Pods, PodPhases

(* A hook that is not there is a hook value.                               *)
LEMMA NoProcType == NoProc \in Procs
BY DEF NoProc, Procs, Stages, Seqs, NoSeq

(* What the hooks and their controllers do to the processes.               *)
LEMMA ProcUpdates ==
  ASSUME NEW x \in [Hooks -> Procs], NEW p \in Hooks
  PROVE  /\ \A s \in Stages : [x EXCEPT ![p].stage = s] \in [Hooks -> Procs]
         /\ \A s \in Stages, n \in Seqs :
              [x EXCEPT ![p].stage = s, ![p].seq = n] \in [Hooks -> Procs]
         /\ \A s \in Stages :
              [x EXCEPT ![p].stage = s, ![p].captured = TRUE] \in [Hooks -> Procs]
         /\ [x EXCEPT ![p] = NoProc] \in [Hooks -> Procs]
         /\ \A s \in Stages :
              [x EXCEPT ![p] = [NoProc EXCEPT !.stage = s]] \in [Hooks -> Procs]
         /\ [q \in Hooks |-> [x[q] EXCEPT !.captured = FALSE]] \in [Hooks -> Procs]
BY NoProcType, Zenon DEF Procs

(* What a pass remembers of an environment.                                *)
LEMMA SeenType ==
  ASSUME NEW e \in Envs
  PROVE  Seen(e) \in SeenEnvs
BY DEF Seen, SeenEnvs, Envs

(* observeCluster fills in every fact.                                     *)
LEMMA FactsType ==
  ASSUME pod \in Pods, NEW class \in BOOLEAN, NEW seen \in BOOLEAN,
         NEW ready \in BOOLEAN, NEW stuck \in BOOLEAN, NEW due \in BOOLEAN,
         NEW probe \in ProbeOutcomes, totalDue \in BOOLEAN
  PROVE  observeCluster(class, seen, ready, stuck, due, probe) \in Facts
BY DEF observeCluster, podFailure, Facts, Pods, PodPhases, ProbeOutcomes

(* The pass between two passes.                                            *)
LEMMA IdlePassType == IdlePass \in Passes
<1>1. NewEnvironment \in Envs
  BY DEF NewEnvironment, Envs, StatusPhases, Phases, TerminalPhases, Seqs, NoSeq,
         AttemptPhases, Results
<1>2. Decide("Pending", FALSE, {}) \in Decisions
  BY DEF Decide, Decisions, Phases
<1> QED
  BY <1>1, <1>2, SeenType, Zenon DEF IdlePass, Passes

(* The initial state is well typed.                                        *)
LEMMA TypeInit == Init => TypeOK
<1>1. NewEnvironment \in Envs
  BY DEF NewEnvironment, Envs, StatusPhases, Phases, TerminalPhases, Seqs, NoSeq,
         AttemptPhases, Results
<1>4. NoSeq \in Seqs
  BY DEF Seqs
<1>5. [p \in Hooks |-> NoProc] \in [Hooks -> Procs]
  BY NoProcType
<1> QED
  BY <1>1, <1>4, <1>5, IdlePassType, NoPodType, EnvironmentAssumption, Zenon
     DEF Init, TypeOK

-----------------------------------------------------------------------------
(* The steps that are nothing to the slot.                                 *)

(* Such a step keeps the phase, the slot and the outcome, takes back no    *)
(* deletion, and leaves the pass as it is, moves it on or ends it.         *)
Calm ==
  /\ env'.phase = env.phase /\ env'.granted = env.granted
  /\ env'.finished = env.finished
  /\ env.deleting => env'.deleting
  /\ \/ rec' = rec \/ rec' = IdlePass
     \/ rec.pc # "idle" /\ rec' = [rec EXCEPT !.pc = "write"]

(* A calm step keeps the slot rule and the pass sound.                     *)
LEMMA CalmKeeps ==
  ASSUME IInv, Calm
  PROVE  SlotFollowsPhase' /\ PassIsSound'
<1>1. SlotFollowsPhase'
  BY DEF IInv, Calm, SlotFollowsPhase
<1>2. PassIsSound'
  <2>1. CASE rec' = rec
    BY <2>1 DEF IInv, Calm, PassIsSound
  <2>2. CASE rec' = IdlePass
    BY <2>2 DEF PassIsSound, IdlePass
  <2>3. CASE rec.pc # "idle" /\ rec' = [rec EXCEPT !.pc = "write"]
    <3>1. rec'.decision = rec.decision /\ rec'.seen = rec.seen
      BY <2>3 DEF IInv, TypeOK, Passes
    <3> QED
      BY <2>3, <3>1 DEF IInv, Calm, PassIsSound
  <2> QED
    BY <2>1, <2>2, <2>3 DEF Calm
<1> QED
  BY <1>1, <1>2

(* Faults are counted down to zero.                                        *)
LEMMA FaultType ==
  ASSUME budget \in Budgets, NEW name, Fault(name)
  PROVE  budget' \in Budgets
<1>1. budget.faults - 1 \in Nat
  BY DEF Fault, Budgets
<1> QED
  BY <1>1, Zenon DEF Fault, Budgets

(* Pod steps touch neither the object nor the pass.                        *)
LEMMA KubeletStep ==
  ASSUME TypeOK, Kubelet \/ RestoreFails \/ Evict \/ AgentExit
  PROVE  TypeOK' /\ Calm
<1> USE DEF TypeOK, Hooks
<1>1. CASE SidecarStart
  BY <1>1, ProcUpdates, Zenon DEF SidecarStart, Calm, Stages
<1>2. CASE RestoreBegin \/ RestoreDone
  BY <1>2, PodUpdates, Zenon DEF RestoreBegin, RestoreDone, Calm
<1>3. CASE AgentStart
  BY <1>3, PodUpdates, Zenon DEF AgentStart, Calm, PodPhases
<1>4. CASE PodBecomesReady
  BY <1>4, PodUpdates, Zenon DEF PodBecomesReady, Calm
<1>5. CASE PodTerminates
  <2>1. pod.exit \in PodPhases
    BY DEF Pods, PodPhases
  <2> QED
    BY <1>5, <2>1, PodUpdates, ProcUpdates, Zenon DEF PodTerminates, Calm
<1>6. CASE PodGone
  BY <1>6, NoPodType, ProcUpdates, Zenon DEF PodGone, Calm
<1>7. CASE RestoreFails
  <2>1. budget' \in Budgets
    BY <1>7, FaultType DEF RestoreFails
  <2> QED
    BY <1>7, <2>1, PodUpdates, ProcUpdates, Zenon DEF RestoreFails, Calm, PodPhases
<1>8. CASE Evict
  <2>1. budget' \in Budgets
    BY <1>8, FaultType DEF Evict
  <2> QED
    BY <1>8, <2>1, PodUpdates, Zenon DEF Evict, Calm
<1>9. CASE AgentExit
  BY <1>9, PodUpdates, Zenon DEF AgentExit, Calm
<1> QED
  BY <1>1, <1>2, <1>3, <1>4, <1>5, <1>6, <1>7, <1>8, <1>9 DEF Kubelet

(* What a hook writes to the status is nothing to the slot.                *)
LEMMA StoreAttemptType ==
  ASSUME env \in Envs, NEW s \in Seqs, NEW a \in AttemptPhases, StoreAttempt(s, a)
  PROVE  /\ env' \in Envs /\ env'.phase = env.phase /\ env'.granted = env.granted
         /\ env'.finished = env.finished /\ env'.deleting = env.deleting
<1>1. CASE env' = env
  BY <1>1
<1>2. CASE env' = [env EXCEPT !.attemptSeq = s, !.attempt = a]
  <2>1. env' \in Envs
    BY <1>2, Zenon DEF Envs
  <2> QED
    BY <1>2, <2>1, Zenon DEF Envs
<1> QED
  BY <1>1, <1>2 DEF StoreAttempt

(* The sequence numbers and stages a hook may write.                       *)
LEMMA HookTypes ==
  ASSUME TypeOK, NEW p \in Hooks
  PROVE  /\ proc[p].seq \in Seqs /\ env.freezeCount \in Seqs
         /\ GivesUp(p) \in Stages
         /\ (IF latest >= env.freezeCount THEN latest + 1 ELSE env.freezeCount) \in Seqs
<1>1. proc[p].seq \in Seqs
  BY Zenon DEF TypeOK, Procs
<1>2. env.freezeCount \in Nat
  BY Zenon DEF TypeOK, Envs
<1>3. latest \in Seqs
  BY DEF TypeOK
<1>4. (IF latest >= env.freezeCount THEN latest + 1 ELSE env.freezeCount) \in Seqs
  BY <1>2, <1>3 DEF Seqs, NoSeq
<1> QED
  BY <1>1, <1>2, <1>4, Zenon DEF Seqs, GivesUp, Stages

(* snapshot.go Freeze, as far as the attempt it records.                   *)
LEMMA HookBeginStep ==
  ASSUME TypeOK, NEW p \in Hooks, HookBegin(p)
  PROVE  TypeOK' /\ Calm
<1> DEFINE seq == IF latest >= env.freezeCount THEN latest + 1 ELSE env.freezeCount
<1>1. CASE /\ StoreAttempt(env.freezeCount, "Failed")
           /\ proc' = [proc EXCEPT ![p].stage = GivesUp(p)]
  <2>1. proc' \in [Hooks -> Procs]
    BY <1>1, HookTypes, ProcUpdates, Zenon DEF TypeOK
  <2>2. /\ env' \in Envs /\ env'.phase = env.phase /\ env'.granted = env.granted
        /\ env'.finished = env.finished /\ env'.deleting = env.deleting
    <3>1. env.freezeCount \in Seqs /\ "Failed" \in AttemptPhases
      BY HookTypes DEF AttemptPhases
    <3> QED
      BY <1>1, <3>1, StoreAttemptType DEF TypeOK
  <2> QED
    BY <2>1, <2>2, Zenon DEF HookBegin, TypeOK, Calm
<1>2. CASE /\ StoreAttempt(seq, "InProgress")
           /\ proc' = [proc EXCEPT ![p].stage = "archive", ![p].seq = seq]
  <2>1. seq \in Seqs
    BY HookTypes
  <2> HIDE DEF seq
  <2>2. proc' \in [Hooks -> Procs]
    BY <1>2, <2>1, ProcUpdates, Zenon DEF TypeOK, Stages
  <2>3. /\ env' \in Envs /\ env'.phase = env.phase /\ env'.granted = env.granted
        /\ env'.finished = env.finished /\ env'.deleting = env.deleting
    <3>1. "InProgress" \in AttemptPhases
      BY DEF AttemptPhases
    <3> QED
      BY <1>2, <2>1, <3>1, StoreAttemptType DEF TypeOK
  <2> QED
    BY <2>2, <2>3, Zenon DEF HookBegin, TypeOK, Calm
<1> QED
  BY <1>1, <1>2 DEF HookBegin

(* The rest of the hook, and what may go wrong with it.                    *)
LEMMA HookStepStep ==
  ASSUME TypeOK, NEW p \in Hooks,
         \/ HookArchive(p) \/ RecordSnapshot(p)
         \/ HookArchiveFails(p) \/ RecordSnapshotLost(p) \/ Crash(p)
  PROVE  TypeOK' /\ Calm
<1>1. CASE HookArchive(p)
  <2>1. proc' \in [Hooks -> Procs]
    BY <1>1, ProcUpdates, Zenon DEF HookArchive, TypeOK, Stages
  <2> QED
    BY <1>1, <2>1, HookTypes, Zenon DEF HookArchive, TypeOK, Calm
<1>2. CASE RecordSnapshot(p)
  <2>1. proc' \in [Hooks -> Procs]
    <3>1. "done" \in Stages /\ GivesUp(p) \in Stages
      BY HookTypes DEF Stages
    <3>2. PICK s \in Stages : proc' = [proc EXCEPT ![p].stage = s]
      BY <1>2, <3>1, Zenon DEF RecordSnapshot
    <3> QED
      BY <3>2, ProcUpdates, Zenon DEF TypeOK
  <2>2. /\ env' \in Envs /\ env'.phase = env.phase /\ env'.granted = env.granted
        /\ env'.finished = env.finished /\ env'.deleting = env.deleting
        /\ dirty' \in BOOLEAN
    <3>1. CASE env' = env /\ dirty' = dirty
      BY <3>1 DEF TypeOK
    <3>2. CASE /\ env' = [env EXCEPT !.snapshot = proc[p].seq,
                                     !.attemptSeq = proc[p].seq,
                                     !.attempt = "Succeeded"]
               /\ dirty' = (dirty /\ ~proc[p].captured)
      <4>1. proc[p].seq \in Seqs /\ "Succeeded" \in AttemptPhases
        BY HookTypes DEF AttemptPhases
      <4> QED
        BY <3>2, <4>1, Zenon DEF Envs, TypeOK
    <3> QED
      BY <1>2, <3>1, <3>2 DEF RecordSnapshot
  <2> QED
    BY <1>2, <2>1, <2>2, Zenon DEF RecordSnapshot, TypeOK, Calm
<1>3. CASE HookArchiveFails(p)
  <2>1. budget' \in Budgets
    BY <1>3, FaultType DEF HookArchiveFails, TypeOK
  <2>2. proc' \in [Hooks -> Procs]
    BY <1>3, HookTypes, ProcUpdates, Zenon DEF HookArchiveFails, TypeOK
  <2>3. /\ env' \in Envs /\ env'.phase = env.phase /\ env'.granted = env.granted
        /\ env'.finished = env.finished /\ env'.deleting = env.deleting
    <3>1. proc[p].seq \in Seqs /\ "Failed" \in AttemptPhases
      BY HookTypes DEF AttemptPhases
    <3> QED
      BY <1>3, <3>1, StoreAttemptType DEF HookArchiveFails, TypeOK
  <2> QED
    BY <1>3, <2>1, <2>2, <2>3, Zenon DEF HookArchiveFails, TypeOK, Calm
<1>4. CASE RecordSnapshotLost(p)
  <2>1. budget' \in Budgets
    BY <1>4, FaultType DEF RecordSnapshotLost, TypeOK
  <2> QED
    BY <1>4, <2>1, HookTypes, ProcUpdates, Zenon DEF RecordSnapshotLost, TypeOK, Calm
<1>5. CASE Crash(p)
  <2>1. budget' \in Budgets
    BY <1>5, FaultType DEF Crash, TypeOK
  <2>2. (IF p = "job" THEN "failed"
         ELSE IF pod.deleting \/ pod.exit # "" THEN "done" ELSE "idle") \in Stages
    BY DEF Stages
  <2> QED
    BY <1>5, <2>1, <2>2, ProcUpdates, Zenon DEF Crash, TypeOK, Calm
<1> QED
  BY <1>1, <1>2, <1>3, <1>4, <1>5

(* The agent, the Jobs, the clock and the user.                            *)
LEMMA OtherStep ==
  ASSUME TypeOK,
         \/ AbortPass \/ TotalDeadline \/ AgentWork \/ DeclareWait \/ ReportDone
         \/ LatchFreezing \/ JobRetry \/ JobExpires \/ ArchiveJobRuns
         \/ ArchiveJobFails \/ ToggleSuspend \/ DeleteEnvironment
  PROVE  TypeOK' /\ Calm
<1>1. CASE AbortPass
  <2>1. budget' \in Budgets
    BY <1>1, FaultType DEF AbortPass, TypeOK
  <2> QED
    BY <1>1, <2>1, IdlePassType, Zenon DEF AbortPass, TypeOK, Calm
<1>2. CASE TotalDeadline
  BY <1>2, Zenon DEF TotalDeadline, TypeOK, Calm
<1>3. CASE AgentWork
  <2>1. proc' \in [Hooks -> Procs]
    BY <1>3, Zenon DEF AgentWork, TypeOK, Procs
  <2> QED
    BY <1>3, <2>1, Zenon DEF AgentWork, TypeOK, Calm
<1>4. CASE DeclareWait
  <2>1. env' \in Envs
    BY <1>4, EnvUpdates, Zenon DEF DeclareWait, TypeOK
  <2>2. /\ env'.phase = env.phase /\ env'.granted = env.granted
        /\ env'.finished = env.finished /\ env'.deleting = env.deleting
    BY <1>4, Zenon DEF DeclareWait, TypeOK, Envs
  <2> QED
    BY <1>4, <2>1, <2>2, Zenon DEF DeclareWait, TypeOK, Calm
<1>5. CASE ReportDone
  <2>1. PICK r \in {"Succeeded", "Failed"} : env' = [env EXCEPT !.result = r]
    BY <1>5 DEF ReportDone
  <2>2. r \in Results
    BY DEF Results
  <2>3. env' \in Envs
    BY <2>1, <2>2, EnvUpdates, Zenon DEF TypeOK
  <2>4. /\ env'.phase = env.phase /\ env'.granted = env.granted
        /\ env'.finished = env.finished /\ env'.deleting = env.deleting
    BY <2>1, Zenon DEF TypeOK, Envs
  <2> QED
    BY <1>5, <2>3, <2>4, Zenon DEF ReportDone, TypeOK, Calm
<1>6. CASE LatchFreezing
  <2>1. "sidecar" \in Hooks /\ "begin" \in Stages
    BY DEF Hooks, Stages
  <2> QED
    BY <1>6, <2>1, ProcUpdates, Zenon DEF LatchFreezing, TypeOK, Calm
<1>7. CASE JobRetry
  <2>1. "job" \in Hooks /\ "begin" \in Stages
    BY DEF Hooks, Stages
  <2> QED
    BY <1>7, <2>1, ProcUpdates, Zenon DEF JobRetry, TypeOK, Calm
<1>8. CASE JobExpires
  <2>1. "job" \in Hooks
    BY DEF Hooks
  <2> QED
    BY <1>8, <2>1, ProcUpdates, Zenon DEF JobExpires, TypeOK, Calm
<1>9. CASE ArchiveJobRuns
  <2>1. env' \in Envs
    BY <1>9, EnvUpdates, Zenon DEF ArchiveJobRuns, TypeOK
  <2>2. /\ env'.phase = env.phase /\ env'.granted = env.granted
        /\ env'.finished = env.finished /\ env'.deleting = env.deleting
    BY <1>9, Zenon DEF ArchiveJobRuns, TypeOK, Envs
  <2> QED
    BY <1>9, <2>1, <2>2, Zenon DEF ArchiveJobRuns, TypeOK, Calm
<1>10. CASE ArchiveJobFails
  <2>1. budget' \in Budgets
    BY <1>10, FaultType DEF ArchiveJobFails, TypeOK
  <2> QED
    BY <1>10, <2>1, Zenon DEF ArchiveJobFails, TypeOK, Calm
<1> DEFINE next == env.generation + 1
<1>11. next \in Nat
  <2>1. env.generation \in Nat
    BY Zenon DEF TypeOK, Envs
  <2> QED
    BY <2>1
<1>12. CASE ToggleSuspend
  <2>1. env' = [env EXCEPT !.suspend = ~env.suspend, !.generation = next]
    BY <1>12 DEF ToggleSuspend
  <2>2. (~env.suspend) \in BOOLEAN
    OBVIOUS
  <2> HIDE DEF next
  <2>3. env' \in Envs
    BY <1>11, <2>1, <2>2, EnvUpdates, Zenon DEF TypeOK
  <2>4. /\ env'.phase = env.phase /\ env'.granted = env.granted
        /\ env'.finished = env.finished /\ env'.deleting = env.deleting
    BY <2>1, Zenon DEF TypeOK, Envs
  <2> QED
    BY <1>12, <2>3, <2>4, Zenon DEF ToggleSuspend, TypeOK, Calm
<1>13. CASE DeleteEnvironment
  <2>1. env' = [env EXCEPT !.deleting = TRUE, !.generation = next]
    BY <1>13 DEF DeleteEnvironment
  <2> HIDE DEF next
  <2>2. env' \in Envs
    BY <1>11, <2>1, EnvUpdates, Zenon DEF TypeOK
  <2>3. /\ env'.phase = env.phase /\ env'.granted = env.granted
        /\ env'.finished = env.finished /\ env'.deleting
    BY <2>1, Zenon DEF TypeOK, Envs
  <2>4. present' \in BOOLEAN
    BY <1>13, Zenon DEF DeleteEnvironment, TypeOK, Envs
  <2> QED
    BY <1>13, <2>2, <2>3, <2>4, Zenon DEF DeleteEnvironment, TypeOK, Calm
<1> QED
  BY <1>1, <1>2, <1>3, <1>4, <1>5, <1>6, <1>7, <1>8, <1>9, <1>10, <1>12, <1>13

-----------------------------------------------------------------------------
(* The reconciler and the scheduler.                                       *)

(* The actions move the pass on and leave the object alone.                *)
LEMMA PerformActionsStep ==
  ASSUME TypeOK, PerformActions
  PROVE  TypeOK' /\ Calm
<1>1. rec.pc # "idle" /\ rec' = [rec EXCEPT !.pc = "write"]
  BY DEF PerformActions
<1>2. rec' \in Passes
  BY <1>1, Zenon DEF TypeOK, Passes
<1>3. pod' \in Pods
  <2>1. ensurePod \in Pods
    <3>1. "Pending" \in PodPhases /\ (rec.seen.snapshot # NoSeq) \in BOOLEAN
      BY DEF PodPhases
    <3> QED
      BY <3>1, NoPodType, PodUpdates, Zenon DEF TypeOK, ensurePod
  <2>2. deletePod \in Pods
    <3>1. PodExists \in BOOLEAN
      BY DEF PodExists
    <3> QED
      BY <3>1, PodUpdates, Zenon DEF TypeOK, deletePod
  <2> QED
    BY <2>1, <2>2, Zenon DEF PerformActions, TypeOK
<1>4. proc' \in [Hooks -> Procs]
  <2>1. "job" \in Hooks /\ "begin" \in Stages
    BY DEF Hooks, Stages
  <2>2. freezePod \in [Hooks -> Procs]
    BY <2>1, ProcUpdates, Zenon DEF TypeOK, freezePod
  <2> QED
    BY <2>2, Zenon DEF PerformActions, TypeOK
<1>5. archiveJob' \in BOOLEAN
  BY Zenon DEF PerformActions, TypeOK
<1> QED
  BY <1>1, <1>2, <1>3, <1>4, <1>5, Zenon DEF PerformActions, TypeOK, Calm

(* A pass that starts with a decision fitting the environment it read.     *)
LEMMA PassStarts ==
  ASSUME TypeOK, NEW d \in Decisions, NEW class \in BOOLEAN, Pass(d, class)
  PROVE  rec' \in Passes /\ rec'.decision = d /\ rec'.seen.phase = env.phase
<1> DEFINE pc == IF d.actions \subseteq {"EnsureResources"} THEN "write" ELSE "act"
<1>1. pc \in {"idle", "act", "write"}
  OBVIOUS
<1>2. Seen(env) \in SeenEnvs /\ Seen(env).phase = env.phase
  BY SeenType DEF TypeOK, Seen
<1>3. rec' = [pc |-> pc, seen |-> Seen(env), class |-> class, decision |-> d]
  BY DEF Pass
<1> HIDE DEF pc
<1> QED
  BY <1>1, <1>2, <1>3, Zenon DEF Passes

(* A pass starts with a decision that fits what it has read.               *)
LEMMA BeginReconcileStep ==
  ASSUME IInv, BeginReconcile
  PROVE  IInv'
<1>1. TypeOK
  BY DEF IInv
<1>2. env' = [env EXCEPT !.finalizer = TRUE]
  BY DEF BeginReconcile
<1>3. env' \in Envs
  BY <1>1, <1>2, EnvUpdates, Zenon DEF TypeOK
<1>4. /\ env'.phase = env.phase /\ env'.granted = env.granted
      /\ env'.finished = env.finished /\ env'.deleting = env.deleting
  BY <1>1, <1>2, Zenon DEF TypeOK, Envs
<1>5. PICK class \in Maybe("classLost", TRUE), seen \in Maybe("podUnobserved", TRUE),
           stuck \in Maybe("podStuck", FALSE), due \in Maybe("phaseTimeout", FALSE),
           probe \in Probed,
           ready \in (IF env.phase \in {"", "Pending"} THEN BOOLEAN ELSE {TRUE}) :
        Pass(NextDecision(env, observeCluster(class, seen, ready, stuck, due, probe)),
             class)
  BY Zenon DEF BeginReconcile
<1>6. /\ class \in BOOLEAN /\ seen \in BOOLEAN /\ due \in BOOLEAN
      /\ stuck \in BOOLEAN /\ ready \in BOOLEAN /\ probe \in ProbeOutcomes
  BY DEF Maybe, Probed, ProbeOutcomes
<1> DEFINE f == observeCluster(class, seen, ready, stuck, due, probe)
           d == NextDecision(env, f)
<1>7. f \in Facts
  BY <1>1, <1>6, FactsType DEF TypeOK
<1>8. SlotRule(env)
  BY DEF IInv, SlotFollowsPhase, SlotRule, Active, Slotless
<1> HIDE DEF f
<1>9. d \in Decisions /\ Fitting(env, d)
  BY <1>1, <1>7, <1>8, NextDecisionFits DEF TypeOK
<1>10. Pass(d, class)
  BY <1>5 DEF f
<1> HIDE DEF d
<1>11. rec' \in Passes /\ rec'.decision = d /\ rec'.seen.phase = env.phase
  BY <1>1, <1>6, <1>9, <1>10, PassStarts
<1>12. TypeOK'
  BY <1>1, <1>3, <1>11, Zenon DEF BeginReconcile, TypeOK
<1>13. SlotFollowsPhase'
  BY <1>4 DEF IInv, SlotFollowsPhase
<1>14. PassIsSound'
  BY <1>4, <1>8, <1>9, <1>11
     DEF PassIsSound, Fitting, SlotRule, Active, Slotless, TerminalPhases
<1> QED
  BY <1>12, <1>13, <1>14 DEF IInv

(* The pass of a deleted object freezes, archives or lets go.              *)
LEMMA ReconcileDeleteStep ==
  ASSUME IInv, ReconcileDelete
  PROVE  IInv'
<1>1. TypeOK /\ env' = env /\ env.deleting /\ rec.pc = "idle"
  BY DEF IInv, ReconcileDelete
<1>2. SlotFollowsPhase'
  BY <1>1 DEF IInv, SlotFollowsPhase
<1>3. CASE RemoveFinalizer
  <2>1. pod' \in Pods
    <3>1. PodExists \in BOOLEAN
      BY DEF PodExists
    <3> QED
      BY <1>1, <1>3, <3>1, PodUpdates, Zenon DEF TypeOK, RemoveFinalizer
  <2>2. TypeOK'
    BY <1>1, <1>3, <2>1, Zenon DEF TypeOK, RemoveFinalizer, ReconcileDelete
  <2>3. PassIsSound'
    BY <1>1, <1>3 DEF PassIsSound, RemoveFinalizer
  <2> QED
    BY <1>2, <2>2, <2>3 DEF IInv
<1>4. CASE freezeForArchive
  <2> DEFINE d == Decide("Freezing", TRUE, {"FreezePod"})
  <2>1. d \in Decisions /\ d.phase = "Freezing"
    BY DEF Decide, Decisions, Phases, Actions
  <2>2. Pass(d, TRUE)
    BY <1>4 DEF freezeForArchive
  <2> HIDE DEF d
  <2>3. rec' \in Passes /\ rec'.decision = d
    BY <1>1, <2>1, <2>2, PassStarts
  <2>4. TypeOK'
    BY <1>1, <1>4, <2>3, Zenon DEF TypeOK, freezeForArchive, ReconcileDelete
  <2>5. PassIsSound'
    BY <1>1, <2>1, <2>3 DEF PassIsSound, TerminalPhases
  <2> QED
    BY <1>2, <2>4, <2>5 DEF IInv
<1>5. CASE archiveJob' = TRUE /\ UNCHANGED <<present, pod, rec>>
  <2>1. TypeOK'
    BY <1>1, <1>5, Zenon DEF TypeOK, ReconcileDelete
  <2>2. PassIsSound'
    BY <1>1, <1>5 DEF PassIsSound
  <2> QED
    BY <1>2, <2>1, <2>2 DEF IInv
<1> QED
  BY <1>3, <1>4, <1>5 DEF ReconcileDelete

(* The write checks the phase it decided from; the slot it is not told of  *)
(* is covered by what the pass carries.                                    *)
LEMMA WriteStatusStep ==
  ASSUME IInv, WriteStatus
  PROVE  IInv'
<1>1. TypeOK /\ rec' = IdlePass
  BY DEF IInv, WriteStatus
<1>2. PassIsSound'
  BY <1>1 DEF PassIsSound, IdlePass
<1>3. CASE StaleDecision
  <2>1. TypeOK'
    BY <1>1, <1>3, IdlePassType, Zenon DEF TypeOK, WriteStatus
  <2>2. SlotFollowsPhase'
    BY <1>3 DEF IInv, SlotFollowsPhase, WriteStatus
  <2> QED
    BY <1>2, <2>1, <2>2 DEF IInv
<1>4. CASE ~StaleDecision
  <2> DEFINE d == rec.decision
  <2>1. d \in Decisions /\ d.phase \in Phases
    <3>1. d \in Decisions
      BY <1>1, Zenon DEF TypeOK, Passes
    <3> QED
      BY <3>1, Zenon DEF Decisions
  <2>2. env' = Apply(env, d) /\ rec.seen.phase = env.phase /\ rec.pc # "idle"
    BY <1>4 DEF WriteStatus, StaleDecision
  <2>3. /\ env' \in Envs /\ env'.phase = d.phase
        /\ env'.granted = (env.granted /\ d.slotWanted)
        /\ env'.finished = (env.finished \/ d.setFinishedAt)
        /\ env'.deleting = env.deleting
    <3> HIDE DEF d
    <3> QED
      BY <1>1, <2>1, <2>2, ApplyType DEF TypeOK
  <2>4. scoped' \in BOOLEAN
    BY <1>1, <1>4, Zenon DEF WriteStatus, TypeOK
  <2>5. TypeOK'
    BY <1>1, <2>3, <2>4, IdlePassType, Zenon DEF TypeOK, WriteStatus
  <2>6. SlotFollowsPhase'
    BY <2>1, <2>2, <2>3
       DEF IInv, SlotFollowsPhase, PassIsSound, TerminalPhases, Phases
  <2> QED
    BY <1>2, <2>5, <2>6 DEF IInv
<1> QED
  BY <1>3, <1>4

(* A grant lands on a Ready environment.                                   *)
LEMMA GrantSlotStep ==
  ASSUME IInv, GrantSlot
  PROVE  IInv'
<1>1. TypeOK /\ env' = [env EXCEPT !.granted = TRUE] /\ env.phase = "Ready" /\ rec' = rec
  BY DEF IInv, GrantSlot, IsCandidate
<1>2. env' \in Envs
  BY <1>1, EnvUpdates, Zenon DEF TypeOK
<1>3. /\ env'.phase = "Ready" /\ env'.granted
      /\ env'.finished = env.finished /\ env'.deleting = env.deleting
  BY <1>1, Zenon DEF TypeOK, Envs
<1>4. TypeOK'
  BY <1>1, <1>2, Zenon DEF TypeOK, GrantSlot
<1>5. SlotFollowsPhase'
  BY <1>3 DEF SlotFollowsPhase
<1>6. PassIsSound'
  BY <1>1, <1>3 DEF IInv, PassIsSound
<1> QED
  BY <1>4, <1>5, <1>6 DEF IInv

-----------------------------------------------------------------------------
(* The inductive invariant holds initially.                                *)
LEMMA InductiveInit == Init => IInv
<1>1. ASSUME Init PROVE SlotFollowsPhase /\ PassIsSound
  BY <1>1 DEF Init, SlotFollowsPhase, PassIsSound, IdlePass, NewEnvironment
<1> QED
  BY <1>1, TypeInit DEF IInv

(* Every step keeps the inductive invariant.                               *)
LEMMA InductiveNext == IInv /\ [Next]_vars => IInv'
<1> SUFFICES ASSUME IInv, [Next]_vars
             PROVE  IInv'
  OBVIOUS
<1>1. TypeOK
  BY DEF IInv
<1>2. ASSUME TypeOK', Calm PROVE IInv'
  BY <1>2, CalmKeeps DEF IInv
<1>3. CASE Reconcile
  BY <1>1, <1>2, <1>3, BeginReconcileStep, ReconcileDeleteStep,
     PerformActionsStep, WriteStatusStep DEF Reconcile
<1>4. CASE GrantSlot
  BY <1>4, GrantSlotStep
<1>5. CASE Kubelet
  BY <1>1, <1>2, <1>5, KubeletStep
<1>6. CASE Agent
  BY <1>1, <1>2, <1>6, OtherStep, KubeletStep DEF Agent
<1>7. CASE User \/ TotalDeadline \/ LatchFreezing \/ JobRetry \/ JobExpires \/ ArchiveJobRuns
  BY <1>1, <1>2, <1>7, OtherStep DEF User
<1>8. CASE \E p \in Hooks : HookStep(p)
  BY <1>1, <1>2, <1>8, HookBeginStep, HookStepStep DEF HookStep
<1>9. CASE World
  BY <1>1, <1>2, <1>9, OtherStep, KubeletStep, HookStepStep DEF World
<1>10. CASE UNCHANGED vars
  <2>1. TypeOK' /\ Calm
    BY <1>1, <1>10, Zenon DEF vars, TypeOK, Calm
  <2> QED
    BY <1>2, <2>1
<1> QED
  BY <1>3, <1>4, <1>5, <1>6, <1>7, <1>8, <1>9, <1>10 DEF Next

(* The strengthening that carries the proof: the types, the slot rule, and *)
(* the soundness of the decision a reconcile pass has read but not yet     *)
(* written.  Every step of the reconciler, the scheduler, the kubelet, the *)
(* agent, the sidecar, the Jobs and the user keeps it.                     *)
THEOREM Inductive == Spec => []IInv
BY InductiveInit, InductiveNext, PTL DEF Spec

(* The API object, the pass, the pod and the hooks stay well typed.        *)
THEOREM TypeCorrect == Spec => []TypeOK
<1>1. IInv => TypeOK
  BY DEF IInv
<1> QED
  BY <1>1, Inductive, PTL

(* The slot follows the phase: for any number of edits, freezes and faults *)
(* and any subset of the events, the reconciler's delayed status write and *)
(* the scheduler's grant never leave a Restoring or Running environment    *)
(* without a slot, nor a parked one with it.                               *)
THEOREM SlotHolds == Spec => []SlotFollowsPhase
<1>1. IInv => SlotFollowsPhase
  BY DEF IInv
<1> QED
  BY <1>1, Inductive, PTL
=============================================================================

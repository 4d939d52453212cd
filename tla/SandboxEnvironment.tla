------------------------- MODULE SandboxEnvironment -------------------------
(***************************************************************************)
(* One SandboxEnvironment and every process that acts on it:               *)
(*                                                                         *)
(*   - the reconciler, whose pass is three steps (read and decide, perform *)
(*     the actions, write the status) with the world moving in between;    *)
(*   - the slot scheduler, seen from one environment: it may grant;        *)
(*   - the kubelet, which starts, restores, runs and terminates the pod;   *)
(*   - the agent in the pod, which works, waits, reports and exits;        *)
(*   - the sandboxctl sidecar, which takes the snapshot when it sees the   *)
(*     phase Freezing or is told to terminate;                             *)
(*   - the recovery Job, which takes it when the pod is gone;              *)
(*   - the archive Job;                                                    *)
(*   - the user, who suspends, resumes and deletes.                        *)
(*                                                                         *)
(* They share the API object env and the snapshot store (its latest.json). *)
(***************************************************************************)
EXTENDS Lifecycle

CONSTANTS
  Backend,    \* "s3" or "pvc": the class's storage backend
  Scenarios   \* what may happen in a behaviour, and how often

PossibleEvents ==
  {"wait", "done", "exit", "suspend", "delete", "evict", "crash", "abort",
   "uploadFails", "statusLost", "restoreFails", "podUnobserved", "classLost",
   "podStuck", "phaseTimeout", "totalTimeout", "probeFails", "escape"}

\* The bounds are on the user's edits, the freezes and the faults.
Budgets == [events : SUBSET PossibleEvents, generation : Nat, freezes : Nat,
            faults : Nat]

ASSUME EnvironmentAssumption ==
  Backend \in {"s3", "pvc"} /\ Scenarios \subseteq Budgets

VARIABLES
  env,         \* the API object
  present,     \* the object still exists
  rec,         \* the reconcile pass in progress
  pod,         \* the environment's pod
  proc,        \* the two processes that run the freeze hook
  archiveJob,  \* the archive Job has been created and is not finished
  latest,      \* the sequence number in the store's latest.json
  sentinel,    \* restore-in-progress, on the workspace volume
  totalDue,    \* the total timeout has elapsed
  budget,      \* the scenario, with the faults that may still happen
  dirty,       \* history: agent work that no recorded snapshot holds
  scoped       \* history: this freeze began with its snapshot still to take

vars == <<env, present, rec, pod, proc, archiveJob, latest, sentinel, totalDue,
          budget, dirty, scoped>>

Hooks  == {"sidecar", "job"}
Stages == {"off", "idle", "begin", "archive", "record", "done", "failed"}

\* A pod without a phase is no pod.  exit is how its agent container ended.
Pods  == [phase : PodPhases, ready : BOOLEAN, deleting : BOOLEAN,
          restore : BOOLEAN, exit : {"", "Succeeded", "Failed"}]
NoPod == [phase |-> "", ready |-> FALSE, deleting |-> FALSE, restore |-> FALSE,
          exit |-> ""]
Procs == [stage : Stages, seq : Seqs, captured : BOOLEAN]
NoProc == [stage |-> "off", seq |-> NoSeq, captured |-> FALSE]

\* What a pass remembers of the object it read.
Seen(e) == [generation |-> e.generation, phase |-> e.phase, waitFor |-> e.waitFor,
            snapshot |-> e.snapshot, freezeCount |-> e.freezeCount]
SeenEnvs == [generation : Nat, phase : StatusPhases, waitFor : BOOLEAN,
             snapshot : Seqs, freezeCount : Nat]

Passes == [pc : {"idle", "act", "write"}, seen : SeenEnvs, class : BOOLEAN,
           decision : Decisions]
IdlePass == [pc |-> "idle", seen |-> Seen(NewEnvironment), class |-> FALSE,
             decision |-> Decide("Pending", FALSE, {})]

PodExists  == pod # NoPod
Terminated == pod.phase \in {"Succeeded", "Failed"}
AgentUp    == pod.phase = "Running" /\ pod.exit = ""

TypeOK ==
  /\ env \in Envs
  /\ present \in BOOLEAN
  /\ rec \in Passes
  /\ pod \in Pods
  /\ proc \in [Hooks -> Procs]
  /\ archiveJob \in BOOLEAN
  /\ latest \in Seqs
  /\ sentinel \in BOOLEAN
  /\ totalDue \in BOOLEAN
  /\ budget \in Budgets
  /\ dirty \in BOOLEAN
  /\ scoped \in BOOLEAN

Init ==
  /\ env = NewEnvironment
  /\ present = TRUE
  /\ rec = IdlePass
  /\ pod = NoPod
  /\ proc = [p \in Hooks |-> NoProc]
  /\ archiveJob = FALSE
  /\ latest = NoSeq
  /\ sentinel = FALSE
  /\ totalDue = FALSE
  /\ budget \in Scenarios
  /\ dirty = FALSE
  /\ scoped = FALSE

Fault(name) ==
  /\ name \in budget.events /\ budget.faults > 0
  /\ budget' = [budget EXCEPT !.faults = @ - 1]

\* An observation that may be either when the event is possible.
Maybe(name, usual) == IF name \in budget.events THEN BOOLEAN ELSE {usual}

-----------------------------------------------------------------------------
(* The reconciler.                                                         *)

(* A pod that has failed, or that is stuck because it cannot be scheduled  *)
(* or cannot have an image; never one that is being deleted.               *)
podFailure(stuck) ==
  /\ ~pod.deleting
  /\ \/ pod.phase = "Failed"
     \/ stuck /\ pod.phase \in {"Pending", "Running"} /\ ~pod.ready

(* What one pass observes, given whether the class and the pod could be    *)
(* read, whether the child objects are ready, whether the pod is stuck,    *)
(* whether the phase's timeout has elapsed, and what the probe says.       *)
(* Without the class the observers stop before the probe and the child     *)
(* objects; a pod that cannot be read looks like no pod at all, and only   *)
(* podObserved tells the two apart.                                        *)
observeCluster(class, seen, ready, stuck, due, probe) ==
  [classResolved  |-> class,
   resourcesReady |-> class /\ ready,
   podObserved    |-> seen,
   podExists      |-> seen /\ PodExists,
   podPhase       |-> IF seen THEN pod.phase ELSE "",
   podReady       |-> seen /\ pod.ready,
   podFailure     |-> seen /\ podFailure(stuck),
   probe          |-> IF class /\ env.phase = "Waiting" /\ env.waitFor
                      THEN probe ELSE "NotObserved",
   timeoutDue     |-> totalDue \/ (due /\ env.phase \in {"Running", "Waiting"})]

Probed == {"Pending", "Satisfied"} \cup
          (IF "probeFails" \in budget.events THEN {"Failed"} ELSE {})

(* Child objects other than the pod are not modelled, so a pass that only  *)
(* re-applies them goes straight to its write.                             *)
Pass(decision, class) ==
  rec' = [pc |-> IF decision.actions \subseteq {"EnsureResources"}
                 THEN "write" ELSE "act",
          seen |-> Seen(env), class |-> class, decision |-> decision]

(* A pass that keeps the phase and the slot, patches and does nothing, is  *)
(* without effect at whatever time its write lands.                        *)
Void(d) == d.actions \subseteq {"EnsureResources"} /\ d.slotWanted
           /\ d = [Decide(env.phase, TRUE, {}) EXCEPT !.actions = d.actions]

(* Read the object, make sure it has its finalizer, observe, decide.       *)
BeginReconcile ==
  /\ present /\ ~env.deleting /\ rec.pc = "idle"
  /\ env' = [env EXCEPT !.finalizer = TRUE]
  /\ \E class \in Maybe("classLost", TRUE), seen \in Maybe("podUnobserved", TRUE),
        stuck \in Maybe("podStuck", FALSE), due \in Maybe("phaseTimeout", FALSE),
        probe \in Probed,
        ready \in (IF env.phase \in {"", "Pending"} THEN BOOLEAN ELSE {TRUE}) :
        LET d == NextDecision(env, observeCluster(class, seen, ready, stuck, due, probe))
        IN ~Void(d) /\ Pass(d, class)
  /\ UNCHANGED <<present, pod, proc, archiveJob, latest, sentinel, totalDue,
                 budget, dirty, scoped>>

(* The object is gone once its finalizer is; its pod goes with it.         *)
RemoveFinalizer ==
  /\ present' = FALSE
  /\ pod' = [pod EXCEPT !.deleting = PodExists]
  /\ UNCHANGED <<rec, archiveJob>>

freezeForArchive ==
  /\ Pass(Decide("Freezing", TRUE, {"FreezePod"}), TRUE)
  /\ UNCHANGED <<present, pod, archiveJob>>

\* Mutant: a snapshot is taken for an archive.
ReconcileDeleteEarly ==
  /\ present /\ env.deleting /\ rec.pc = "idle"
  /\ IF env.archived \/ env.snapshot # NoSeq
     THEN RemoveFinalizer
     ELSE IF pod.phase = "Running"
     THEN freezeForArchive
     ELSE archiveJob' = TRUE /\ UNCHANGED <<present, pod, rec>>
  /\ UNCHANGED <<env, proc, latest, sentinel, totalDue, budget, dirty, scoped>>

\* Mutant: a running pod is frozen whether or not there is a snapshot.
ReconcileDeleteAlwaysFreezes ==
  /\ present /\ env.deleting /\ rec.pc = "idle"
  /\ IF env.archived
     THEN RemoveFinalizer
     ELSE IF pod.phase = "Running"
     THEN freezeForArchive
     ELSE archiveJob' = TRUE /\ UNCHANGED <<present, pod, rec>>
  /\ UNCHANGED <<env, proc, latest, sentinel, totalDue, budget, dirty, scoped>>

(* A deleted object is only let go when its archive is written, when its   *)
(* class is gone or keeps no archives, or by the annotation that forces    *)
(* it.  Before that, an agent home no snapshot holds is frozen out of a    *)
(* running pod.                                                            *)
ReconcileDelete ==
  /\ present /\ env.deleting /\ rec.pc = "idle"
  /\ \/ /\ \/ "escape" \in budget.events
           \/ env.archived
           \/ FALSE \in Maybe("classLost", TRUE)
           \/ Backend # "s3"
        /\ RemoveFinalizer
     \/ /\ ~env.archived /\ Backend = "s3"
        /\ env.snapshot = NoSeq /\ pod.phase = "Running"
        /\ freezeForArchive
     \/ /\ ~env.archived /\ Backend = "s3"
        /\ ~(env.snapshot = NoSeq /\ pod.phase = "Running")
        /\ archiveJob' = TRUE
        /\ UNCHANGED <<present, pod, rec>>
  /\ UNCHANGED <<env, proc, latest, sentinel, totalDue, budget, dirty, scoped>>

(* ensurePod leaves an existing pod alone, a terminating one too; a new    *)
(* pod restores the snapshot the pass read.                                *)
ensurePod ==
  IF rec.class /\ pod = NoPod
  THEN [NoPod EXCEPT !.phase = "Pending", !.restore = rec.seen.snapshot # NoSeq]
  ELSE pod

deletePod == [pod EXCEPT !.deleting = PodExists]

(* freezePod only matters when there is no pod left to take the snapshot:  *)
(* then it creates the recovery Job, unless a Job of that name is there.   *)
freezePod ==
  IF /\ rec.class /\ Backend = "s3"
     /\ ~SnapshotComplete(rec.seen)
     /\ ~PodExists \/ Terminated
     /\ proc["job"].stage = "off"
  THEN [proc EXCEPT !["job"].stage = "begin"]
  ELSE proc

PerformActions ==
  /\ rec.pc = "act"
  /\ rec' = [rec EXCEPT !.pc = "write"]
  /\ LET acts == rec.decision.actions
     IN /\ pod'  = IF "EnsurePod" \in acts THEN ensurePod
                   ELSE IF "DeletePod" \in acts THEN deletePod
                   ELSE pod
        /\ proc' = IF "FreezePod" \in acts THEN freezePod ELSE proc
        /\ archiveJob' = (archiveJob \/ ("Archive" \in acts /\ rec.class /\ Backend = "s3"))
  /\ UNCHANGED <<env, present, latest, sentinel, totalDue, budget, dirty, scoped>>

(* The fields of a fresh read that must still be those decided from.       *)
StaleDecision ==
  \/ ~present
  \/ env.generation # rec.seen.generation
  \/ env.phase # rec.seen.phase
  \/ env.waitFor # rec.seen.waitFor
  \/ (env.snapshot = NoSeq) # (rec.seen.snapshot = NoSeq)

WriteStatus ==
  /\ rec.pc = "write"
  /\ rec' = IdlePass
  /\ IF StaleDecision
     THEN UNCHANGED <<env, scoped>>
     ELSE /\ env' = Apply(env, rec.decision)
          /\ scoped' = IF env.phase # "Freezing" /\ env'.phase = "Freezing"
                       THEN /\ env.snapshot < env.freezeCount
                            /\ proc["job"].stage \in {"off", "done", "failed"}
                       ELSE scoped
  /\ UNCHANGED <<present, pod, proc, archiveJob, latest, sentinel, totalDue,
                 budget, dirty>>

(* An action fails, or the operator is restarted, before the write.        *)
AbortPass ==
  /\ rec.pc # "idle"
  /\ Fault("abort")
  /\ rec' = IdlePass
  /\ UNCHANGED <<env, present, pod, proc, archiveJob, latest, sentinel,
                 totalDue, dirty, scoped>>

TotalDeadline ==
  /\ "totalTimeout" \in budget.events /\ ~totalDue
  /\ totalDue' = TRUE
  /\ UNCHANGED <<env, present, rec, pod, proc, archiveJob, latest, sentinel,
                 budget, dirty, scoped>>

(* The scheduler reads the object again before it writes a grant.          *)
IsCandidate(e) == e.phase = "Ready" /\ ~e.suspend /\ ~e.deleting /\ ~e.granted

GrantSlot ==
  /\ present /\ IsCandidate(env)
  /\ env' = [env EXCEPT !.granted = TRUE]
  /\ UNCHANGED <<present, rec, pod, proc, archiveJob, latest, sentinel,
                 totalDue, budget, dirty, scoped>>

-----------------------------------------------------------------------------
(* The kubelet.  sandboxctl is a native sidecar: it is up before the       *)
(* restore init container, which is up before the agent, and it is told to *)
(* terminate when the pod is deleted or the agent container has exited.    *)

SidecarStart ==
  /\ pod.phase = "Pending" /\ ~pod.deleting
  /\ proc["sidecar"].stage = "off"
  /\ proc' = [proc EXCEPT !["sidecar"].stage = "idle"]
  /\ UNCHANGED <<env, present, rec, pod, archiveJob, latest, sentinel, totalDue,
                 budget, dirty, scoped>>

Restoring == /\ pod.phase = "Pending" /\ ~pod.deleting /\ pod.restore
             /\ proc["sidecar"].stage # "off"

(* The sentinel is the first thing the restore writes to the workspace;    *)
(* until then a hook takes the volume as the last pod left it.             *)
RestoreBegin ==
  /\ Restoring /\ ~sentinel
  /\ sentinel' = TRUE
  /\ UNCHANGED <<env, present, rec, pod, proc, archiveJob, latest, totalDue,
                 budget, dirty, scoped>>

RestoreDone ==
  /\ Restoring /\ sentinel
  /\ pod' = [pod EXCEPT !.restore = FALSE]
  /\ sentinel' = FALSE
  /\ UNCHANGED <<env, present, rec, proc, archiveJob, latest, totalDue, budget,
                 dirty, scoped>>

(* It fails before, under or, when its success cannot be recorded, after   *)
(* the sentinel.                                                           *)
RestoreFails ==
  /\ Restoring
  /\ Fault("restoreFails")
  /\ sentinel' \in {sentinel, FALSE}
  /\ pod' = [pod EXCEPT !.phase = "Failed", !.exit = "Failed"]
  /\ proc' = [proc EXCEPT !["sidecar"] = NoProc]
  /\ UNCHANGED <<env, present, rec, archiveJob, latest, totalDue, dirty, scoped>>

AgentStart ==
  /\ pod.phase = "Pending" /\ ~pod.deleting /\ ~pod.restore
  /\ proc["sidecar"].stage # "off"
  /\ pod' = [pod EXCEPT !.phase = "Running"]
  /\ UNCHANGED <<env, present, rec, proc, archiveJob, latest, sentinel,
                 totalDue, budget, dirty, scoped>>

PodBecomesReady ==
  /\ AgentUp /\ ~pod.ready /\ ~pod.deleting
  /\ pod' = [pod EXCEPT !.ready = TRUE]
  /\ UNCHANGED <<env, present, rec, proc, archiveJob, latest, sentinel,
                 totalDue, budget, dirty, scoped>>

(* All containers have exited.  The sidecar is given a bounded time for    *)
(* its last snapshot; when that is not enough it is abandoned where it is. *)
PodTerminates ==
  /\ pod.phase = "Running" /\ pod.exit # ""
  /\ pod' = [pod EXCEPT !.phase = pod.exit, !.ready = FALSE]
  /\ proc' = [proc EXCEPT !["sidecar"] = NoProc]
  /\ UNCHANGED <<env, present, rec, archiveJob, latest, sentinel, totalDue,
                 budget, dirty, scoped>>

PodGone ==
  /\ pod.deleting
  /\ pod' = NoPod
  /\ proc' = [proc EXCEPT !["sidecar"] = NoProc]
  /\ UNCHANGED <<env, present, rec, archiveJob, latest, sentinel, totalDue,
                 budget, dirty, scoped>>

Evict ==
  /\ PodExists /\ ~pod.deleting
  /\ Fault("evict")
  /\ pod' = [pod EXCEPT !.deleting = TRUE]
  /\ UNCHANGED <<env, present, rec, proc, archiveJob, latest, sentinel,
                 totalDue, dirty, scoped>>

-----------------------------------------------------------------------------
(* The agent, whose API is served by the sidecar until it has latched.     *)

SidecarServes == AgentUp /\ proc["sidecar"].stage = "idle"

\* A handler looks at the latch and then writes, with the latch closing or the
\* hook at work in between; the write reads the object again.
HandlerWrites == present /\ AgentUp /\ proc["sidecar"].stage # "off"

(* Work done once a freeze is in flight is not promised to survive it: the *)
(* sidecar has no handle on the agent, so it is not counted.               *)
AgentWork ==
  /\ SidecarServes /\ env.phase # "Freezing"
  /\ dirty' = TRUE
  /\ proc' = [p \in Hooks |-> [proc[p] EXCEPT !.captured = FALSE]]
  /\ UNCHANGED <<env, present, rec, pod, archiveJob, latest, sentinel, totalDue,
                 budget, scoped>>

DeclareWait ==
  /\ "wait" \in budget.events /\ env.freezeCount < budget.freezes
  /\ HandlerWrites /\ ~env.waitFor
  /\ env' = [env EXCEPT !.waitFor = TRUE]
  /\ UNCHANGED <<present, rec, pod, proc, archiveJob, latest, sentinel,
                 totalDue, budget, dirty, scoped>>

ReportDone ==
  /\ "done" \in budget.events
  /\ HandlerWrites /\ ~env.waitFor /\ env.result = "None"
  /\ \E outcome \in {"Succeeded", "Failed"} :
        env' = [env EXCEPT !.result = outcome]
  /\ UNCHANGED <<present, rec, pod, proc, archiveJob, latest, sentinel,
                 totalDue, budget, dirty, scoped>>

AgentExit ==
  /\ "exit" \in budget.events
  /\ AgentUp
  /\ \E outcome \in {"Succeeded", "Failed"} :
        pod' = [pod EXCEPT !.exit = outcome, !.ready = FALSE]
  /\ UNCHANGED <<env, present, rec, proc, archiveJob, latest, sentinel,
                 totalDue, budget, dirty, scoped>>

-----------------------------------------------------------------------------
(* The freeze hook, run by the sidecar and by the recovery Job.            *)

(* The latch closes on a poll that reads Freezing or on the signal to      *)
(* terminate, once in the life of the process.                             *)
LatchFreezing ==
  /\ proc["sidecar"].stage = "idle"
  /\ \/ present /\ env.phase = "Freezing"
     \/ pod.deleting
     \/ pod.exit # ""
  /\ proc' = [proc EXCEPT !["sidecar"].stage = "begin"]
  /\ UNCHANGED <<env, present, rec, pod, archiveJob, latest, sentinel, totalDue,
                 budget, dirty, scoped>>

\* A status write on an object that is gone does nothing.
StoreAttempt(seq, phase) ==
  env' = IF present THEN [env EXCEPT !.attemptSeq = seq, !.attempt = phase]
                    ELSE env

\* A hook that gives up: the sidecar stays latched, the Job may run again.
GivesUp(p) == IF p = "sidecar" THEN "done" ELSE "failed"

(* A freeze during a restore, or without an object store, is refused.      *)
(* Otherwise the snapshot takes the number of the freeze in flight, or the *)
(* one after latest.json when that is not behind.                          *)
HookBegin(p) ==
  /\ proc[p].stage = "begin" /\ (p = "job" => present)
  /\ IF sentinel \/ Backend = "pvc"
     THEN /\ StoreAttempt(env.freezeCount, "Failed")
          /\ proc' = [proc EXCEPT ![p].stage = GivesUp(p)]
     ELSE LET seq == IF latest >= env.freezeCount THEN latest + 1
                                                  ELSE env.freezeCount
          IN /\ StoreAttempt(seq, "InProgress")
             /\ proc' = [proc EXCEPT ![p].stage = "archive", ![p].seq = seq]
  /\ UNCHANGED <<present, rec, pod, archiveJob, latest, sentinel, totalDue,
                 budget, dirty, scoped>>

(* Tear down, archive, verify, then publish with latest.json last.         *)
HookArchive(p) ==
  /\ proc[p].stage = "archive"
  /\ proc' = [proc EXCEPT ![p].stage = "record", ![p].captured = TRUE]
  /\ latest' = proc[p].seq
  /\ UNCHANGED <<env, present, rec, pod, archiveJob, sentinel, totalDue, budget,
                 dirty, scoped>>

HookArchiveFails(p) ==
  /\ proc[p].stage = "archive"
  /\ Fault("uploadFails")
  /\ StoreAttempt(proc[p].seq, "Failed")
  /\ proc' = [proc EXCEPT ![p].stage = GivesUp(p)]
  /\ UNCHANGED <<present, rec, pod, archiveJob, latest, sentinel, totalDue,
                 dirty, scoped>>

\* Mutant: the last to write wins.
RecordSnapshotUnguarded(p) ==
  /\ proc[p].stage = "record"
  /\ env' = IF present THEN [env EXCEPT !.snapshot = proc[p].seq,
                                        !.attemptSeq = proc[p].seq,
                                        !.attempt = "Succeeded"] ELSE env
  /\ dirty' = (dirty /\ ~proc[p].captured)
  /\ proc' = [proc EXCEPT ![p].stage = "done"]
  /\ UNCHANGED <<present, rec, pod, archiveJob, latest, sentinel, totalDue,
                 budget, scoped>>

(* status.snapshot never goes back to an older snapshot.                   *)
RecordSnapshot(p) ==
  /\ proc[p].stage = "record"
  /\ IF present /\ env.snapshot <= proc[p].seq
     THEN /\ env' = [env EXCEPT !.snapshot = proc[p].seq,
                                !.attemptSeq = proc[p].seq,
                                !.attempt = "Succeeded"]
          /\ dirty' = (dirty /\ ~proc[p].captured)
          /\ proc' = [proc EXCEPT ![p].stage = "done"]
     ELSE /\ proc' = [proc EXCEPT ![p].stage = GivesUp(p)]
          /\ UNCHANGED <<env, dirty>>
  /\ UNCHANGED <<present, rec, pod, archiveJob, latest, sentinel, totalDue,
                 budget, scoped>>

(* The status write fails for good; nothing else is written.               *)
RecordSnapshotLost(p) ==
  /\ proc[p].stage = "record"
  /\ Fault("statusLost")
  /\ proc' = [proc EXCEPT ![p].stage = GivesUp(p)]
  /\ UNCHANGED <<env, present, rec, pod, archiveJob, latest, sentinel, totalDue,
                 dirty, scoped>>

(* The process dies.  The kubelet restarts the sidecar, unlatched, unless  *)
(* the pod is on its way out.                                              *)
Crash(p) ==
  /\ proc[p].stage \notin {"off", "failed"}
  /\ p = "job" => proc[p].stage # "done"
  /\ Fault("crash")
  /\ proc' = [proc EXCEPT ![p] = [NoProc EXCEPT !.stage =
                 IF p = "job" THEN "failed"
                 ELSE IF pod.deleting \/ pod.exit # "" THEN "done" ELSE "idle"]]
  /\ UNCHANGED <<env, present, rec, pod, archiveJob, latest, sentinel, totalDue,
                 dirty, scoped>>

(* The Job controller runs a failed Job again, as long as its owner lives. *)
JobRetry ==
  /\ present /\ proc["job"].stage = "failed"
  /\ proc' = [proc EXCEPT !["job"] = [NoProc EXCEPT !.stage = "begin"]]
  /\ UNCHANGED <<env, present, rec, pod, archiveJob, latest, sentinel, totalDue,
                 budget, dirty, scoped>>

(* A finished Job keeps its name until its time to live is over.           *)
JobExpires ==
  /\ proc["job"].stage \in {"done", "failed"}
  /\ proc' = [proc EXCEPT !["job"] = NoProc]
  /\ UNCHANGED <<env, present, rec, pod, archiveJob, latest, sentinel, totalDue,
                 budget, dirty, scoped>>

(* The archive is uploaded first and recorded last.                        *)
ArchiveJobRuns ==
  /\ archiveJob
  /\ archiveJob' = FALSE
  /\ env' = IF present THEN [env EXCEPT !.archived = TRUE] ELSE env
  /\ UNCHANGED <<present, rec, pod, proc, latest, sentinel, totalDue, budget,
                 dirty, scoped>>

ArchiveJobFails ==
  /\ archiveJob
  /\ Fault("uploadFails")
  /\ archiveJob' = FALSE
  /\ UNCHANGED <<env, present, rec, pod, proc, latest, sentinel, totalDue,
                 dirty, scoped>>

-----------------------------------------------------------------------------
(* The user.                                                               *)

ToggleSuspend ==
  /\ "suspend" \in budget.events /\ present /\ ~env.deleting
  /\ env.generation < budget.generation
  /\ env.freezeCount < budget.freezes \/ env.suspend
  /\ env' = [env EXCEPT !.suspend = ~@, !.generation = @ + 1]
  /\ UNCHANGED <<present, rec, pod, proc, archiveJob, latest, sentinel,
                 totalDue, budget, dirty, scoped>>

(* Without the finalizer the API server lets the object go at once.        *)
DeleteEnvironment ==
  /\ "delete" \in budget.events /\ present /\ ~env.deleting
  /\ env' = [env EXCEPT !.deleting = TRUE, !.generation = @ + 1]
  /\ present' = env.finalizer
  /\ UNCHANGED <<rec, pod, proc, archiveJob, latest, sentinel, totalDue, budget,
                 dirty, scoped>>

-----------------------------------------------------------------------------
Reconcile == BeginReconcile \/ ReconcileDelete \/ PerformActions \/ WriteStatus

Kubelet == \/ SidecarStart \/ RestoreBegin \/ RestoreDone \/ AgentStart
           \/ PodBecomesReady \/ PodTerminates \/ PodGone

HookStep(p) == HookBegin(p) \/ HookArchive(p) \/ RecordSnapshot(p)

World ==
  \/ AbortPass \/ RestoreFails \/ Evict \/ ArchiveJobFails
  \/ \E p \in Hooks : HookArchiveFails(p) \/ RecordSnapshotLost(p) \/ Crash(p)

Agent == AgentWork \/ DeclareWait \/ ReportDone \/ AgentExit

User == ToggleSuspend \/ DeleteEnvironment

Next ==
  \/ Reconcile \/ TotalDeadline \/ GrantSlot \/ Kubelet \/ Agent
  \/ LatchFreezing \/ JobRetry \/ JobExpires \/ ArchiveJobRuns
  \/ \E p \in Hooks : HookStep(p)
  \/ World \/ User

Spec == Init /\ [][Next]_vars

(* Every process keeps taking its steps; the agent and the user need not   *)
(* do anything, and nothing has to fail.                                   *)
Fairness ==
  /\ WF_vars(BeginReconcile) /\ WF_vars(ReconcileDelete)
  /\ WF_vars(PerformActions) /\ WF_vars(WriteStatus)
  /\ WF_vars(TotalDeadline) /\ WF_vars(GrantSlot) /\ WF_vars(Kubelet)
  /\ WF_vars(LatchFreezing)
  /\ \A p \in Hooks : WF_vars(HookStep(p))
  /\ WF_vars(JobExpires) /\ WF_vars(ArchiveJobRuns)

FairSpec == Spec /\ Fairness

-----------------------------------------------------------------------------
(* Properties.                                                             *)

(* The slot follows the phase whatever the order of the reconciler's, the  *)
(* scheduler's and the user's writes: an environment that is Restoring or  *)
(* Running holds its slot, one that is Freezing holds it unless the freeze *)
(* only serves the archive, and one in any phase but Ready that needs no   *)
(* slot holds none.                                                        *)
SlotFollowsPhase ==
  /\ env.phase \in {"Restoring", "Running"} => env.granted
  /\ env.phase = "Freezing" => env.granted \/ env.finished \/ env.deleting
  /\ env.phase \in {"", "Pending", "Waiting", "Done", "Failed"} => ~env.granted

(* What makes the slot rule inductive: a pass that is under way carries a  *)
(* decision that, if it is still allowed to be written, leaves the slot    *)
(* fitting the phase.  Only the pass itself can take back the grant it has *)
(* read.                                                                   *)
PassIsSound ==
  rec.pc # "idle" =>
    /\ rec.decision.phase \in {"Pending", "Waiting"} \cup TerminalPhases
         => ~rec.decision.slotWanted
    /\ rec.decision.phase \in {"Restoring", "Running"}
         => /\ rec.decision.slotWanted
            /\ rec.seen.phase \in {"Restoring", "Running"} \/ env.granted
    /\ rec.decision.phase = "Freezing"
         => \/ rec.decision.setFinishedAt \/ env.deleting
            \/ rec.seen.phase = "Running" /\ rec.decision.slotWanted
            \/ rec.seen.phase = "Freezing" /\ (rec.decision.slotWanted \/ env.finished)

IInv == TypeOK /\ SlotFollowsPhase /\ PassIsSound

(* A freeze that began with its snapshot still to take, and no recovery    *)
(* Job of an earlier one still at work, only ends when the agent's work is *)
(* in a recorded snapshot: no crash, eviction, failed upload or lost       *)
(* status write lets nextFreezing give the pod up early.                   *)
FreezeSavesWork ==
  [][env.phase = "Freezing" /\ env'.phase = "Waiting" /\ scoped => ~dirty]_vars

(* Once the outcome of the run is recorded it is never another: the freeze *)
(* detour through Freezing and Waiting comes back to the same outcome.     *)
OutcomeIsFinal ==
  [][env.terminalPhase # "" =>
       env'.phase \in {env.terminalPhase, "Freezing", "Waiting"}]_vars

(* A finished run is never started again: no pass creates a pod for it,    *)
(* although the detour puts it back into phases that lead to one.          *)
FinishedNeverRestarts ==
  [][env.finished /\ pod = NoPod => pod' = NoPod]_vars

(* With two processes that may record a snapshot, and a latest.json that   *)
(* can go backwards between them, status.snapshot never does.              *)
SnapshotNeverRegresses == [][env'.snapshot >= env.snapshot]_vars

(* Unless its class is gone or the annotation that gives up its data is    *)
(* set, an environment with a finalizer only disappears once its archive   *)
(* is written, whatever the Job and the pod went through before.           *)
ArchivedBeforeGone ==
  ~present /\ env.finalizer /\ budget.events \cap {"escape", "classLost"} = {}
    => env.archived

(* Seen from outside, the environment is the phase machine: whatever the   *)
(* races between the writers, each write is a step along the phase graph   *)
(* with the slot following the phase.                                      *)
Abstract == INSTANCE PhaseMachine WITH
  object <- [phase |-> env.phase, granted |-> env.granted,
             finished |-> env.finished, saved |-> env.snapshot # NoSeq,
             deleting |-> env.deleting]
RefinesPhaseMachine == Abstract!Spec

(* Left alone by failures, every environment is archived in the end, or    *)
(* deleted: no order of waits, suspensions, reports and timeouts parks it. *)
EventuallyArchived == <>(env.archived \/ ~present)

(* Every slot that is granted is given back.                               *)
SlotEventuallyFreed == env.granted ~> (~env.granted \/ ~present)

(* A finished run that went back to Freezing reaches its outcome again.    *)
DetourReturns ==
  (env.finished /\ env.phase = "Freezing") ~> (env.phase \in TerminalPhases \/ ~present)

(* Every deleted environment is let go.                                    *)
DeletionCompletes == env.deleting ~> ~present

(* Comments and documents that the code does not keep.                     *)

(* "The snapshot produced by freeze N (0-based) always carries Seq == N",  *)
(* so the freeze that ends has its own snapshot, with the work before it.  *)
EveryFreezeSavesWork ==
  [][env.phase = "Freezing" /\ env'.phase = "Waiting" => ~dirty]_vars
=============================================================================

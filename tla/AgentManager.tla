---------------------------- MODULE AgentManager ----------------------------
(***************************************************************************)
(* The agents of one docker-operator process: the records in its store,    *)
(* the containers, network and volumes they name on the Docker daemon, and *)
(* the threads that work on both.  A thread is an API request (create,     *)
(* update, stop, resume, delete), the reconcile pass of the process, or    *)
(* the ticker of the scheduled runs.  Requests and the pass hold an        *)
(* agent's ID in an in-memory registry while they work on it; the ticker's *)
(* "stop" policy and the goroutine that follows Docker's events do not.    *)
(*                                                                         *)
(* One step is one call that changes the daemon, or one transaction of the *)
(* store, with the reads beside it; an agent's three volumes, and what is  *)
(* done to its network at one end of its life, are one call each.          *)
(* Resource names are functions of the agent's ID, so a container is found *)
(* by its ID when the record has one (cid # 0) and by its name otherwise.  *)
(***************************************************************************)
EXTENDS Integers, FiniteSets, Sequences

CONSTANTS
  AgentIDs,   \* IDs that NewID may return
  Requests,   \* threads that serve API requests
  Scenarios   \* what may happen in a behaviour, and how often

Operations == {"create", "update", "stop", "resume", "delete", "scheduledStop"}
Threads == Requests \cup {"pass", "ticker"}

\* cap is MAX_AGENTS; agents bounds the creates, calls the requests, faults the
\* failing calls and wrong answers of the daemon, deaths the containers that
\* die by themselves, crashes the ends of the operator's process.
Budgets == [ops : SUBSET Operations, cap : Nat, agents : Nat, calls : Nat,
            faults : Nat, deaths : Nat, crashes : Nat, periodic : BOOLEAN]

ASSUME AgentAssumption ==
  /\ IsFiniteSet(AgentIDs)
  /\ {"pass", "ticker"} \cap Requests = {}
  /\ Scenarios \subseteq Budgets

VARIABLES
  mode,       \* of the process: down, boot (its first pass) or up
  rec,        \* the store: one record per agent
  agentBox,   \* the daemon: each agent's container,
  dindBox,    \*   its Docker-in-Docker sidecar,
  nets,       \*   the agents whose network exists,
  vols,       \*   and those whose three volumes exist
  minted,     \* container IDs given out, per agent
  refs,       \* the registry of operations in flight
  thread,     \* what each thread does
  pass,       \* the reconcile pass: its listing and what is left of it
  events,     \* exits of agent containers that are still to be handled
  listening,  \* the process follows Docker's events
  used,       \* IDs given out
  built,      \* history: agents whose create or first rebuild succeeded
  doomed,     \* history: agents a user asked to delete
  leaked,     \* history: agents whose rollback left something behind
  stale,      \* history: agents torn down by a pass that had listed another status
  budget      \* the scenario, with what may still happen

vars == <<mode, rec, agentBox, dindBox, nets, vols, minted, refs, thread, pass,
          events, listening, used, built, doomed, leaked, stale, budget>>

daemon == <<agentBox, dindBox, nets, vols, minted>>
history == <<used, built, doomed, leaked, stale>>

Statuses == {"absent", "creating", "running", "stopped", "error", "deleting", "updating"}
Records == [status : Statuses, cid : Nat, dind : Nat]
NoRecord == [status |-> "absent", cid |-> 0, dind |-> 0]

Boxes == [cid : Nat, state : {"none", "created", "running", "unhealthy", "exited"}]
NoBox == [cid |-> 0, state |-> "none"]

Steps == {"idle", "reserve", "volumes", "network", "ensureDind", "dindUp",
          "dindSettle", "dindStop", "dindRemove", "dindCreate", "dindStamp",
          "dindStart", "dindWait", "inspect", "shield", "stopOld", "remove",
          "clear", "agentCreate", "agentStamp", "agentStart", "tmux", "running",
          "stopAgent", "stopDind", "stopped", "teardownStopAgent",
          "teardownAgent", "teardownStopDind", "teardownDind", "teardownNet",
          "teardownVols", "teardownEnd"}

\* a is the thread's own copy of the record; failed, that a step went wrong
\* which the operation carries on after.
Frames == [op : Operations \cup {"none", "cleanup", "wake"}, pc : Steps,
           id : AgentIDs \cup {"none"}, a : Records, failed : BOOLEAN]
Idle == [op |-> "none", pc |-> "idle", id |-> "none", a |-> NoRecord, failed |-> FALSE]

Passes == [stage : {"off", "stuck", "wake"}, listed : [AgentIDs -> Records],
           todo : SUBSET AgentIDs]
NoPass == [stage |-> "off", listed |-> [i \in AgentIDs |-> NoRecord], todo |-> {}]

\* What Docker reports of a container that ended, as the statuses its events
\* ask for: a die for error and, if it was stopped, a stop for stopped.
Died == {"error"}
WasStopped == {"error", "stopped"}
Exits == [id : AgentIDs, cid : Nat, marks : {{"stopped"}, Died, WasStopped}]

TypeOK ==
  /\ mode \in {"down", "boot", "up"}
  /\ rec \in [AgentIDs -> Records]
  /\ agentBox \in [AgentIDs -> Boxes]
  /\ dindBox \in [AgentIDs -> Boxes]
  /\ nets \subseteq AgentIDs
  /\ vols \subseteq AgentIDs
  /\ minted \in [AgentIDs -> Nat]
  /\ refs \in [AgentIDs -> Nat]
  /\ thread \in [Threads -> Frames]
  /\ pass \in Passes
  /\ events \in Seq(Exits)
  /\ listening \in BOOLEAN
  /\ used \subseteq AgentIDs
  /\ built \subseteq AgentIDs
  /\ doomed \subseteq AgentIDs
  /\ leaked \subseteq AgentIDs
  /\ stale \subseteq AgentIDs
  /\ budget \in Budgets

Init ==
  /\ mode = "down"
  /\ rec = [i \in AgentIDs |-> NoRecord]
  /\ agentBox = [i \in AgentIDs |-> NoBox]
  /\ dindBox = [i \in AgentIDs |-> NoBox]
  /\ nets = {}
  /\ vols = {}
  /\ minted = [i \in AgentIDs |-> 0]
  /\ refs = [i \in AgentIDs |-> 0]
  /\ thread = [t \in Threads |-> Idle]
  /\ pass = NoPass
  /\ events = <<>>
  /\ listening = FALSE
  /\ used = {}
  /\ built = {}
  /\ doomed = {}
  /\ leaked = {}
  /\ stale = {}
  /\ budget \in Scenarios

-----------------------------------------------------------------------------
(* internal/store                                                          *)

Exists(id) == rec[id].status # "absent"

CountsTowardCapacity(status) == status \in {"creating", "running", "updating"}

countReserved == Cardinality({i \in AgentIDs : CountsTowardCapacity(rec[i].status)})

-----------------------------------------------------------------------------
(* internal/agent/inflight.go                                              *)

\* Mutant: the caller does not look whether the ID is held.
tryBeginAlways(id) == refs' = [refs EXCEPT ![id] = 1]

tryBegin(id) == refs[id] = 0 /\ refs' = [refs EXCEPT ![id] = 1]

\* Mutant: an operation releases once more on its way out, and the release
\* of an ID that is not held is no longer a no-op.
releaseTwice(id) == refs' = [refs EXCEPT ![id] = @ - 2]

release(id) == refs' = [refs EXCEPT ![id] = IF @ > 0 THEN @ - 1 ELSE 0]

-----------------------------------------------------------------------------
(* Threads.                                                                *)

At(t, pc) == thread[t].pc = pc

Goto(t, pc) == thread' = [thread EXCEPT ![t].pc = pc]

Begin(t, op, pc, id, a) ==
  thread' = [thread EXCEPT ![t] = [op |-> op, pc |-> pc, id |-> id, a |-> a,
                                   failed |-> FALSE]]

\* The operation returns and its deferred release runs.
Return(t) == thread' = [thread EXCEPT ![t] = Idle] /\ release(thread[t].id)

\* A call fails by itself.
Fault == budget.faults > 0 /\ budget' = [budget EXCEPT !.faults = @ - 1]

(* failUpdate and markRebuildError: the record is in error, without its    *)
(* container's ID, and its volumes are left alone.                         *)
MarkError(id) ==
  rec' = IF Exists(id)
           THEN [rec EXCEPT ![id].status = "error", ![id].cid = 0]
           ELSE rec

(* What a failing step does to its operation: a create is rolled back, an  *)
(* update or a rebuild is settled in error.                                *)
Fail(t) ==
  IF thread[t].op = "create"
    THEN Goto(t, "teardownStopAgent") /\ UNCHANGED <<rec, refs>>
    ELSE MarkError(thread[t].id) /\ Return(t)

-----------------------------------------------------------------------------
(* The daemon, as the operator uses it.                                    *)

\* The container that a reference names: by ID, or by name without one.
Names(box, cid) == box.cid # 0 /\ cid \in {0, box.cid}

\* The end of an agent's container makes events for the process to handle.
Exit(id, marks) ==
  events' = IF listening /\ agentBox[id].state = "running"
              THEN Append(events, [id |-> id, cid |-> agentBox[id].cid, marks |-> marks])
              ELSE events

StopBox(box) ==
  IF box.state \in {"running", "unhealthy"} THEN [box EXCEPT !.state = "exited"] ELSE box

NewBox(id) == [cid |-> minted[id] + 1, state |-> "created"]

(* ContainerStop and ContainerRemove, of each of the two containers.  What *)
(* is not there is stopped and removed already; a removal is forced, and   *)
(* kills a container that runs.                                            *)
StopAgentBox(id, cid) ==
  IF Names(agentBox[id], cid)
    THEN Exit(id, WasStopped) /\ agentBox' = [agentBox EXCEPT ![id] = StopBox(@)]
    ELSE UNCHANGED <<events, agentBox>>

RemoveAgentBox(id, cid) ==
  IF Names(agentBox[id], cid)
    THEN Exit(id, Died) /\ agentBox' = [agentBox EXCEPT ![id] = NoBox]
    ELSE UNCHANGED <<events, agentBox>>

StopDindBox(id, cid) ==
  dindBox' = IF Names(dindBox[id], cid)
               THEN [dindBox EXCEPT ![id] = StopBox(@)] ELSE dindBox

RemoveDindBox(id, cid) ==
  dindBox' = IF Names(dindBox[id], cid) THEN [dindBox EXCEPT ![id] = NoBox] ELSE dindBox

-----------------------------------------------------------------------------
(* Create.                                                                 *)

\* A request of this kind may still arrive.
Request(t, op) ==
  /\ mode = "up" /\ At(t, "idle")
  /\ op \in budget.ops /\ budget.calls > 0
  /\ budget' = [budget EXCEPT !.calls = @ - 1]

(* The ID is registered before its record can be listed.                   *)
CreateBegin(t) ==
  /\ Request(t, "create")
  /\ Cardinality(used) < budget.agents
  /\ \E id \in AgentIDs \ used :
       /\ used' = used \cup {id}
       /\ refs' = [refs EXCEPT ![id] = @ + 1]
       /\ Begin(t, "create", "reserve", id, NoRecord)
  /\ UNCHANGED <<mode, rec, daemon, pass, events, listening, built, doomed, leaked, stale>>


(* The record is inserted if there is room; the request is refused if      *)
(* there is none, or if one of its fields is not valid.                    *)
CreateReserve(t) ==
  /\ At(t, "reserve")
  /\ LET id == thread[t].id
         a  == [status |-> "creating", cid |-> 0, dind |-> 0]
     IN  \/ /\ countReserved < budget.cap
            /\ rec' = [rec EXCEPT ![id] = a]
            /\ thread' = [thread EXCEPT ![t].pc = "volumes", ![t].a = a]
            /\ UNCHANGED refs
         \/ Return(t) /\ UNCHANGED rec
  /\ UNCHANGED <<mode, daemon, pass, events, listening, history, budget>>

CreateVolumes(t) ==
  /\ At(t, "volumes")
  /\ vols' = vols \cup {thread[t].id}
  /\ Goto(t, "network")
  /\ UNCHANGED <<mode, rec, agentBox, dindBox, nets, minted, refs, pass, events,
                 listening, history, budget>>

CreateDinernet(t) ==
  /\ At(t, "network")
  /\ nets' = nets \cup {thread[t].id}
  /\ Goto(t, "dindCreate")
  /\ UNCHANGED <<mode, rec, agentBox, dindBox, vols, minted, refs, pass, events,
                 listening, history, budget>>

-----------------------------------------------------------------------------
(* The sidecar: ensureDindRunning, recreateDind and startDind.             *)

AfterDind(op) ==
  CASE op = "create" -> "agentCreate"
    [] op = "update" -> "stopOld"
    [] op = "resume" -> "shield"
    [] op = "wake"   -> "inspect"

(* A sidecar that stopped is started, one that is unhealthy is replaced;   *)
(* one that is not there is an error.                                      *)
EnsureDind(t) ==
  /\ At(t, "ensureDind")
  /\ LET box == dindBox[thread[t].id]
     IN  IF Names(box, thread[t].a.dind)
           THEN /\ Goto(t, CASE box.state = "unhealthy" -> "dindStop"
                             [] box.state = "running"   -> AfterDind(thread[t].op)
                             [] OTHER                   -> "dindUp")
                /\ UNCHANGED <<rec, refs>>
           ELSE Fail(t)
  /\ UNCHANGED <<mode, daemon, pass, events, listening, history, budget>>

\* ContainerStart of the sidecar a; none starts on a network that is gone.
StartDindBox(t, next) ==
  LET id == thread[t].id
  IN  IF Names(dindBox[id], thread[t].a.dind) /\ id \in nets
        THEN /\ dindBox' = [dindBox EXCEPT ![id].state = "running"]
             /\ Goto(t, next)
             /\ UNCHANGED <<rec, refs>>
        ELSE Fail(t) /\ UNCHANGED dindBox

DindUp(t) ==
  /\ At(t, "dindUp")
  /\ StartDindBox(t, "dindSettle")
  /\ UNCHANGED <<mode, agentBox, nets, vols, minted, pass, events, listening,
                 history, budget>>

(* waitHealthy on the sidecar that was there: if it exits it is started    *)
(* again while there are retries, and it is replaced if nothing helps.     *)
DindSettle(t) ==
  /\ At(t, "dindSettle")
  /\ LET box == dindBox[thread[t].id]
     IN  \/ box.state = "running" /\ Goto(t, AfterDind(thread[t].op))
         \/ box.state = "exited" /\ Goto(t, "dindUp")
         \/ box.state # "running" /\ Goto(t, "dindStop")
  /\ UNCHANGED <<mode, rec, daemon, refs, pass, events, listening, history, budget>>

\* It runs and does not get healthy in time.
DindWontStart(t) ==
  /\ At(t, "dindSettle")
  /\ dindBox[thread[t].id].state = "running"
  /\ Fault
  /\ Goto(t, "dindStop")
  /\ UNCHANGED <<mode, rec, daemon, refs, pass, events, listening, history>>

(* Its stop and its removal are both tried; if either fails it is not      *)
(* created again.                                                          *)
RecreateDind(t) ==
  /\ LET id == thread[t].id
         a  == thread[t].a
     IN  \/ /\ At(t, "dindStop")
            /\ StopDindBox(id, a.dind)
            /\ Goto(t, "dindRemove")
            /\ UNCHANGED <<rec, refs>>
         \/ /\ At(t, "dindRemove")
            /\ RemoveDindBox(id, a.dind)
            /\ IF thread[t].failed
                 THEN Fail(t) ELSE Goto(t, "dindCreate") /\ UNCHANGED <<rec, refs>>
  /\ UNCHANGED <<mode, agentBox, nets, vols, minted, pass, events, listening,
                 history, budget>>

\* The daemon refuses a name that is taken.
DindCreate(t) ==
  /\ At(t, "dindCreate")
  /\ LET id == thread[t].id
     IN  IF dindBox[id].cid # 0
           THEN Fail(t) /\ UNCHANGED <<dindBox, minted>>
           ELSE /\ dindBox' = [dindBox EXCEPT ![id] = NewBox(id)]
                /\ minted' = [minted EXCEPT ![id] = @ + 1]
                /\ Goto(t, "dindStamp")
                /\ UNCHANGED <<rec, refs>>
  /\ UNCHANGED <<mode, agentBox, nets, vols, pass, events, listening, history, budget>>

DindStamp(t) ==
  /\ At(t, "dindStamp")
  /\ LET id == thread[t].id
     IN  IF Exists(id)
           THEN /\ rec' = [rec EXCEPT ![id].dind = dindBox[id].cid]
                /\ thread' = [thread EXCEPT ![t].pc = "dindStart",
                                            ![t].a.dind = dindBox[id].cid]
                /\ UNCHANGED refs
           ELSE Fail(t)
  /\ UNCHANGED <<mode, daemon, pass, events, listening, history, budget>>

DindStart(t) ==
  /\ At(t, "dindStart")
  /\ StartDindBox(t, "dindWait")
  /\ UNCHANGED <<mode, agentBox, nets, vols, minted, pass, events, listening,
                 history, budget>>

(* waitHealthy on a new sidecar; a create then connects the shared         *)
(* dependaproxy to the agent's network.                                    *)
DindWait(t) ==
  /\ At(t, "dindWait")
  /\ LET id == thread[t].id
     IN  IF /\ dindBox[id].state = "running"
            /\ thread[t].op = "create" => id \in nets /\ Exists(id)
           THEN Goto(t, AfterDind(thread[t].op)) /\ UNCHANGED <<rec, refs>>
           ELSE Fail(t)
  /\ UNCHANGED <<mode, daemon, pass, events, listening, history, budget>>

-----------------------------------------------------------------------------
(* The agent's own container: wakeAgent, rebuildAgentContainer and the     *)
(* tail of Create and Update.                                              *)

\* Mutant: a wake only looks whether the container is there.
InspectExists(t) ==
  /\ At(t, "inspect")
  /\ IF Names(agentBox[thread[t].id], thread[t].a.cid)
       THEN Return(t) /\ UNCHANGED rec
       ELSE Fail(t)
  /\ UNCHANGED <<mode, daemon, pass, events, listening, history, budget>>

(* A wake leaves a container alone that runs.                              *)
Inspect(t) ==
  /\ At(t, "inspect")
  /\ LET id  == thread[t].id
         box == agentBox[id]
     IN  CASE ~Names(box, thread[t].a.cid) -> Fail(t)
           [] Names(box, thread[t].a.cid) /\ box.state = "running" ->
                Return(t) /\ UNCHANGED rec
           [] OTHER -> Goto(t, "shield") /\ UNCHANGED <<rec, refs>>
  /\ UNCHANGED <<mode, daemon, pass, events, listening, history, budget>>

ShieldFrom(op) == IF op = "wake" THEN "running" ELSE "stopped"

(* markShielded: the record is read again, and the operation stands down   *)
(* if another one has changed its status.                                  *)
Shield(t) ==
  /\ At(t, "shield")
  /\ LET id == thread[t].id
     IN  IF rec[id].status = ShieldFrom(thread[t].op)
           THEN /\ rec' = [rec EXCEPT ![id].status = "updating"]
                /\ Goto(t, "stopOld")
                /\ UNCHANGED refs
           ELSE Return(t) /\ UNCHANGED rec
  /\ UNCHANGED <<mode, daemon, pass, events, listening, history, budget>>

(* The removal is tried even if the stop failed, and then that is the end. *)
RemoveAgentContainer(t) ==
  /\ LET id == thread[t].id
         a  == thread[t].a
     IN  \/ /\ At(t, "stopOld")
            /\ StopAgentBox(id, a.cid)
            /\ Goto(t, "remove")
            /\ UNCHANGED <<rec, refs>>
         \/ /\ At(t, "remove")
            /\ RemoveAgentBox(id, a.cid)
            /\ IF thread[t].failed
                 THEN Fail(t)
                 ELSE /\ Goto(t, IF thread[t].op = "update" THEN "clear" ELSE "agentCreate")
                      /\ UNCHANGED <<rec, refs>>
  /\ UNCHANGED <<mode, dindBox, nets, vols, minted, pass, listening, history, budget>>

\* Only an update writes its new settings, and with them an empty ID.
RecordUpdate(t) ==
  /\ At(t, "clear")
  /\ LET id == thread[t].id
     IN  IF Exists(id)
           THEN /\ rec' = [rec EXCEPT ![id].cid = 0]
                /\ thread' = [thread EXCEPT ![t].pc = "agentCreate", ![t].a.cid = 0]
                /\ UNCHANGED refs
           ELSE Fail(t)
  /\ UNCHANGED <<mode, daemon, pass, events, listening, history, budget>>

AgentCreate(t) ==
  /\ At(t, "agentCreate")
  /\ LET id == thread[t].id
     IN  IF agentBox[id].cid # 0
           THEN Fail(t) /\ UNCHANGED <<agentBox, minted>>
           ELSE /\ agentBox' = [agentBox EXCEPT ![id] = NewBox(id)]
                /\ minted' = [minted EXCEPT ![id] = @ + 1]
                /\ Goto(t, "agentStamp")
                /\ UNCHANGED <<rec, refs>>
  /\ UNCHANGED <<mode, dindBox, nets, vols, pass, events, listening, history, budget>>

AgentStamp(t) ==
  /\ At(t, "agentStamp")
  /\ LET id == thread[t].id
     IN  IF Exists(id)
           THEN /\ rec' = [rec EXCEPT ![id].cid = agentBox[id].cid]
                /\ thread' = [thread EXCEPT ![t].pc = "agentStart",
                                            ![t].a.cid = agentBox[id].cid]
                /\ UNCHANGED refs
           ELSE Fail(t)
  /\ UNCHANGED <<mode, daemon, pass, events, listening, history, budget>>

\* A container cannot start on a network that is gone.
AgentStart(t) ==
  /\ At(t, "agentStart")
  /\ LET id == thread[t].id
     IN  IF id \in nets
           THEN /\ agentBox' = [agentBox EXCEPT ![id].state = "running"]
                /\ Goto(t, "tmux")
                /\ UNCHANGED <<rec, refs>>
           ELSE Fail(t) /\ UNCHANGED agentBox
  /\ UNCHANGED <<mode, dindBox, nets, vols, minted, pass, events, listening,
                 history, budget>>

\* The session answers, or the container has died and it never will.
WaitTmuxSession(t) ==
  /\ At(t, "tmux")
  /\ IF agentBox[thread[t].id].state = "running"
       THEN Goto(t, "running") /\ UNCHANGED <<rec, refs>>
       ELSE Fail(t)
  /\ UNCHANGED <<mode, daemon, pass, events, listening, history, budget>>

MarkRunning(t) ==
  /\ At(t, "running")
  /\ LET id == thread[t].id
     IN  IF Exists(id)
           THEN /\ rec' = [rec EXCEPT ![id].status = "running"]
                /\ built' = built \cup {id}
                /\ Return(t)
           ELSE Fail(t) /\ UNCHANGED built
  /\ UNCHANGED <<mode, daemon, pass, events, listening, used, doomed, leaked, stale, budget>>

\* The steps after which a failing call ends the operation.
FailingSteps == {"volumes", "network", "ensureDind", "dindUp", "dindRemove",
                 "dindCreate", "dindStamp", "dindStart", "dindWait", "inspect",
                 "shield", "remove", "clear", "agentCreate", "agentStamp",
                 "agentStart", "tmux", "running"}

CallFails(t) ==
  /\ thread[t].pc \in FailingSteps
  /\ Fault
  /\ Fail(t)
  /\ UNCHANGED <<mode, daemon, pass, events, listening, history>>

-----------------------------------------------------------------------------
(* Update, Resume and Stop.                                                *)

updatableStatus(status) == status \in {"running", "stopped", "error"}

\* Mutant: the record still says running while its container is replaced.
UpdateBeginUnshielded(t) ==
  /\ Request(t, "update")
  /\ \E id \in AgentIDs :
       /\ updatableStatus(rec[id].status)
       /\ tryBegin(id)
       /\ Begin(t, "update", "ensureDind", id, rec[id])
  /\ UNCHANGED <<mode, rec, daemon, pass, events, listening, history>>

UpdateBegin(t) ==
  /\ Request(t, "update")
  /\ \E id \in AgentIDs :
       /\ updatableStatus(rec[id].status)
       /\ tryBegin(id)
       /\ rec' = [rec EXCEPT ![id].status = "updating"]
       /\ Begin(t, "update", "ensureDind", id, rec[id])
  /\ UNCHANGED <<mode, daemon, pass, events, listening, history>>

(* The sidecar is brought up while the record still says stopped.          *)
ResumeBegin(t) ==
  /\ Request(t, "resume")
  /\ \E id \in AgentIDs :
       /\ rec[id].status = "stopped"
       /\ tryBegin(id)
       /\ Begin(t, "resume", "ensureDind", id, rec[id])
  /\ UNCHANGED <<mode, rec, daemon, pass, events, listening, history>>

StopBegin(t) ==
  /\ Request(t, "stop")
  /\ \E id \in AgentIDs :
       /\ rec[id].status = "running"
       /\ tryBegin(id)
       /\ rec' = [rec EXCEPT ![id].status = "updating"]
       /\ Begin(t, "stop", "stopAgent", id, rec[id])
  /\ UNCHANGED <<mode, daemon, pass, events, listening, history>>

(* A scheduled run is over and its policy says "stop": the ticker writes   *)
(* the status and stops both containers by name, unregistered.             *)
ScheduledStop(t) ==
  /\ t = "ticker"
  /\ Request(t, "scheduledStop")
  /\ \E id \in built :
       /\ Exists(id)
       /\ rec' = [rec EXCEPT ![id].status = "stopped"]
       /\ Begin(t, "scheduledStop", "stopAgent", id, NoRecord)
  /\ UNCHANGED <<mode, daemon, refs, pass, events, listening, history>>

StopAgentContainer(t) ==
  /\ At(t, "stopAgent")
  /\ StopAgentBox(thread[t].id, thread[t].a.cid)
  /\ Goto(t, "stopDind")
  /\ UNCHANGED <<mode, rec, dindBox, nets, vols, minted, refs, pass, listening,
                 history, budget>>

StopDindContainer(t) ==
  /\ At(t, "stopDind")
  /\ StopDindBox(thread[t].id, thread[t].a.dind)
  /\ Goto(t, "stopped")
  /\ UNCHANGED <<mode, rec, agentBox, nets, vols, minted, refs, pass, events,
                 listening, history, budget>>

\* Whatever comes after a ContainerStop is done even if it failed.
AfterStop ==
  [stopAgent |-> "stopDind", stopDind |-> "stopped", stopOld |-> "remove",
   dindStop |-> "dindRemove", teardownStopAgent |-> "teardownAgent",
   teardownStopDind |-> "teardownDind"]

StopFails(t) ==
  /\ thread[t].pc \in DOMAIN AfterStop
  /\ Fault
  /\ thread' = [thread EXCEPT ![t].failed = TRUE, ![t].pc = AfterStop[@]]
  /\ UNCHANGED <<mode, rec, daemon, refs, pass, events, listening, history>>

StopEnd(t) ==
  /\ At(t, "stopped")
  /\ LET id == thread[t].id
     IN  IF thread[t].op = "stop"
           THEN /\ rec' = IF Exists(id)
                            THEN [rec EXCEPT ![id].status =
                                    IF thread[t].failed THEN "error" ELSE "stopped"]
                            ELSE rec
                /\ Return(t)
           ELSE thread' = [thread EXCEPT ![t] = Idle] /\ UNCHANGED <<rec, refs>>
  /\ UNCHANGED <<mode, daemon, pass, events, listening, history, budget>>

-----------------------------------------------------------------------------
(* Delete, and the teardown it shares with a create's rollback and the     *)
(* reconcile pass.  An error does not end a teardown.                      *)

DeleteBegin(t) ==
  /\ Request(t, "delete")
  /\ \E id \in AgentIDs :
       /\ Exists(id)
       /\ tryBegin(id)
       /\ rec' = [rec EXCEPT ![id].status = "deleting"]
       /\ doomed' = doomed \cup {id}
       /\ Begin(t, "delete", "teardownStopAgent", id, rec[id])
  /\ UNCHANGED <<mode, daemon, pass, events, listening, used, built, leaked, stale>>

TeardownAgent(t) ==
  /\ LET id  == thread[t].id
         cid == thread[t].a.cid
     IN  \/ At(t, "teardownStopAgent") /\ StopAgentBox(id, cid) /\ Goto(t, "teardownAgent")
         \/ At(t, "teardownAgent") /\ RemoveAgentBox(id, cid) /\ Goto(t, "teardownStopDind")
  /\ UNCHANGED <<mode, rec, dindBox, nets, vols, minted, refs, pass, listening,
                 history, budget>>

TeardownDind(t) ==
  /\ LET id  == thread[t].id
         cid == thread[t].a.dind
     IN  \/ At(t, "teardownStopDind") /\ StopDindBox(id, cid) /\ Goto(t, "teardownDind")
         \/ At(t, "teardownDind") /\ RemoveDindBox(id, cid) /\ Goto(t, "teardownNet")
  /\ UNCHANGED <<mode, rec, agentBox, nets, vols, minted, refs, pass, events,
                 listening, history, budget>>

\* The daemon keeps a network while a running container is attached to it.
TeardownNet(t) ==
  /\ At(t, "teardownNet")
  /\ LET id   == thread[t].id
         free == \A box \in {agentBox[id], dindBox[id]} :
                   box.state \notin {"running", "unhealthy"}
     IN  /\ nets' = IF free THEN nets \ {id} ELSE nets
         /\ thread' = [thread EXCEPT ![t].pc = "teardownVols",
                                     ![t].failed = @ \/ ~free]
  /\ UNCHANGED <<mode, rec, agentBox, dindBox, vols, minted, refs, pass, events,
                 listening, history, budget>>

\* And a volume while any container refers to it.
TeardownVols(t) ==
  /\ At(t, "teardownVols")
  /\ LET id   == thread[t].id
         free == agentBox[id].cid = 0 /\ dindBox[id].cid = 0
     IN  /\ vols' = IF free THEN vols \ {id} ELSE vols
         /\ thread' = [thread EXCEPT ![t].pc = "teardownEnd",
                                     ![t].failed = @ \/ ~free]
  /\ UNCHANGED <<mode, rec, agentBox, dindBox, nets, minted, refs, pass, events,
                 listening, history, budget>>

AfterTeardown ==
  [teardownAgent |-> "teardownStopDind", teardownDind |-> "teardownNet",
   teardownNet |-> "teardownVols", teardownVols |-> "teardownEnd"]

TeardownFails(t) ==
  /\ thread[t].pc \in DOMAIN AfterTeardown
  /\ Fault
  /\ thread' = [thread EXCEPT ![t].failed = TRUE, ![t].pc = AfterTeardown[@]]
  /\ UNCHANGED <<mode, rec, daemon, refs, pass, events, listening, history>>

\* Mutant: the record goes whatever the teardown left behind.
TeardownEndForgets(t) ==
  /\ At(t, "teardownEnd")
  /\ LET id == thread[t].id
     IN  /\ rec' = [rec EXCEPT ![id] = NoRecord]
         /\ leaked' = IF thread[t].failed /\ thread[t].op = "create"
                        THEN leaked \cup {id} ELSE leaked
         /\ Return(t)
  /\ UNCHANGED <<mode, daemon, pass, events, listening, used, built, doomed, stale, budget>>

(* The record survives what could not be removed; a rollback gives the     *)
(* slot back in any case.                                                  *)
TeardownEnd(t) ==
  /\ At(t, "teardownEnd")
  /\ LET id == thread[t].id
     IN  /\ rec' = IF thread[t].failed /\ thread[t].op # "create"
                     THEN rec ELSE [rec EXCEPT ![id] = NoRecord]
         /\ leaked' = IF thread[t].failed /\ thread[t].op = "create"
                        THEN leaked \cup {id} ELSE leaked
         /\ Return(t)
  /\ UNCHANGED <<mode, daemon, pass, events, listening, used, built, doomed, stale, budget>>

\* The record of what was removed cannot be deleted: the next pass sees it.
StoreDeleteFails(t) ==
  /\ At(t, "teardownEnd")
  /\ ~thread[t].failed \/ thread[t].op = "create"
  /\ Fault
  /\ Return(t)
  /\ UNCHANGED <<mode, rec, daemon, pass, events, listening, history>>

-----------------------------------------------------------------------------
(* Reconcile, at startup and then, where budget.periodic says so, on its   *)
(* ticker.  The records are listed once; what is done to each is decided   *)
(* by its status in that listing.                                          *)

\* Mutants: an update, or a delete, that was cut short is not looked for.
mayBeStuckButUpdating(status) == status \in {"creating", "deleting"}
mayBeStuckButDeleting(status) == status \in {"creating", "updating"}

mayBeStuck(status) == status \in {"updating", "creating", "deleting"}

Listed(statuses) == {i \in AgentIDs : pass.listed[i].status \in statuses}

PassBegin ==
  /\ mode = "boot" \/ (mode = "up" /\ budget.periodic)
  /\ pass.stage = "off"
  /\ pass' = [stage |-> "stuck", listed |-> rec,
              todo |-> {i \in AgentIDs : mayBeStuck(rec[i].status)}]
  /\ UNCHANGED <<mode, rec, daemon, refs, thread, events, listening, history, budget>>

\* The daemon's own resources cannot be listed: the pass is given up.
PassFails ==
  /\ mode = "boot" \/ (mode = "up" /\ budget.periodic)
  /\ pass.stage = "off"
  /\ Fault
  /\ mode' = "up"
  /\ listening' = (listening \/ mode = "boot")
  /\ UNCHANGED <<rec, daemon, refs, thread, pass, events, history>>

\* An operation is in flight: the record is left to it.
PassSkip ==
  /\ pass.stage # "off" /\ At("pass", "idle")
  /\ \E id \in pass.todo :
       /\ refs[id] > 0
       /\ pass' = [pass EXCEPT !.todo = @ \ {id}]
  /\ UNCHANGED <<mode, rec, daemon, refs, thread, events, listening, history, budget>>

\* Mutant: an interrupted update is torn down like an interrupted create.
PassCleanupAll ==
  /\ pass.stage = "stuck" /\ At("pass", "idle")
  /\ \E id \in pass.todo :
       /\ tryBegin(id)
       /\ pass' = [pass EXCEPT !.todo = @ \ {id}]
       /\ Begin("pass", "cleanup", "teardownStopAgent", id, pass.listed[id])
  /\ UNCHANGED <<mode, rec, daemon, events, listening, history, budget>>

(* An update that was cut short is marked, its volumes are kept; a create  *)
(* or a delete that was cut short is torn down.                            *)
PassCleanup ==
  /\ pass.stage = "stuck" /\ At("pass", "idle")
  /\ \E id \in pass.todo :
       /\ pass' = [pass EXCEPT !.todo = @ \ {id}]
       /\ IF pass.listed[id].status = "updating"
            THEN /\ refs[id] = 0
                 /\ rec' = IF Exists(id) THEN [rec EXCEPT ![id].status = "error"] ELSE rec
                 /\ UNCHANGED <<refs, thread, stale>>
            ELSE /\ tryBegin(id)
                 /\ Begin("pass", "cleanup", "teardownStopAgent", id, pass.listed[id])
                 /\ stale' = IF rec[id].status = pass.listed[id].status
                               THEN stale ELSE stale \cup {id}
                 /\ UNCHANGED rec
  /\ UNCHANGED <<mode, daemon, events, listening, used, built, doomed, leaked, budget>>

PassTurn ==
  /\ pass.stage = "stuck" /\ At("pass", "idle") /\ pass.todo = {}
  /\ pass' = [pass EXCEPT !.stage = "wake", !.todo = Listed({"running"})]
  /\ UNCHANGED <<mode, rec, daemon, refs, thread, events, listening, history, budget>>

\* Mutant: the wake takes its reference whether or not one is held.
PassWakeUnregistered ==
  /\ pass.stage = "wake" /\ At("pass", "idle")
  /\ \E id \in pass.todo :
       /\ refs' = [refs EXCEPT ![id] = @ + 1]
       /\ pass' = [pass EXCEPT !.todo = @ \ {id}]
       /\ Begin("pass", "wake", "ensureDind", id, pass.listed[id])
  /\ UNCHANGED <<mode, rec, daemon, events, listening, history, budget>>

PassWake ==
  /\ pass.stage = "wake" /\ At("pass", "idle")
  /\ \E id \in pass.todo :
       /\ tryBegin(id)
       /\ pass' = [pass EXCEPT !.todo = @ \ {id}]
       /\ Begin("pass", "wake", "ensureDind", id, pass.listed[id])
  /\ UNCHANGED <<mode, rec, daemon, events, listening, history, budget>>

(* After the first pass the process follows Docker's events and serves.    *)
PassEnd ==
  /\ pass.stage = "wake" /\ At("pass", "idle") /\ pass.todo = {}
  /\ pass' = NoPass
  /\ mode' = "up"
  /\ listening' = (listening \/ mode = "boot")
  /\ UNCHANGED <<rec, daemon, refs, thread, events, history, budget>>

-----------------------------------------------------------------------------
(* Docker's events: MarkUnexpectedExit.                                    *)

isStaleContainerEvent(event, record) == event # 0 /\ record # 0 /\ event # record

\* The first event, with one of its marks handled and the others left.
EventsAfter(mark) ==
  LET left == Head(events).marks \ {mark}
  IN  IF left = {} THEN Tail(events) ELSE [events EXCEPT ![1].marks = left]

\* Mutant: the event's container is not compared with the record's.
HandleEventOfAny ==
  /\ events # <<>>
  /\ LET e == Head(events)
     IN  \E mark \in e.marks :
           /\ rec' = IF rec[e.id].status = "running"
                       THEN [rec EXCEPT ![e.id].status = mark] ELSE rec
           /\ events' = EventsAfter(mark)
  /\ UNCHANGED <<mode, daemon, refs, thread, pass, listening, history, budget>>

HandleEvent ==
  /\ events # <<>>
  /\ LET e == Head(events)
     IN  \E mark \in e.marks :
           /\ rec' = IF /\ rec[e.id].status = "running"
                        /\ ~isStaleContainerEvent(e.cid, rec[e.id].cid)
                       THEN [rec EXCEPT ![e.id].status = mark] ELSE rec
           /\ events' = EventsAfter(mark)
  /\ UNCHANGED <<mode, daemon, refs, thread, pass, listening, history, budget>>

-----------------------------------------------------------------------------
(* What happens around the operator.                                       *)

Death == budget.deaths > 0 /\ budget' = [budget EXCEPT !.deaths = @ - 1]

\* By itself, or stopped by somebody else.
AgentDies ==
  /\ Death
  /\ \E id \in AgentIDs, marks \in {Died, WasStopped} :
       /\ agentBox[id].state = "running"
       /\ Exit(id, marks)
       /\ agentBox' = [agentBox EXCEPT ![id].state = "exited"]
  /\ UNCHANGED <<mode, rec, dindBox, nets, vols, minted, refs, thread, pass,
                 listening, history>>

DindBreaks ==
  /\ Death
  /\ \E id \in AgentIDs, state \in {"exited", "unhealthy"} :
       /\ dindBox[id].state = "running"
       /\ dindBox' = [dindBox EXCEPT ![id].state = state]
  /\ UNCHANGED <<mode, rec, agentBox, nets, vols, minted, refs, thread, pass,
                 events, listening, history>>

\* Every container has exited, and the event stream has ended for good.
DaemonRestart ==
  /\ Death
  /\ agentBox' = [i \in AgentIDs |-> StopBox(agentBox[i])]
  /\ dindBox' = [i \in AgentIDs |-> StopBox(dindBox[i])]
  /\ events' = <<>>
  /\ listening' = FALSE
  /\ UNCHANGED <<mode, rec, nets, vols, minted, refs, thread, pass, history>>

\* The process ends: what it kept in memory is gone.
Crash ==
  /\ mode # "down"
  /\ budget.crashes > 0
  /\ budget' = [budget EXCEPT !.crashes = @ - 1]
  /\ mode' = "down"
  /\ refs' = [i \in AgentIDs |-> 0]
  /\ thread' = [t \in Threads |-> Idle]
  /\ pass' = NoPass
  /\ events' = <<>>
  /\ listening' = FALSE
  /\ UNCHANGED <<rec, daemon, history>>

Restart ==
  /\ mode = "down"
  /\ mode' = "boot"
  /\ UNCHANGED <<rec, daemon, refs, thread, pass, events, listening, history, budget>>

-----------------------------------------------------------------------------
Arrives(t) ==
  \/ CreateBegin(t) \/ UpdateBegin(t) \/ ResumeBegin(t) \/ StopBegin(t) \/ DeleteBegin(t)

Proceeds(t) ==
  \/ CreateReserve(t) \/ CreateVolumes(t) \/ CreateDinernet(t)
  \/ EnsureDind(t) \/ DindUp(t) \/ DindSettle(t) \/ RecreateDind(t)
  \/ DindCreate(t) \/ DindStamp(t) \/ DindStart(t) \/ DindWait(t)
  \/ Inspect(t) \/ Shield(t) \/ RemoveAgentContainer(t) \/ RecordUpdate(t)
  \/ AgentCreate(t) \/ AgentStamp(t) \/ AgentStart(t) \/ WaitTmuxSession(t) \/ MarkRunning(t)
  \/ StopAgentContainer(t) \/ StopDindContainer(t) \/ StopEnd(t)
  \/ TeardownAgent(t) \/ TeardownDind(t) \/ TeardownNet(t) \/ TeardownVols(t) \/ TeardownEnd(t)

GoesWrong(t) ==
  \/ DindWontStart(t) \/ CallFails(t) \/ StopFails(t) \/ TeardownFails(t)
  \/ StoreDeleteFails(t)

Pass == PassBegin \/ PassSkip \/ PassCleanup \/ PassTurn \/ PassWake \/ PassEnd

Next ==
  \/ \E t \in Requests : Arrives(t)
  \/ ScheduledStop("ticker")
  \/ \E t \in Threads : Proceeds(t) \/ GoesWrong(t)
  \/ Pass \/ PassFails \/ HandleEvent
  \/ AgentDies \/ DindBreaks \/ DaemonRestart \/ Crash \/ Restart

Spec == Init /\ [][Next]_vars

(* A goroutine goes on, the reconcile ticker fires again, the process is   *)
(* started again; no request, failure or death has to happen.              *)
FairSpec ==
  /\ Spec
  /\ \A t \in Threads : WF_vars(Proceeds(t))
  /\ WF_vars(Pass)
  /\ WF_vars(HandleEvent)
  /\ WF_vars(Restart)

-----------------------------------------------------------------------------
(* Properties.                                                             *)

(* At most one registered operation works on an agent, and the registry    *)
(* counts it: opRegistry.                                                  *)
Holders(id) == {t \in Requests \cup {"pass"} : thread[t].id = id}
OneHolder == \A i \in AgentIDs : refs[i] = Cardinality(Holders(i)) /\ refs[i] <= 1

(* An agent that was built keeps its volumes until somebody deletes it.    *)
WorkIsAlwaysKept == \A i \in built \ doomed : i \in vols

(* It does whatever fails, crashes, stops or wakes it, but for one case: a *)
(* pass that listed it while it was created and tears it down after.       *)
WorkIsKept == \A i \in built \ (doomed \cup stale) : i \in vols

(* Whatever exists on the daemon is claimed by a record, so that the next  *)
(* pass finds it, but for what a rollback could not remove.                *)
NothingIsOrphaned ==
  \A i \in AgentIDs \ leaked :
    (i \in nets \cup vols \/ agentBox[i] # NoBox \/ dindBox[i] # NoBox) => Exists(i)

(* A record that says running names the container that exists, with its    *)
(* network, through updates, wakes by the ticker's pass and scheduled      *)
(* stops: the terminal and the ID check of MarkUnexpectedExit go by it.    *)
(* The exception is an agent that a pass tears down by an old listing.     *)
RunningNamesItsContainer ==
  \A i \in AgentIDs \ stale :
    rec[i].status = "running" => /\ rec[i].cid # 0
                                 /\ rec[i].cid = agentBox[i].cid
                                 /\ i \in nets

(* The exit of a container that an operation replaced or stopped is never  *)
(* taken for the exit of the one the record names.                         *)
NoFalseExit ==
  [][\A i \in AgentIDs :
       HandleEvent /\ rec'[i] # rec[i] => agentBox[i].state # "running"]_vars

(* While a delete, a rollback or the pass takes an agent down, nothing of  *)
(* it is created or started: no wake that the pass decided on earlier and  *)
(* no other request puts back what Teardown has removed.                   *)
TeardownSteps == {"teardownStopAgent", "teardownAgent", "teardownStopDind",
                  "teardownDind", "teardownNet", "teardownVols", "teardownEnd"}
TakenDown == {thread[t].id : t \in {u \in Threads : thread[u].pc \in TeardownSteps}}
Up(box) == box.state \in {"running", "unhealthy"}
TeardownOnlyRemoves ==
  [][\A i \in TakenDown :
       /\ i \in nets' => i \in nets
       /\ i \in vols' => i \in vols
       /\ agentBox'[i].cid \in {0, agentBox[i].cid} /\ (Up(agentBox'[i]) => Up(agentBox[i]))
       /\ dindBox'[i].cid \in {0, dindBox[i].cid} /\ (Up(dindBox'[i]) => Up(dindBox[i]))]_vars

(* MAX_AGENTS bounds the agents that hold a slot.                          *)
LiveWithinCap == countReserved <= budget.cap


(* Every create, update, stop and wake ends in a status that stands, even  *)
(* if the process is killed in the middle of it.                           *)
InterruptedSettles ==
  \A i \in AgentIDs :
    rec[i].status \in {"creating", "updating"}
      ~> rec[i].status \notin {"creating", "updating"}

(* Every agent that is being deleted is gone in the end, after a crash or  *)
(* after a container died.  A crash while a dead container is replaced     *)
(* breaks it, and so does a failing call that takes the deletion back.     *)
DeleteCompletes == \A i \in AgentIDs : rec[i].status = "deleting" ~> ~Exists(i)

(* A record that says running, of a container that does not run, is        *)
(* corrected or the container is brought back.                             *)
RunningIsHonest ==
  \A i \in AgentIDs :
    (rec[i].status = "running" /\ agentBox[i].state # "running")
      ~> (rec[i].status # "running" \/ agentBox[i].state = "running")
=============================================================================

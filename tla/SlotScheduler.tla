--------------------------- MODULE SlotScheduler ---------------------------
(***************************************************************************)
(* The slot scheduler over all environments.  A pass lists the objects     *)
(* once, counts those that occupy a slot, ranks the candidates and admits  *)
(* the first capacity - occupancy of them; it then writes the grants one   *)
(* by one, each after a fresh read of its object.  Between the list and    *)
(* the last write the environments move on by themselves, along the phase  *)
(* graph that SandboxEnvironment implements; they are suspended, deleted   *)
(* and created again under the same name; and the operator is restarted,   *)
(* possibly with another capacity.                                         *)
(***************************************************************************)
EXTENDS PhaseGraph, FiniteSets

CONSTANTS
  Names,      \* namespace/name of an environment
  UIDs,       \* identities the API server may give out
  Scenarios   \* what may happen in a behaviour, and how often

PossibleEvents == {"suspend", "delete", "restart", "lost"}

\* live bounds the environments that exist at a time, time the clock behind
\* status.queuedSince, faults the lost writes and restarts.
Budgets == [live : Nat, priorities : SUBSET Int, capacities : SUBSET Nat,
            time : Nat, faults : Nat, events : SUBSET PossibleEvents]

ASSUME SchedulerAssumption ==
  IsFiniteSet(Names) /\ UIDs \subseteq Nat /\ Scenarios \subseteq Budgets

VARIABLES
  live,      \* the names for which an environment exists
  objects,   \* the phase-graph part of each environment
  spec,      \* the rest of what the scheduler reads of it
  used,      \* UIDs that were given out
  now,       \* the clock
  capacity,  \* this process's --slot-capacity
  grants,    \* the grants that this pass still has to write
  peak,      \* history: the largest capacity so far
  waiting,   \* history: candidates of this pass's list that still are, and
             \* whose grant was not lost
  budget     \* the scenario, with the faults that may still happen

vars == <<live, objects, spec, used, now, capacity, grants, peak, waiting, budget>>

NoTime == -1

\* position is the rank in this pass's queue, from 1.
Grants == [name : Names, uid : Nat, position : Nat]

Specs == [uid : Nat, priority : Int, queuedSince : Nat \cup {NoTime},
          suspend : BOOLEAN]
NewSpec == [uid |-> 0, priority |-> 0, queuedSince |-> NoTime, suspend |-> FALSE]

TypeOK ==
  /\ live \subseteq Names
  /\ objects \in [Names -> Objects]
  /\ spec \in [Names -> Specs]
  /\ used \subseteq UIDs
  /\ now \in Nat
  /\ capacity \in Nat
  /\ grants \subseteq Grants
  /\ peak \in Nat
  /\ waiting \subseteq Names
  /\ budget \in Budgets

Init ==
  /\ live = {}
  /\ objects = [n \in Names |-> NewObject]
  /\ spec = [n \in Names |-> NewSpec]
  /\ used = {}
  /\ now = 0
  /\ budget \in Scenarios
  /\ capacity \in budget.capacities
  /\ grants = {}
  /\ peak = capacity
  /\ waiting = {}

-----------------------------------------------------------------------------
(* internal/scheduler: the decision.                                       *)

\* Mutant: a grant counts only once the environment has moved on.
OccupiesByPhase(n) ==
  n \in live /\ objects[n].phase \in {"Restoring", "Running", "Freezing"}

\* Mutant: whatever has left the queue counts, for good.
OccupiesOnceStarted(n) ==
  n \in live /\ (objects[n].granted \/ objects[n].phase \notin {"", "Pending", "Ready"})

(* A granted environment counts while it is still Ready, or the next pass  *)
(* would give its slot away again.                                         *)
Occupies(n) ==
  n \in live /\ (objects[n].granted
                 \/ objects[n].phase \in {"Restoring", "Running", "Freezing"})

IsCandidate(n) ==
  /\ n \in live
  /\ objects[n].phase = "Ready" /\ ~objects[n].granted /\ ~objects[n].deleting
  /\ ~spec[n].suspend

Occupants  == {n \in Names : Occupies(n)}
Candidates == {n \in Names : IsCandidate(n)}

\* An environment with no queuedSince sorts last.
Earlier(s, t) == s # NoTime /\ (t = NoTime \/ s < t)

less(a, b) ==
  \/ spec[a].priority > spec[b].priority
  \/ /\ spec[a].priority = spec[b].priority
     /\ \/ Earlier(spec[a].queuedSince, spec[b].queuedSince)
        \/ /\ spec[a].queuedSince = spec[b].queuedSince
           /\ spec[a].uid < spec[b].uid

(* The place of n in the admission order, from 1.                          *)
Position(n) == Cardinality({m \in Candidates : less(m, n)}) + 1

\* Mutant: one too many.
AdmitOneMore ==
  {[name |-> n, uid |-> spec[n].uid, position |-> Position(n)] :
     n \in {c \in Candidates : Position(c) <= capacity - Cardinality(Occupants) + 1}}

\* Mutant: the slice of grants starts with a zero value.
AdmitZeroValue ==
  {[name |-> n, uid |-> spec[n].uid, position |-> Position(n)] :
     n \in {c \in Candidates : Position(c) <= capacity - Cardinality(Occupants)}}
  \cup {[name |-> "", uid |-> 0, position |-> 0]}

Admit ==
  {[name |-> n, uid |-> spec[n].uid, position |-> Position(n)] :
     n \in {c \in Candidates : Position(c) <= capacity - Cardinality(Occupants)}}

-----------------------------------------------------------------------------
(* controller.SlotScheduler: the pass.                                     *)

Fault(name) ==
  /\ name \in budget.events /\ budget.faults > 0
  /\ budget' = [budget EXCEPT !.faults = @ - 1]

RunOnce ==
  /\ grants = {}
  /\ grants' = Admit
  /\ waiting' = Candidates
  /\ UNCHANGED <<live, objects, spec, used, now, capacity, peak, budget>>

\* The first of the grants that are left.
Upcoming == {g \in grants : \A h \in grants : g.position <= h.position}

\* Mutant: the name is enough.
StillValidByName(g) == IsCandidate(g.name)

(* The object must be the one that was listed, and a candidate still.      *)
StillValid(g) ==
  spec[g.name].uid = g.uid /\ IsCandidate(g.name)

ApplyGrant(g) ==
  /\ g \in Upcoming
  /\ grants' = grants \ {g}
  /\ IF StillValid(g)
     THEN /\ objects' = [objects EXCEPT ![g.name].granted = TRUE]
          /\ waiting' = waiting \ {g.name}
     ELSE UNCHANGED <<objects, waiting>>
  /\ UNCHANGED <<live, spec, used, now, capacity, peak, budget>>

(* The write fails: counted, and left to the next pass.                    *)
GrantLost(g) ==
  /\ g \in Upcoming
  /\ Fault("lost")
  /\ grants' = grants \ {g}
  /\ waiting' = waiting \ {g.name}
  /\ UNCHANGED <<live, objects, spec, used, now, capacity, peak>>

(* The operator is restarted; what was left of the pass is forgotten.      *)
Restart ==
  /\ Fault("restart")
  /\ grants' = {}
  /\ waiting' = {}
  /\ capacity' \in budget.capacities
  /\ peak' = IF capacity' > peak THEN capacity' ELSE peak
  /\ UNCHANGED <<live, objects, spec, used, now>>

-----------------------------------------------------------------------------
(* The environments.                                                       *)

Create(n) ==
  /\ n \notin live /\ Cardinality(live) < budget.live
  /\ live' = live \cup {n}
  /\ \E u \in UIDs \ used, p \in budget.priorities :
        /\ used' = used \cup {u}
        /\ spec' = [spec EXCEPT ![n] = [NewSpec EXCEPT !.uid = u, !.priority = p]]
  /\ objects' = [objects EXCEPT ![n] = NewObject]
  /\ UNCHANGED <<now, capacity, grants, peak, waiting, budget>>

(* A step of n's object; the history loses sight of n when it is no        *)
(* candidate any more.                                                     *)
Becomes(n, o) ==
  /\ objects' = [objects EXCEPT ![n] = o]
  /\ waiting' = IF o.phase = "Ready" /\ ~o.granted /\ ~o.deleting
                THEN waiting ELSE waiting \ {n}

(* A status write of n's reconciler.  queuedSince is set once, by the      *)
(* first write that makes n Ready.                                         *)
Reconcile(n) ==
  /\ n \in live
  /\ \E o \in NextObjects(objects[n]) : Becomes(n, o)
  /\ spec' = IF objects'[n].phase = "Ready" /\ spec[n].queuedSince = NoTime
             THEN [spec EXCEPT ![n].queuedSince = now] ELSE spec
  /\ UNCHANGED <<live, used, now, capacity, grants, peak, budget>>

RecordSnapshot(n) ==
  /\ n \in live /\ objects[n].phase = "Freezing" /\ ~objects[n].saved
  /\ Becomes(n, [objects[n] EXCEPT !.saved = TRUE])
  /\ UNCHANGED <<live, spec, used, now, capacity, grants, peak, budget>>

ToggleSuspend(n) ==
  /\ "suspend" \in budget.events /\ n \in live /\ ~objects[n].deleting
  /\ spec' = [spec EXCEPT ![n].suspend = ~@]
  /\ waiting' = waiting \ {n}
  /\ UNCHANGED <<live, objects, used, now, capacity, grants, peak, budget>>

Delete(n) ==
  /\ "delete" \in budget.events /\ n \in live /\ ~objects[n].deleting
  /\ Becomes(n, [objects[n] EXCEPT !.deleting = TRUE])
  /\ UNCHANGED <<live, spec, used, now, capacity, grants, peak, budget>>

(* The finalizer is removed, whatever the phase.                           *)
Remove(n) ==
  /\ n \in live /\ objects[n].deleting
  /\ live' = live \ {n}
  /\ objects' = [objects EXCEPT ![n] = NewObject]
  /\ spec' = [spec EXCEPT ![n] = NewSpec]
  /\ UNCHANGED <<used, now, capacity, grants, peak, waiting, budget>>

Tick ==
  /\ now < budget.time
  /\ now' = now + 1
  /\ UNCHANGED <<live, objects, spec, used, capacity, grants, peak, waiting, budget>>

Scheduler == RunOnce \/ \E g \in grants : ApplyGrant(g)

Environment(n) ==
  \/ Create(n) \/ Reconcile(n) \/ RecordSnapshot(n)
  \/ ToggleSuspend(n) \/ Delete(n) \/ Remove(n)

Next ==
  \/ Scheduler
  \/ \E g \in grants : GrantLost(g)
  \/ Restart
  \/ \E n \in Names : Environment(n)
  \/ Tick

Spec == Init /\ [][Next]_vars

(* The scheduler keeps running passes, and every environment gives its     *)
(* slot back in the end: SandboxEnvironment shows the latter.              *)
Vacate(n) == Reconcile(n) /\ Occupies(n) /\ ~Occupies(n)'

Fairness ==
  /\ WF_vars(RunOnce) /\ WF_vars(\E g \in grants : ApplyGrant(g))
  /\ \A n \in Names : WF_vars(Vacate(n)) /\ WF_vars(RecordSnapshot(n))

FairSpec == Spec /\ Fairness

-----------------------------------------------------------------------------
(* Properties.                                                             *)

\* The environments that hold a slot or have their agent's pod up.
Holders == {n \in live : objects[n].granted \/ objects[n].phase \in ActivePhases}

(* Never more slots are held than there are: one list per pass, counting   *)
(* the granted but still Ready, and a check before each write suffice,     *)
(* whatever the environments do while the pass is under way.  A capacity   *)
(* that is lowered takes none back, so the bound is the largest one.       *)
SlotsWithinCapacity == Cardinality(Holders) <= peak

(* After the capacity was lowered nothing is admitted until the holders    *)
(* fit the new one: a grant that lands leaves at most capacity holders.    *)
GrantsWithinCapacity ==
  [][~(Holders' \subseteq Holders) => Cardinality(Holders') <= capacity]_vars

(* No environment jumps the queue: when a grant lands, every candidate     *)
(* that has waited since the pass listed it sorts after the one granted,   *)
(* even when a name was deleted and created again in between.              *)
NoQueueJump ==
  [][\A n \in Names : n \in Holders' \ Holders =>
        \A m \in waiting \ {n} : ~less(m, n)]_vars

(* The head of the queue does not stay there: it is granted a slot, or it  *)
(* leaves the queue or is overtaken by one that sorts before it.           *)
IsHead(n) == IsCandidate(n) /\ \A m \in Candidates \ {n} : less(n, m)
HeadIsAdmitted == \A n \in Names : IsHead(n) ~> ~IsHead(n)

(* Why the capacity holds.  Distinct identities make the admission order   *)
(* total, so that no two candidates share a position; an active            *)
(* environment has its grant, so that only a grant makes a holder; and     *)
(* what is left of a pass always fits beside the holders.                  *)
IdentitiesDiffer ==
  /\ \A n \in live : spec[n].uid \in used
  /\ \A m, n \in live : spec[m].uid = spec[n].uid => m = n

ActiveIsGranted ==
  \A n \in live : objects[n].phase \in ActivePhases => objects[n].granted

PassFits ==
  /\ IsFiniteSet(grants)
  /\ grants # {} => Cardinality(Holders) + Cardinality(grants) <= capacity

IInv ==
  /\ TypeOK
  /\ IdentitiesDiffer
  /\ ActiveIsGranted
  /\ PassFits
  /\ capacity <= peak
  /\ SlotsWithinCapacity

(* "Every cycle asserts occupancy never exceeds capacity": occupancy as    *)
(* the scheduler counts it.                                                *)
OccupancyWithinCapacity == Cardinality(Occupants) <= peak
=============================================================================

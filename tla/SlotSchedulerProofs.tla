------------------------ MODULE SlotSchedulerProofs ------------------------
(***************************************************************************)
(* For any number of environments, any identities, priorities and          *)
(* capacities: the slot scheduler never has more slots held than the       *)
(* largest capacity it ran with, and a grant only lands within the current *)
(* one.                                                                    *)
(***************************************************************************)
EXTENDS SlotScheduler, FiniteSetTheorems, TLAPS

-----------------------------------------------------------------------------
(* The admission order.                                                    *)

(* Sets of environments are finite.                                        *)
LEMMA FiniteParts ==
  ASSUME TypeOK
  PROVE  /\ IsFiniteSet(Holders) /\ Cardinality(Holders) \in Nat
         /\ IsFiniteSet(Occupants) /\ Cardinality(Occupants) \in Nat
         /\ IsFiniteSet(Candidates)
<1>1. Holders \subseteq Names /\ Occupants \subseteq Names /\ Candidates \subseteq Names
  BY DEF TypeOK, Holders, Occupants, Candidates
<1>2. IsFiniteSet(Names)
  BY SchedulerAssumption
<1>3. IsFiniteSet(Holders) /\ IsFiniteSet(Occupants) /\ IsFiniteSet(Candidates)
  BY <1>1, <1>2, FS_Subset
<1> QED
  BY <1>3, FS_CardinalityType

(* Every environment's sort key is a triple of integers.                   *)
LEMMA KeyTypes ==
  ASSUME TypeOK, NEW n \in Names
  PROVE  /\ spec[n].priority \in Int
         /\ spec[n].queuedSince \in Nat \cup {NoTime}
         /\ spec[n].uid \in Nat
BY DEF TypeOK, Specs

(* less is a strict order on the candidates, and total because their       *)
(* identities differ.                                                      *)
LEMMA LessIsTotal ==
  ASSUME TypeOK, IdentitiesDiffer
  PROVE  /\ \A a \in Candidates : ~less(a, a)
         /\ \A a, b \in Candidates : a # b => less(a, b) \/ less(b, a)
         /\ \A a, b, c \in Candidates : less(a, b) /\ less(b, c) => less(a, c)
<1>1. \A n \in Candidates : n \in Names /\ n \in live
  BY DEF Candidates, IsCandidate
<1>2. \A n \in Candidates : /\ spec[n].priority \in Int
                            /\ spec[n].queuedSince \in Nat \cup {NoTime}
                            /\ spec[n].uid \in Nat
  BY <1>1, KeyTypes
<1>3. \A a \in Candidates : ~less(a, a)
  BY <1>2 DEF less, Earlier, NoTime
<1>4. \A a, b \in Candidates : a # b => less(a, b) \/ less(b, a)
  <2> SUFFICES ASSUME NEW a \in Candidates, NEW b \in Candidates, a # b
               PROVE  less(a, b) \/ less(b, a)
    OBVIOUS
  <2>1. spec[a].uid # spec[b].uid
    BY <1>1 DEF IdentitiesDiffer
  <2> QED
    BY <2>1, <1>2 DEF less, Earlier, NoTime
<1>5. \A a, b, c \in Candidates : less(a, b) /\ less(b, c) => less(a, c)
  <2> SUFFICES ASSUME NEW a \in Candidates, NEW b \in Candidates,
                      NEW c \in Candidates, less(a, b), less(b, c)
               PROVE  less(a, c)
    OBVIOUS
  <2> QED
    BY <1>2 DEF less, Earlier, NoTime
<1> QED
  BY <1>3, <1>4, <1>5

(* Positions are numbers from 1, and no two candidates share one.          *)
LEMMA PositionsDiffer ==
  ASSUME TypeOK, IdentitiesDiffer
  PROVE  /\ \A a \in Candidates : Position(a) \in Nat /\ Position(a) >= 1
         /\ \A a, b \in Candidates : Position(a) = Position(b) => a = b
<1> DEFINE Before(n) == {m \in Candidates : less(m, n)}
<1>1. \A n : Before(n) \subseteq Candidates /\ IsFiniteSet(Before(n))
             /\ Cardinality(Before(n)) \in Nat
  <2> TAKE n
  <2>1. Before(n) \subseteq Candidates
    OBVIOUS
  <2>2. IsFiniteSet(Before(n))
    BY <2>1, FiniteParts, FS_Subset
  <2> QED
    BY <2>1, <2>2, FS_CardinalityType
<1>2. \A a, b \in Candidates : less(a, b) => Position(a) < Position(b)
  <2> SUFFICES ASSUME NEW a \in Candidates, NEW b \in Candidates, less(a, b)
               PROVE  Position(a) < Position(b)
    OBVIOUS
  <2>1. Before(a) \subseteq Before(b)
    BY LessIsTotal
  <2>2. a \in Before(b) /\ a \notin Before(a)
    BY LessIsTotal
  <2>3. Cardinality(Before(a)) <= Cardinality(Before(b))
        /\ Cardinality(Before(a)) # Cardinality(Before(b))
    BY <1>1, <2>1, <2>2, FS_Subset
  <2>4. Position(a) = Cardinality(Before(a)) + 1 /\ Position(b) = Cardinality(Before(b)) + 1
    BY DEF Position
  <2> HIDE DEF Before
  <2> QED
    BY <1>1, <2>3, <2>4
<1>3. \A a \in Candidates : Position(a) = Cardinality(Before(a)) + 1
  BY DEF Position
<1> HIDE DEF Before
<1>4. \A a \in Candidates : Position(a) \in Nat /\ Position(a) >= 1
  BY <1>1, <1>3
<1>5. \A a, b \in Candidates : Position(a) = Position(b) => a = b
  <2> SUFFICES ASSUME NEW a \in Candidates, NEW b \in Candidates, a # b
               PROVE  Position(a) # Position(b)
    OBVIOUS
  <2>1. Position(a) \in Nat /\ Position(b) \in Nat
    BY <1>4
  <2>2. less(a, b) \/ less(b, a)
    BY LessIsTotal
  <2>3. Position(a) < Position(b) \/ Position(b) < Position(a)
    BY <1>2, <2>2
  <2> QED
    BY <2>1, <2>3
<1> QED
  BY <1>4, <1>5

(* A pass admits no more than the slots that its list shows free.          *)
LEMMA AdmitFits ==
  ASSUME TypeOK, IdentitiesDiffer
  PROVE  /\ Admit \subseteq Grants
         /\ IsFiniteSet(Admit)
         /\ Admit # {} => Cardinality(Occupants) + Cardinality(Admit) <= capacity
<1> DEFINE free == capacity - Cardinality(Occupants)
           f == [g \in Admit |-> g.position]
<1>1. capacity \in Nat /\ free \in Int /\ Cardinality(Occupants) \in Nat
  BY FiniteParts DEF TypeOK
<1>2. ASSUME NEW g \in Admit
      PROVE  \E n \in Candidates :
               /\ g = [name |-> n, uid |-> spec[n].uid, position |-> Position(n)]
               /\ Position(n) <= free
  BY DEF Admit
<1>3. Admit \subseteq Grants
  <2> SUFFICES ASSUME NEW g \in Admit PROVE g \in Grants
    OBVIOUS
  <2>1. PICK n \in Candidates :
          /\ g = [name |-> n, uid |-> spec[n].uid, position |-> Position(n)]
          /\ Position(n) <= free
    BY <1>2
  <2>2. n \in Names /\ Position(n) \in Nat /\ spec[n].uid \in Nat
    BY PositionsDiffer DEF Candidates, TypeOK, Specs
  <2> QED
    BY <2>1, <2>2 DEF Grants
<1>4. \A g \in Admit : g.position \in 1..free
  <2> TAKE g \in Admit
  <2>1. PICK n \in Candidates :
          /\ g = [name |-> n, uid |-> spec[n].uid, position |-> Position(n)]
          /\ Position(n) <= free
    BY <1>2
  <2>2. g.position = Position(n) /\ Position(n) \in Nat /\ Position(n) >= 1
    BY <2>1, PositionsDiffer
  <2> QED
    BY <1>1, <2>1, <2>2
<1>5. \A g, h \in Admit : g.position = h.position => g = h
  <2> SUFFICES ASSUME NEW g \in Admit, NEW h \in Admit, g.position = h.position
               PROVE  g = h
    OBVIOUS
  <2>1. PICK n \in Candidates :
          g = [name |-> n, uid |-> spec[n].uid, position |-> Position(n)]
    BY <1>2
  <2>2. PICK m \in Candidates :
          h = [name |-> m, uid |-> spec[m].uid, position |-> Position(m)]
    BY <1>2
  <2>3. Position(n) = Position(m)
    BY <2>1, <2>2
  <2>4. n = m
    BY <2>3, PositionsDiffer
  <2> QED
    BY <2>1, <2>2, <2>4
<1>6. f \in Injection(Admit, 1..free)
  BY <1>4, <1>5 DEF Injection, IsInjective
<1>7. IsFiniteSet(1..free) /\ Cardinality(1..free) = IF 1 > free THEN 0 ELSE free
  <2> HIDE DEF free
  <2>1. /\ IsFiniteSet(1..free)
        /\ Cardinality(1..free) = IF 1 > free THEN 0 ELSE free - 1 + 1
    BY <1>1, 1 \in Int, FS_Interval
  <2> QED
    BY <1>1, <2>1
<1> HIDE DEF f
<1>8. IsFiniteSet(Admit) /\ Cardinality(Admit) <= Cardinality(1..free)
  BY <1>6, <1>7, FS_Injection
<1>9. Cardinality(Admit) \in Nat
  BY <1>8, FS_CardinalityType
<1>10. Admit # {} => free >= 1
  BY <1>1, <1>4
<1> QED
  BY <1>1, <1>3, <1>7, <1>8, <1>9, <1>10

-----------------------------------------------------------------------------
(* The phase graph.                                                        *)

(* A status write leaves an object, related to the one before it.          *)
LEMMA NextObjectsType ==
  ASSUME NEW o \in Objects, NEW n \in NextObjects(o)
  PROVE  n \in Objects /\ Reconciled(o, n)
<1>1. Reconciled(o, n)
  BY DEF NextObjects
<1>2. Successors(o) \subseteq StatusPhases
  BY DEF Successors, Objects, StatusPhases, Phases, TerminalPhases
<1>3. n \in Objects
  BY <1>2 DEF NextObjects, Objects
<1> QED
  BY <1>1, <1>3

(* A status write never grants, and an active phase it leaves has a slot.  *)
LEMMA ReconciledSlot ==
  ASSUME NEW o \in Objects, NEW n \in NextObjects(o)
  PROVE  /\ n.granted => o.granted
         /\ n.phase \in ActivePhases => n.granted
BY NextObjectsType DEF Reconciled, SlotFits

-----------------------------------------------------------------------------
(* The steps.                                                              *)

(* A created environment is well typed.                                    *)
LEMMA NewTypes == NewObject \in Objects /\ NewSpec \in Specs
BY DEF Objects, NewObject, Specs, NewSpec, StatusPhases, NoTime

(* The initial state is well typed.                                        *)
LEMMA TypeInit == Init => TypeOK
<1> SUFFICES ASSUME Init PROVE TypeOK
  OBVIOUS
<1>1. budget \in Budgets
  BY SchedulerAssumption DEF Init
<1>2. capacity \in Nat
  BY <1>1 DEF Init, Budgets
<1> QED
  BY <1>1, <1>2, NewTypes DEF Init, TypeOK

(* Faults are counted down to zero.                                        *)
LEMMA FaultType ==
  ASSUME budget \in Budgets, NEW name, Fault(name)
  PROVE  budget' \in Budgets
<1>1. budget.faults - 1 \in Nat
  BY DEF Fault, Budgets
<1> QED
  BY <1>1, Zenon DEF Fault, Budgets

(* What becomes of one environment is an object.                           *)
LEMMA BecomesType ==
  ASSUME TypeOK, NEW n \in Names, NEW o \in Objects, Becomes(n, o)
  PROVE  objects' \in [Names -> Objects] /\ waiting' \subseteq Names
BY DEF TypeOK, Becomes

(* Every step keeps the types.                                             *)
LEMMA TypeNext ==
  ASSUME TypeOK, IdentitiesDiffer, [Next]_vars
  PROVE  TypeOK'
<1> USE DEF TypeOK
<1>1. CASE RunOnce
  <2>1. Admit \subseteq Grants
    BY AdmitFits
  <2> QED
    BY <1>1, <2>1 DEF RunOnce, Candidates
<1>2. ASSUME NEW g \in grants, ApplyGrant(g)
      PROVE  TypeOK'
  <2>1. g.name \in Names /\ objects[g.name] \in Objects
    BY DEF Grants
  <2>2. [objects[g.name] EXCEPT !.granted = TRUE] \in Objects
    BY <2>1 DEF Objects
  <2>3. objects' \in [Names -> Objects]
    BY <1>2, <2>1, <2>2 DEF ApplyGrant
  <2>4. waiting' \subseteq Names /\ grants' \subseteq Grants
    BY <1>2 DEF ApplyGrant
  <2> QED
    BY <1>2, <2>3, <2>4 DEF ApplyGrant
<1>3. ASSUME NEW g \in grants, GrantLost(g)
      PROVE  TypeOK'
  <2>1. budget' \in Budgets
    BY <1>3, FaultType DEF GrantLost
  <2> QED
    BY <1>3, <2>1 DEF GrantLost
<1>4. CASE Restart
  <2>1. budget' \in Budgets
    BY <1>4, FaultType DEF Restart
  <2>2. capacity' \in Nat
    BY <1>4 DEF Restart, Budgets
  <2> QED
    BY <1>4, <2>1, <2>2 DEF Restart
<1>5. ASSUME NEW n \in Names, Create(n)
      PROVE  TypeOK'
  <2>1. PICK u \in UIDs \ used, p \in budget.priorities :
          /\ used' = used \cup {u}
          /\ spec' = [spec EXCEPT ![n] = [NewSpec EXCEPT !.uid = u, !.priority = p]]
    BY <1>5 DEF Create
  <2>2. u \in Nat /\ p \in Int
    BY SchedulerAssumption DEF Budgets
  <2>3. [NewSpec EXCEPT !.uid = u, !.priority = p] \in Specs
    BY <2>2 DEF NewSpec, Specs, NoTime
  <2>5. spec' \in [Names -> Specs] /\ used' \subseteq UIDs
    BY <2>1, <2>3
  <2>6. objects' \in [Names -> Objects]
    BY <1>5, NewTypes DEF Create
  <2> QED
    BY <1>5, <2>5, <2>6 DEF Create
<1>6. ASSUME NEW n \in Names, Reconcile(n)
      PROVE  TypeOK'
  <2>1. PICK o \in NextObjects(objects[n]) : Becomes(n, o)
    BY <1>6 DEF Reconcile
  <2>2. o \in Objects
    BY <2>1, NextObjectsType
  <2>3. objects' \in [Names -> Objects] /\ waiting' \subseteq Names
    BY <2>1, <2>2, BecomesType
  <2>4. spec[n] \in Specs
    OBVIOUS
  <2>5. [spec[n] EXCEPT !.queuedSince = now] \in Specs
    BY <2>4 DEF Specs
  <2>6. spec' \in [Names -> Specs]
    BY <1>6, <2>5 DEF Reconcile
  <2> QED
    BY <1>6, <2>3, <2>6 DEF Reconcile
<1>7. ASSUME NEW n \in Names, RecordSnapshot(n)
      PROVE  TypeOK'
  <2>1. [objects[n] EXCEPT !.saved = TRUE] \in Objects
    BY DEF Objects
  <2>2. objects' \in [Names -> Objects] /\ waiting' \subseteq Names
    BY <1>7, <2>1, BecomesType DEF RecordSnapshot
  <2> QED
    BY <1>7, <2>2 DEF RecordSnapshot
<1>8. ASSUME NEW n \in Names, ToggleSuspend(n)
      PROVE  TypeOK'
  <2>1. [spec[n] EXCEPT !.suspend = ~@] \in Specs
    BY DEF Specs
  <2> QED
    BY <1>8, <2>1 DEF ToggleSuspend
<1>9. ASSUME NEW n \in Names, Delete(n)
      PROVE  TypeOK'
  <2>1. [objects[n] EXCEPT !.deleting = TRUE] \in Objects
    BY DEF Objects
  <2>2. objects' \in [Names -> Objects] /\ waiting' \subseteq Names
    BY <1>9, <2>1, BecomesType DEF Delete
  <2> QED
    BY <1>9, <2>2 DEF Delete
<1>10. ASSUME NEW n \in Names, Remove(n)
       PROVE  TypeOK'
  BY <1>10, NewTypes DEF Remove
<1>11. CASE Tick
  BY <1>11 DEF Tick
<1>12. CASE UNCHANGED vars
  BY <1>12 DEF vars
<1> QED
  BY <1>1, <1>2, <1>3, <1>4, <1>5, <1>6, <1>7, <1>8, <1>9, <1>10, <1>11, <1>12
  DEF Next, Scheduler, Environment

(* Identities stay distinct: a new one was never given out before.         *)
LEMMA IdentitiesNext ==
  ASSUME TypeOK, IdentitiesDiffer, [Next]_vars
  PROVE  IdentitiesDiffer'
<1> USE DEF IdentitiesDiffer, TypeOK
<1>1. ASSUME NEW n \in Names, Create(n)
      PROVE  IdentitiesDiffer'
  <2>1. PICK u \in UIDs \ used, p \in budget.priorities :
          /\ used' = used \cup {u}
          /\ spec' = [spec EXCEPT ![n] = [NewSpec EXCEPT !.uid = u, !.priority = p]]
    BY <1>1 DEF Create
  <2>2. spec'[n].uid = u /\ \A m \in live : spec'[m].uid = spec[m].uid
    BY <1>1, <2>1 DEF Create, NewSpec
  <2>3. live' = live \cup {n} /\ n \notin live
    BY <1>1 DEF Create
  <2> QED
    BY <2>1, <2>2, <2>3
<1>2. ASSUME NEW n \in Names, Reconcile(n)
      PROVE  IdentitiesDiffer'
  <2>1. \A m \in Names : spec'[m].uid = spec[m].uid
    BY <1>2 DEF Reconcile, Specs
  <2> QED
    BY <1>2, <2>1 DEF Reconcile
<1>3. ASSUME NEW n \in Names, ToggleSuspend(n)
      PROVE  IdentitiesDiffer'
  <2>1. \A m \in Names : spec'[m].uid = spec[m].uid
    BY <1>3 DEF ToggleSuspend, Specs
  <2> QED
    BY <1>3, <2>1 DEF ToggleSuspend
<1>4. ASSUME NEW n \in Names, Remove(n)
      PROVE  IdentitiesDiffer'
  BY <1>4 DEF Remove
<1>5. CASE UNCHANGED <<live, spec, used>>
  BY <1>5
<1>6. CASE RunOnce \/ Restart \/ Tick \/ UNCHANGED vars
  BY <1>5, <1>6 DEF RunOnce, Restart, Tick, vars
<1>7. ASSUME NEW g \in grants, ApplyGrant(g) \/ GrantLost(g)
      PROVE  IdentitiesDiffer'
  BY <1>5, <1>7 DEF ApplyGrant, GrantLost
<1>8. ASSUME NEW n \in Names, RecordSnapshot(n) \/ Delete(n)
      PROVE  IdentitiesDiffer'
  BY <1>5, <1>8 DEF RecordSnapshot, Delete
<1> QED
  BY <1>1, <1>2, <1>3, <1>4, <1>6, <1>7, <1>8 DEF Next, Scheduler, Environment

(* An active environment has a grant: no write enters an active phase      *)
(* without one, and no write takes it while the phase lasts.               *)
LEMMA ActiveNext ==
  ASSUME TypeOK, ActiveIsGranted, [Next]_vars
  PROVE  ActiveIsGranted'
<1> USE DEF ActiveIsGranted, TypeOK
<1>1. ASSUME NEW g \in grants, ApplyGrant(g)
      PROVE  ActiveIsGranted'
  <2>1. g.name \in Names
    BY DEF Grants
  <2>2. \A m \in Names : /\ objects'[m].phase = objects[m].phase
                         /\ objects[m].granted => objects'[m].granted
    BY <1>1, <2>1 DEF ApplyGrant, Objects
  <2> QED
    BY <1>1, <2>2 DEF ApplyGrant
<1>2. ASSUME NEW n \in Names, Create(n)
      PROVE  ActiveIsGranted'
  <2>1. live' = live \cup {n} /\ objects' = [objects EXCEPT ![n] = NewObject]
    BY <1>2 DEF Create
  <2>2. NewObject.phase \notin ActivePhases /\ ~NewObject.granted
    BY DEF NewObject, ActivePhases
  <2> QED
    BY <2>1, <2>2
<1>3. ASSUME NEW n \in Names, Reconcile(n)
      PROVE  ActiveIsGranted'
  <2>1. PICK o \in NextObjects(objects[n]) : Becomes(n, o)
    BY <1>3 DEF Reconcile
  <2>2. o.phase \in ActivePhases => o.granted
    BY <2>1, ReconciledSlot
  <2>3. live' = live /\ objects' = [objects EXCEPT ![n] = o]
    BY <1>3, <2>1 DEF Reconcile, Becomes
  <2> QED
    BY <2>2, <2>3
<1>4. ASSUME NEW n \in Names, RecordSnapshot(n) \/ Delete(n)
      PROVE  ActiveIsGranted'
  <2>1. live' = live /\ \A m \in Names : /\ objects'[m].phase = objects[m].phase
                                        /\ objects'[m].granted = objects[m].granted
    BY <1>4 DEF RecordSnapshot, Delete, Becomes, Objects
  <2> QED
    BY <2>1
<1>5. ASSUME NEW n \in Names, Remove(n)
      PROVE  ActiveIsGranted'
  BY <1>5 DEF Remove
<1>6. CASE UNCHANGED <<live, objects>>
  BY <1>6
<1>7. CASE RunOnce \/ Restart \/ Tick \/ UNCHANGED vars
  BY <1>6, <1>7 DEF RunOnce, Restart, Tick, vars
<1>8. ASSUME NEW g \in grants, GrantLost(g)
      PROVE  ActiveIsGranted'
  BY <1>6, <1>8 DEF GrantLost
<1>9. ASSUME NEW n \in Names, ToggleSuspend(n)
      PROVE  ActiveIsGranted'
  BY <1>6, <1>9 DEF ToggleSuspend
<1> QED
  BY <1>1, <1>2, <1>3, <1>4, <1>5, <1>7, <1>8, <1>9
  DEF Next, Scheduler, Environment

(* Only a grant makes a holder.                                            *)
LEMMA HoldersShrink ==
  ASSUME TypeOK, ActiveIsGranted, [Next]_vars,
         \A g \in grants : ~ApplyGrant(g)
  PROVE  Holders' \subseteq Holders
<1> USE DEF TypeOK
<1>1. ASSUME NEW n \in Names, Create(n)
      PROVE  Holders' \subseteq Holders
  <2>1. live' = live \cup {n} /\ objects' = [objects EXCEPT ![n] = NewObject]
    BY <1>1 DEF Create
  <2>2. NewObject.phase \notin ActivePhases /\ ~NewObject.granted
    BY DEF NewObject, ActivePhases
  <2> QED
    BY <2>1, <2>2 DEF Holders
<1>2. ASSUME NEW n \in Names, Reconcile(n)
      PROVE  Holders' \subseteq Holders
  <2>1. PICK o \in NextObjects(objects[n]) : Becomes(n, o)
    BY <1>2 DEF Reconcile
  <2>2. (o.phase \in ActivePhases => o.granted) /\ (o.granted => objects[n].granted)
    BY <2>1, ReconciledSlot
  <2>3. live' = live /\ objects' = [objects EXCEPT ![n] = o]
    BY <1>2, <2>1 DEF Reconcile, Becomes
  <2> QED
    BY <2>2, <2>3 DEF Holders
<1>3. ASSUME NEW n \in Names, RecordSnapshot(n) \/ Delete(n)
      PROVE  Holders' \subseteq Holders
  <2>1. live' = live /\ \A m \in Names : /\ objects'[m].phase = objects[m].phase
                                        /\ objects'[m].granted = objects[m].granted
    BY <1>3 DEF RecordSnapshot, Delete, Becomes, Objects
  <2> QED
    BY <2>1 DEF Holders
<1>4. ASSUME NEW n \in Names, Remove(n)
      PROVE  Holders' \subseteq Holders
  BY <1>4 DEF Remove, Holders
<1>5. CASE UNCHANGED <<live, objects>>
  BY <1>5 DEF Holders
<1>6. CASE RunOnce \/ Restart \/ Tick \/ UNCHANGED vars
  BY <1>5, <1>6 DEF RunOnce, Restart, Tick, vars
<1>7. ASSUME NEW g \in grants, GrantLost(g)
      PROVE  Holders' \subseteq Holders
  BY <1>5, <1>7 DEF GrantLost
<1>8. ASSUME NEW n \in Names, ToggleSuspend(n)
      PROVE  Holders' \subseteq Holders
  BY <1>5, <1>8 DEF ToggleSuspend
<1> QED
  BY <1>1, <1>2, <1>3, <1>4, <1>6, <1>7, <1>8 DEF Next, Scheduler, Environment

-----------------------------------------------------------------------------
(* The capacity.                                                           *)

(* As long as holders and outstanding grants only go away, all still fits. *)
LEMMA ShrinkingFits ==
  ASSUME TypeOK, TypeOK', PassFits, SlotsWithinCapacity,
         Holders' \subseteq Holders, grants' \subseteq grants,
         capacity' = capacity, peak' = peak
  PROVE  PassFits' /\ SlotsWithinCapacity'
<1>1. /\ IsFiniteSet(Holders) /\ IsFiniteSet(grants)
      /\ Cardinality(Holders) \in Nat /\ Cardinality(grants) \in Nat
  BY FiniteParts, FS_CardinalityType DEF PassFits
<1>2. Cardinality(Holders') <= Cardinality(Holders)
      /\ IsFiniteSet(Holders') /\ Cardinality(Holders') \in Nat
  BY <1>1, FS_Subset, FS_CardinalityType
<1>3. Cardinality(grants') <= Cardinality(grants)
      /\ IsFiniteSet(grants') /\ Cardinality(grants') \in Nat
  BY <1>1, FS_Subset, FS_CardinalityType
<1>4. capacity \in Nat /\ peak \in Nat
  BY DEF TypeOK
<1>5. grants' # {} => grants # {}
  OBVIOUS
<1> QED
  BY <1>1, <1>2, <1>3, <1>4, <1>5 DEF PassFits, SlotsWithinCapacity

(* A grant that lands takes the place that the pass kept for it.           *)
LEMMA GrantFits ==
  ASSUME IInv, TypeOK', NEW g \in grants, ApplyGrant(g), StillValid(g)
  PROVE  /\ PassFits' /\ Cardinality(Holders') <= capacity
         /\ Cardinality(Holders') \in Nat
<1>1. g.name \in live /\ g.name \in Names /\ g.name \notin Holders
  BY DEF IInv, TypeOK, StillValid, IsCandidate, Holders, ActivePhases
<1>2. Holders' = Holders \cup {g.name}
  BY <1>1 DEF ApplyGrant, Holders, IInv, TypeOK, Objects
<1>3. grants' = grants \ {g} /\ capacity' = capacity
  BY DEF ApplyGrant
<1>4. /\ IsFiniteSet(Holders) /\ Cardinality(Holders) \in Nat
      /\ IsFiniteSet(grants) /\ Cardinality(grants) \in Nat
  BY FiniteParts, FS_CardinalityType DEF IInv, PassFits
<1>5. Cardinality(Holders') = Cardinality(Holders) + 1
  BY <1>1, <1>2, <1>4, FS_AddElement
<1>6. IsFiniteSet(grants') /\ Cardinality(grants') = Cardinality(grants) - 1
  BY <1>3, <1>4, FS_RemoveElement
<1>7. Cardinality(Holders) + Cardinality(grants) <= capacity /\ capacity \in Nat
  BY DEF IInv, PassFits, TypeOK
<1>8. Cardinality(grants') \in Nat
  BY <1>6, FS_CardinalityType
<1> QED
  BY <1>3, <1>4, <1>5, <1>6, <1>7, <1>8 DEF PassFits

(* Every step keeps holders and outstanding grants within the capacity.    *)
LEMMA FitsNext ==
  ASSUME IInv, TypeOK', [Next]_vars
  PROVE  /\ PassFits' /\ capacity' <= peak' /\ SlotsWithinCapacity'
         /\ ~(Holders' \subseteq Holders) => Cardinality(Holders') <= capacity
<1>1. /\ capacity \in Nat /\ peak \in Nat /\ capacity' \in Nat /\ peak' \in Nat
      /\ capacity <= peak
  BY DEF IInv, TypeOK
<1>2. CASE RunOnce
  <2>1. Holders' = Holders /\ grants' = Admit /\ capacity' = capacity /\ peak' = peak
    BY <1>2 DEF RunOnce, Holders
  <2>2. Holders \subseteq Occupants
    BY DEF IInv, TypeOK, Holders, Occupants, Occupies, ActivePhases
  <2>3. /\ Cardinality(Holders) <= Cardinality(Occupants)
        /\ Cardinality(Holders) \in Nat /\ Cardinality(Occupants) \in Nat
    BY <2>2, FiniteParts, FS_Subset DEF IInv
  <2>4. /\ IsFiniteSet(Admit)
        /\ Admit # {} => Cardinality(Occupants) + Cardinality(Admit) <= capacity
    BY AdmitFits DEF IInv
  <2>5. Cardinality(Admit) \in Nat
    BY <2>4, FS_CardinalityType
  <2>6. PassFits'
    BY <1>1, <2>1, <2>3, <2>4, <2>5 DEF PassFits
  <2> QED
    BY <1>1, <2>1, <2>6 DEF IInv, SlotsWithinCapacity
<1>3. ASSUME NEW g \in grants, ApplyGrant(g), StillValid(g)
      PROVE  /\ PassFits' /\ capacity' <= peak' /\ SlotsWithinCapacity'
             /\ Cardinality(Holders') <= capacity
  <2>1. /\ PassFits' /\ Cardinality(Holders') <= capacity
        /\ Cardinality(Holders') \in Nat
    BY <1>3, GrantFits
  <2>2. capacity' = capacity /\ peak' = peak
    BY <1>3 DEF ApplyGrant
  <2> QED
    BY <1>1, <2>1, <2>2 DEF SlotsWithinCapacity
<1>4. ASSUME NEW g \in grants, ApplyGrant(g), ~StillValid(g)
      PROVE  /\ PassFits' /\ capacity' <= peak' /\ SlotsWithinCapacity'
             /\ Holders' \subseteq Holders
  <2>1. /\ Holders' = Holders /\ grants' \subseteq grants
        /\ capacity' = capacity /\ peak' = peak
    BY <1>4 DEF ApplyGrant, Holders
  <2> QED
    BY <1>1, <2>1, ShrinkingFits DEF IInv
<1>5. CASE Restart
  <2>1. Holders' = Holders /\ grants' = {}
    BY <1>5 DEF Restart, Holders
  <2>2. peak <= peak' /\ capacity' <= peak'
    BY <1>1, <1>5 DEF Restart
  <2>3. PassFits'
    BY <2>1, FS_EmptySet DEF PassFits
  <2>4. Cardinality(Holders) \in Nat /\ Cardinality(Holders) <= peak
    BY FiniteParts DEF IInv, SlotsWithinCapacity
  <2> QED
    BY <1>1, <2>1, <2>2, <2>3, <2>4 DEF SlotsWithinCapacity
<1>6. CASE ~RunOnce /\ ~Restart /\ \A g \in grants : ~ApplyGrant(g)
  <2>1. Holders' \subseteq Holders
    BY <1>6, HoldersShrink DEF IInv
  <2>2. grants' \subseteq grants /\ capacity' = capacity /\ peak' = peak
    <3>1. CASE Tick \/ UNCHANGED vars
      BY <3>1 DEF Tick, vars
    <3>2. ASSUME NEW g \in grants, GrantLost(g)
          PROVE  grants' \subseteq grants /\ capacity' = capacity /\ peak' = peak
      BY <3>2 DEF GrantLost
    <3>3. ASSUME NEW n \in Names, Environment(n)
          PROVE  grants' \subseteq grants /\ capacity' = capacity /\ peak' = peak
      BY <3>3 DEF Environment, Create, Reconcile, RecordSnapshot, ToggleSuspend,
                  Delete, Remove
    <3> QED
      BY <1>6, <3>1, <3>2, <3>3 DEF Next, Scheduler
  <2> QED
    BY <1>1, <2>1, <2>2, ShrinkingFits DEF IInv
<1> QED
  BY <1>2, <1>3, <1>4, <1>5, <1>6

-----------------------------------------------------------------------------
(* The theorems.                                                           *)

(* The inductive invariant holds initially.                                *)
LEMMA InductiveInit == Init => IInv
<1> SUFFICES ASSUME Init PROVE IInv
  OBVIOUS
<1>1. TypeOK
  BY TypeInit
<1>2. IdentitiesDiffer /\ ActiveIsGranted
  BY DEF Init, IdentitiesDiffer, ActiveIsGranted
<1>3. Holders = {} /\ grants = {} /\ peak = capacity
  BY DEF Init, Holders
<1>4. capacity \in Nat
  BY <1>1 DEF TypeOK
<1>5. PassFits /\ SlotsWithinCapacity
  BY <1>3, <1>4, FS_EmptySet DEF PassFits, SlotsWithinCapacity
<1> QED
  BY <1>1, <1>2, <1>3, <1>4, <1>5 DEF IInv

(* Every step keeps the inductive invariant.                               *)
LEMMA InductiveNext == IInv /\ [Next]_vars => IInv'
<1> SUFFICES ASSUME IInv, [Next]_vars PROVE IInv'
  OBVIOUS
<1>1. TypeOK'
  BY TypeNext DEF IInv
<1>2. IdentitiesDiffer' /\ ActiveIsGranted'
  BY IdentitiesNext, ActiveNext DEF IInv
<1>3. PassFits' /\ capacity' <= peak' /\ SlotsWithinCapacity'
  BY <1>1, FitsNext
<1> QED
  BY <1>1, <1>2, <1>3 DEF IInv

(* The strengthening that carries the proof: every step of the scheduler,  *)
(* of the environments and of the clock keeps the types, the identities    *)
(* apart, an active environment granted, and the pending grants fitting.   *)
THEOREM Inductive == Spec => []IInv
BY InductiveInit, InductiveNext, PTL DEF Spec

(* Type correctness of the slot scheduler (RunOnce, grant and the          *)
(* environments around them).                                              *)
THEOREM TypeCorrect == Spec => []TypeOK
<1>1. IInv => TypeOK
  BY DEF IInv
<1> QED
  BY <1>1, Inductive, PTL

(* Never more slots are held than the largest capacity the scheduler ran   *)
(* with: RunOnce's single List and grant's re-read are enough, whatever    *)
(* else happens between them.                                              *)
THEOREM CapacityHolds == Spec => []SlotsWithinCapacity
<1>1. IInv => SlotsWithinCapacity
  BY DEF IInv
<1> QED
  BY <1>1, Inductive, PTL

(* A grant that RunOnce writes only lands within the current capacity,     *)
(* after a lowered --slot-capacity too.                                    *)
THEOREM GrantsHold == Spec => GrantsWithinCapacity
<1>1. IInv /\ IInv' /\ [Next]_vars =>
        [~(Holders' \subseteq Holders) => Cardinality(Holders') <= capacity]_vars
  BY FitsNext DEF IInv
<1> QED
  BY <1>1, Inductive, PTL DEF Spec, GrantsWithinCapacity
=============================================================================

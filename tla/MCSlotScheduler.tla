-------------------------- MODULE MCSlotScheduler --------------------------
(***************************************************************************)
(* The slot scheduler for TLC.  Names are interchangeable: only UIDs,      *)
(* priorities and times are compared.                                      *)
(***************************************************************************)
EXTENDS SlotScheduler, TLC

Symmetry == Permutations(Names)

Scenario(most, priorities, capacities, time, faulty, events) ==
  [live |-> most, priorities |-> priorities, capacities |-> capacities,
   time |-> time, faults |-> faulty, events |-> events]

(* Three environments and a restart with another capacity; two, of which   *)
(* one is deleted and created again between a list and a grant, ranked by  *)
(* their times in the queue or by their priorities: the times matter only  *)
(* between equal priorities.                                               *)
SafetyScenarios ==
  {Scenario(3, {0}, {1, 2}, 0, 1, {"restart"}),
   Scenario(2, {0}, {1}, 1, 1, {"delete", "lost"}),
   Scenario(2, {0, 1}, {1}, 0, 1, {"delete", "lost"})}

LivenessScenarios == {Scenario(2, {0, 1}, {1}, 0, 0, {"suspend"})}

\* Two environments, and nothing else happens.
Undisturbed == {Scenario(2, {0}, {1}, 0, 0, {})}
=============================================================================

--------------------------- MODULE MCAgentManager ---------------------------
(***************************************************************************)
(* The agents of one operator for TLC.  Agent IDs are random and requests  *)
(* alike, so both are interchangeable.                                     *)
(***************************************************************************)
EXTENDS AgentManager, TLC

Symmetry == Permutations(AgentIDs) \cup Permutations(Requests)

Scenario(ops, cap, agents, calls, faults, deaths, crashes, periodic) ==
  [ops |-> ops, cap |-> cap, agents |-> agents, calls |-> calls, faults |-> faults,
   deaths |-> deaths, crashes |-> crashes, periodic |-> periodic]

\* With the pass at startup alone: two creates race for one slot, a teardown
\* fails twice, an update or a resume fails, is killed or loses a container, a
\* scheduled stop meets an update.  With the ticker's pass too: it meets each
\* kind of request, a container that died, a scheduled stop, a failing call.
SafetyScenarios ==
  {Scenario({"create", "delete", "update"}, 1, 2, 3, 2, 0, 0, FALSE),
   Scenario({"create", "delete", "stop"}, 1, 2, 4, 1, 0, 1, FALSE),
   Scenario({"create", "update"}, 1, 2, 3, 1, 1, 1, FALSE),
   Scenario({"create", "stop", "resume"}, 1, 2, 3, 1, 1, 1, FALSE),
   Scenario({"create", "update", "scheduledStop"}, 2, 2, 4, 0, 0, 0, FALSE),
   Scenario({"create", "delete"}, 2, 2, 3, 0, 0, 0, TRUE),
   Scenario({"create", "delete", "update"}, 1, 1, 3, 1, 0, 0, TRUE),
   Scenario({"create", "delete", "update"}, 1, 1, 3, 0, 1, 0, TRUE),
   Scenario({"create", "update", "scheduledStop"}, 1, 1, 3, 0, 1, 0, TRUE),
   Scenario({"create", "delete", "scheduledStop"}, 1, 1, 3, 1, 0, 0, TRUE),
   Scenario({"create", "stop", "resume"}, 1, 1, 3, 0, 1, 1, TRUE)}

\* The pass runs again and again: an operation is killed, a call fails, a
\* container dies or the daemon restarts.
LivenessScenarios ==
  {Scenario({"create"}, 1, 1, 1, 1, 1, 1, TRUE),
   Scenario({"create"}, 1, 1, 1, 0, 2, 0, TRUE),
   Scenario({"create", "update"}, 1, 1, 2, 1, 0, 1, TRUE),
   Scenario({"create", "delete"}, 1, 1, 2, 0, 0, 1, TRUE),
   Scenario({"create", "delete"}, 1, 1, 2, 0, 1, 0, TRUE),
   Scenario({"create", "stop", "resume"}, 1, 1, 3, 0, 1, 0, TRUE)}

\* A create completes while a pass works on its listing.
StaleListing == {Scenario({"create"}, 1, 1, 1, 0, 0, 0, TRUE)}

\* A stopped agent comes back to a host that is full.
FullHouse == {Scenario({"create", "stop", "resume"}, 1, 2, 4, 0, 0, 0, FALSE)}

\* The process is killed while a wake replaces a container.
KilledInWake == {Scenario({"create", "delete"}, 1, 1, 2, 0, 1, 1, TRUE)}
=============================================================================

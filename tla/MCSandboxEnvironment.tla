----------------------- MODULE MCSandboxEnvironment -----------------------
(***************************************************************************)
(* One environment for TLC.  Each scenario lets some of the events happen  *)
(* together; all of them at once is more than can be explored.             *)
(***************************************************************************)
EXTENDS SandboxEnvironment

Scenario(events, generation, freezes, faulty) ==
  [events |-> events, generation |-> generation, freezes |-> freezes,
   faults |-> faulty]

(* Two freezes with any two failures of pods, hooks, uploads and writes;   *)
(* two edits of spec.suspend against reports and a reconciler that cannot  *)
(* see its class or its pod; every way for a run to end; deletion.         *)
SafetyScenarios ==
  {Scenario({"wait", "evict", "crash", "uploadFails", "statusLost"}, 1, 2, 2),
   Scenario({"wait", "done", "suspend", "classLost", "abort", "podUnobserved"}, 3, 1, 1),
   Scenario({"wait", "done", "exit", "phaseTimeout", "totalTimeout",
             "restoreFails", "podStuck", "probeFails"}, 1, 1, 1),
   Scenario({"done", "delete", "totalTimeout", "uploadFails", "evict"}, 1, 1, 1)}

LivenessScenarios ==
  {Scenario({"wait", "done", "suspend", "totalTimeout"}, 3, 1, 0),
   Scenario({"done", "suspend", "delete", "totalTimeout"}, 2, 1, 0),
   Scenario({"delete", "escape", "totalTimeout"}, 1, 1, 0)}

\* Finish on a class that keeps no snapshots.
FinishOnly == {Scenario({"done", "totalTimeout"}, 1, 1, 0)}

\* Suspend and resume before the first freeze.
EarlySuspend == {Scenario({"wait", "suspend"}, 3, 1, 0)}
=============================================================================

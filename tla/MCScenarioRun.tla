---------------------------- MODULE MCScenarioRun ----------------------------
(***************************************************************************)
(* Small instance of ScenarioRun: a provider of the machine and one of the *)
(* containers, which a user may disable; a scenario with one service and   *)
(* one with two.                                                           *)
(***************************************************************************)
EXTENDS ScenarioRun

CONSTANTS energy, cgroup, web, db, login, checkout

MCScenarios == {{web}, {web, db}}
MCSelections == {{energy}, {energy, cgroup}}

=============================================================================

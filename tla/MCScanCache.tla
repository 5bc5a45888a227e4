------------------------------ MODULE MCScanCache ------------------------------
(* A home directory with a curated cache, a project in it, and in the project a *)
(* package that is walked (agents), a target and a lane.                         *)
EXTENDS ScanCache, RulesChecks, TLC

CONSTANTS home, app, agents, target, lane, none, f

MCParent == (home :> none) @@ (app :> home) @@ (agents :> app) @@ (target :> agents) @@ (lane :> app)
================================================================================

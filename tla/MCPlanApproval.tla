--------------------------- MODULE MCPlanApproval ---------------------------
(* A project directory of unknown class, one entry inside it, and an       *)
(* operating-system directory.                                             *)
EXTENDS PlanApproval, TLC

CONSTANTS project, entry, os, a1, a2, e1, keyFile, emptyKey

MCBelow == [p \in Path |-> IF p = project THEN {entry} ELSE {}]
Approvers == Permutations(Approver)

==============================================================================

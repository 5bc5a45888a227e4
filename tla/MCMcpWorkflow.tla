---------------------------- MODULE MCMcpWorkflow ----------------------------
(* McpWorkflow for TLC.  Workspaces and root lists are interchangeable: the   *)
(* default workspace is treated like any other, and no definition chooses     *)
(* one of them.                                                               *)
EXTENDS McpWorkflow, ToolChecks, DockerChecks, TLC

Alike == Permutations(Workspace) \cup Permutations(RootList)

==============================================================================

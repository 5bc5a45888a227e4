----------------------------- MODULE McpWorkflow -----------------------------
(***************************************************************************)
(* The cleanup workflow of the MCP server: the audit, plan, delete and     *)
(* clear tools of src/src/mcp/server.rs over the contexts of               *)
(* src/src/mcp/state.rs.  The server answers one call at a time and keeps  *)
(* its contexts in memory; what its subprocesses did is on disk.  The      *)
(* Option fields that no handler branches on (plan_file, receipt_file,     *)
(* affidavit_file) and the times are left out; a context not created yet   *)
(* is a fresh one.                                                         *)
(***************************************************************************)
EXTENDS Naturals

CONSTANTS
    Workspace,      \* the directories a call may name (or default to)
    RootList,       \* the non-empty lists of roots a caller may pass
    NoRoots,        \* the empty list: what audit_scan gets with tool_roots
    Unset,          \* audit_roots before any audit_scan
    Explicit,       \* marks a plan whose caller passed its roots
    Home,           \* default_scan_roots: the home directory and /tmp
    MaxCalls        \* bound: how many delete_execute calls are made

ASSUME WorkflowAssumption ==
    /\ {NoRoots, Unset, Explicit, Home} \cap RootList = {}
    /\ NoRoots # Unset /\ NoRoots # Explicit /\ NoRoots # Home
    /\ Unset # Explicit /\ Unset # Home /\ Explicit # Home
    /\ MaxCalls \in Nat

VARIABLES
    ctx,        \* the context of each workspace; audit: its audit log is set and exists
    plan,       \* the workspace's cleanup-plan.json
    receipt,    \* its deletion-receipt.json, by the delete_execute that wrote it
    calls,      \* the delete_execute calls made so far
    deleted,    \* history: whether the subprocess of the last call deleted
    answer      \* history: the last one that was answered DELETE_COMPLETE

mcpVars == <<ctx, plan, receipt, calls, deleted, answer>>

(* The states a context is stored in; the others exist only inside a call. *)
Settled == {"UNSTARTED", "AUDIT_COMPLETE", "AUDIT_FAILED", "PLAN_READY",
            "PLAN_VALIDATION_FAILED", "PLAN_APPROVED", "DELETE_COMPLETE", "DELETE_FAILED"}

Context == [state : Settled, audit : BOOLEAN, roots : RootList \cup {NoRoots, Unset}]
PlanOnDisk == [status : {"absent", "torn", "whole"}, scope : RootList \cup {Home},
             audited : RootList \cup {NoRoots, Unset, Explicit}, approved : BOOLEAN]
ReceiptFile == [status : {"absent", "torn", "whole"}, by : Nat]

Fresh == [state |-> "UNSTARTED", audit |-> FALSE, roots |-> Unset]
NoPlan == [status |-> "absent", scope |-> Home, audited |-> Explicit, approved |-> FALSE]
TornPlan == [NoPlan EXCEPT !.status = "torn"]
NoReceipt == [status |-> "absent", by |-> 0]
NoAnswer == [call |-> 0, receiptOf |-> 0, warned |-> FALSE]

McpInit ==
    /\ ctx = [w \in Workspace |-> Fresh]
    /\ plan = [w \in Workspace |-> NoPlan]
    /\ receipt = [w \in Workspace |-> NoReceipt]
    /\ calls = 0
    /\ deleted = FALSE
    /\ answer = NoAnswer

Goto(w, state) == ctx' = [ctx EXCEPT ![w].state = state]

------------------------------------------------------------------------------
(* can_transition_to, for the transitions audit_scan asks for. *)
AuditAllowed(w) == ctx[w].state \in {"UNSTARTED", "CLEANUP_COMPLETE", "DELETE_FAILED", "AUDIT_FAILED"}

(* Not the code: audit_scan without its record of the roots it scanned. *)
AuditScanForgetful(w, roots) ==
    /\ AuditAllowed(w)
    /\ \/ \E exists \in BOOLEAN :
             ctx' = [ctx EXCEPT ![w].state = "AUDIT_COMPLETE", ![w].audit = exists]
       \/ Goto(w, "AUDIT_FAILED")
    /\ UNCHANGED <<plan, receipt, calls, deleted, answer>>

(* audit_scan runs oclnr audit run, which may leave no log (the volume is full *)
(* and it is dumped) or fail.  A subprocess that cannot be spawned changes    *)
(* nothing, as the modified context is dropped with the error.                *)
AuditScan(w, roots) ==
    /\ AuditAllowed(w)
    /\ \/ \E exists \in BOOLEAN :
             ctx' = [ctx EXCEPT ![w] = [state |-> "AUDIT_COMPLETE", audit |-> exists, roots |-> roots]]
       \/ Goto(w, "AUDIT_FAILED")
    /\ UNCHANGED <<plan, receipt, calls, deleted, answer>>

BuildAllowed(w) == ctx[w].state = "AUDIT_COMPLETE"

(* The roots plan_build passes on are those of the call, else those of the    *)
(* audit; oclnr plan build takes an empty list to mean the default roots.     *)
PlanScope(w, roots) ==
    IF roots # NoRoots THEN roots
    ELSE IF ctx[w].roots \in RootList THEN ctx[w].roots ELSE Home

NewPlan(w, roots) ==
    [status |-> "whole", scope |-> PlanScope(w, roots), approved |-> FALSE,
     audited |-> IF roots = NoRoots THEN ctx[w].roots ELSE Explicit]

(* plan_build: the plan is written, or lost to a full volume (still a success *)
(* for the server); the subprocess may fail, or be killed, before, during or  *)
(* after its write.                                                           *)
PlanBuild(w, roots) ==
    /\ BuildAllowed(w)
    /\ \/ \E written \in {NewPlan(w, roots), TornPlan},
             state \in {"PLAN_READY", "PLAN_VALIDATION_FAILED"} :
             plan' = [plan EXCEPT ![w] = written] /\ Goto(w, state)
       \/ UNCHANGED plan /\ Goto(w, "PLAN_VALIDATION_FAILED")
    /\ UNCHANGED <<receipt, calls, deleted, answer>>

(* Not the code: the approval only returned to the caller, not written. *)
PlanApproveUnsaved(w) ==
    /\ plan[w].status = "whole"
    /\ Goto(w, "PLAN_APPROVED")
    /\ UNCHANGED <<plan, receipt, calls, deleted, answer>>

(* plan_approve asks for no state: the workspace is the plan's directory.  If *)
(* writing the signed plan fails, the file is torn and the context dropped.   *)
PlanApprove(w) ==
    /\ plan[w].status = "whole"
    /\ \/ plan' = [plan EXCEPT ![w].approved = TRUE] /\ Goto(w, "PLAN_APPROVED")
       \/ plan' = [plan EXCEPT ![w] = TornPlan] /\ UNCHANGED ctx
    /\ UNCHANGED <<receipt, calls, deleted, answer>>

------------------------------------------------------------------------------
(* What oclnr delete execute --yes may do to the receipt of workspace w in    *)
(* this call: nothing, if it refuses the plan of pf or cannot open the        *)
(* receipt; write it; or leave it torn.                                       *)
Wrote(w, n) == receipt' = [receipt EXCEPT ![w] = [status |-> "whole", by |-> n]]
Tore(w) == receipt' = [receipt EXCEPT ![w] = [status |-> "torn", by |-> 0]]

(* Not the code: a dumped receipt leaving the previous one in place. *)
DeleteRunKeeping(w, pf, n, exit) ==
    \/ exit # "success" /\ deleted' = FALSE /\ UNCHANGED receipt
    \/ /\ plan[pf].status = "whole" /\ plan[pf].approved
       /\ deleted' = TRUE
       /\ Wrote(w, n) \/ UNCHANGED receipt

DeleteRun(w, pf, n, exit) ==
    \/ exit # "success" /\ deleted' = FALSE /\ UNCHANGED receipt
    \/ /\ plan[pf].status = "whole" /\ plan[pf].approved
       /\ deleted' = TRUE
       /\ \/ Wrote(w, n) \/ Tore(w)
          \/ exit # "success" /\ UNCHANGED receipt

(* delete_execute, whose workspace and plan file are independent arguments.   *)
(* A failure is one only if no receipt exists afterwards, whoever wrote it;   *)
(* a timeout, a spawn error or an unreadable receipt drops the context.       *)
DeleteExecute(w, pf, exit) ==
    /\ calls < MaxCalls
    /\ plan[pf].status # "absent"
    /\ calls' = calls + 1
    /\ DeleteRun(w, pf, calls', exit)
    /\ \/ /\ exit # "killed" /\ receipt'[w].status = "whole"
          /\ Goto(w, "DELETE_COMPLETE")
          /\ answer' = [call |-> calls', receiptOf |-> receipt'[w].by, warned |-> exit = "failure"]
       \/ /\ exit = "failure" /\ receipt'[w].status = "absent"
          /\ Goto(w, "DELETE_FAILED") /\ UNCHANGED answer
       \/ /\ exit = "killed" \/ receipt'[w].status = "torn"
          /\ UNCHANGED <<ctx, answer>>
    /\ UNCHANGED plan

ClearAllowed(w) == ctx[w].audit

(* clear_artifacts copies the audit log away and resets the context, but for  *)
(* the roots of the last audit.                                               *)
ClearArtifacts(w) ==
    /\ ClearAllowed(w)
    /\ ctx' = [ctx EXCEPT ![w] = [state |-> "UNSTARTED", audit |-> FALSE, roots |-> ctx[w].roots]]
    /\ UNCHANGED <<plan, receipt, calls, deleted, answer>>

(* The server stops and is started again: the contexts are gone. *)
Restart ==
    /\ ctx' = [w \in Workspace |-> Fresh]
    /\ UNCHANGED <<plan, receipt, calls, deleted, answer>>

------------------------------------------------------------------------------
McpNext ==
    \/ \E w \in Workspace :
          \/ \E roots \in RootList \cup {NoRoots} : AuditScan(w, roots) \/ PlanBuild(w, roots)
          \/ PlanApprove(w)
          \/ \E pf \in Workspace, exit \in {"success", "failure", "killed"} :
                DeleteExecute(w, pf, exit)
          \/ ClearArtifacts(w)
    \/ Restart

McpSpec == McpInit /\ [][McpNext]_mcpVars

------------------------------------------------------------------------------
(* Every variable ranges over what the server stores and its subprocesses     *)
(* leave; no context is ever stored in the middle of an operation.            *)
McpTypeOK ==
    /\ ctx \in [Workspace -> Context]
    /\ plan \in [Workspace -> PlanOnDisk]
    /\ receipt \in [Workspace -> ReceiptFile]
    /\ calls \in Nat
    /\ deleted \in BOOLEAN
    /\ answer \in [call : Nat, receiptOf : Nat, warned : BOOLEAN]

(* An answer DELETE_COMPLETE without a warning speaks of its own call: the    *)
(* subprocess deleted, and the receipt summarised is the one it wrote, though *)
(* receipts of earlier calls may lie at the same path.                        *)
CleanAnswerIsOwn ==
    calls > 0 /\ answer.call = calls /\ ~answer.warned =>
        answer.receiptOf = answer.call /\ deleted

(* A plan built without explicit roots has exactly the roots of the audit it  *)
(* was built from, whatever failed calls, clears and restarts came between    *)
(* (state.rs audit_roots), when that audit was given roots.                   *)
PlanInheritsAudit ==
    \A w \in Workspace :
        plan[w].status = "whole" /\ plan[w].audited \in RootList \cup {Unset} =>
            plan[w].scope = plan[w].audited

(* PLAN_APPROVED is never claimed of a plan file that is whole and unsigned:  *)
(* no order of builds, approvals, failed writes and restarts separates the    *)
(* server's state from the signature on disk that delete execute asks for.    *)
ApprovalIsOnDisk ==
    \A w \in Workspace :
        ctx[w].state = "PLAN_APPROVED" /\ plan[w].status = "whole" => plan[w].approved

==============================================================================

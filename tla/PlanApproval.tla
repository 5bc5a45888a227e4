----------------------------- MODULE PlanApproval -----------------------------
(***************************************************************************)
(* The plan file cleanup-plan.json, shared by the processes that build it, *)
(* edit it, approve it and execute it: plan build and plan approve         *)
(* (src/src/nouns/plan.rs), the MCP plan_approve tool                      *)
(* (src/src/mcp/server.rs) and the head of delete execute                  *)
(* (src/src/nouns/delete.rs).  Nobody locks the file, every writer         *)
(* truncates it before it writes, and any process may die at any point.    *)
(***************************************************************************)
EXTENDS Naturals, FiniteSets

CONSTANTS
    Path, Below, OsPath, Unsure,    \* as in ApprovedDeletion
    Approver,   \* the plan approve invocations
    Executor,   \* the delete execute invocations
    Secret,     \* the secrets approval_secret may hand to a process
    NoSecret,
    MaxApprovals    \* bound: how many different approvals are signed

ASSUME PlanAssumption ==
    /\ Below \in [Path -> SUBSET Path]
    /\ OsPath \subseteq Path
    /\ Unsure \subseteq Path
    /\ NoSecret \notin Secret
    /\ MaxApprovals \in Nat

VARIABLES
    planFile,   \* the file: absent or torn unless whole
    builder,    \* the plan build in progress
    approver,   \* the plan approve in progress of each approver
    executor,   \* the plan each delete execute works from
    approved,   \* history: the approvals signed
    gone        \* history: the paths removed by executors

vars == <<planFile, builder, approver, executor, approved, gone>>

Abstract == INSTANCE ApprovedDeletion
Covered(items) == Abstract!Covered(items)
Approval == Abstract!Approval

(* The approval block of a plan: the content it was signed for (plan_hash,  *)
(* which leaves the approval out) and the secret that keyed the HMAC.       *)
Unapproved == [of |-> {}, secret |-> NoSecret]
Signature == [of : SUBSET Path, secret : Secret \cup {NoSecret}]
sign_approval(items, s) == [of |-> items, secret |-> s]

(* Not the code: the HMAC checked over the recorded plan_hash only. *)
verify_approvalOfHash(plan, s) ==
    /\ plan.approval # Unapproved
    /\ plan.approval.secret = s

verify_approval(plan, s) ==
    /\ plan.approval # Unapproved
    /\ plan.approval.of = plan.items
    /\ plan.approval.secret = s

PlanFile == [whole : BOOLEAN, items : SUBSET Path, approval : Signature]
Torn == [whole |-> FALSE, items |-> {}, approval |-> Unapproved]
Plan(items, approval) == [whole |-> TRUE, items |-> items, approval |-> approval]
Idle == [pc |-> "idle", items |-> {}]
ApproverIdle == [pc |-> "idle", items |-> {}, secret |-> NoSecret]

Init ==
    /\ planFile = Torn
    /\ builder = Idle
    /\ approver = [a \in Approver |-> ApproverIdle]
    /\ executor = [e \in Executor |-> Idle]
    /\ approved = {}
    /\ gone = {}

(* fs::write into an open, truncated file.  If another writer finished after *)
(* this one truncated, the two texts overlay each other: the later one is    *)
(* whole only if it is at least as long.                                     *)
WriteInto(plan) ==
    \/ planFile' = plan
    \/ planFile.whole /\ planFile' = Torn

------------------------------------------------------------------------------
(* plan build scans (never nominating an OS directory), then opens and writes. *)
BuildOpen(S) ==
    /\ builder.pc = "idle"
    /\ S \cap OsPath = {}
    /\ builder' = [pc |-> "writing", items |-> S]
    /\ planFile' = Torn
    /\ UNCHANGED <<approver, executor, approved, gone>>

BuildWrite ==
    /\ builder.pc = "writing"
    /\ WriteInto(Plan(builder.items, Unapproved))
    /\ builder' = Idle
    /\ UNCHANGED <<approver, executor, approved, gone>>

(* The volume is full, or the process dies: the truncated file stays. *)
BuildFails ==
    /\ builder.pc = "writing"
    /\ builder' = Idle
    /\ UNCHANGED <<planFile, approver, executor, approved, gone>>

(* A hand edit, or autoclean narrowing the plan it built: other items, the *)
(* approval block as it was.                                               *)
Edit(S) ==
    /\ planFile.whole
    /\ planFile' = [planFile EXCEPT !.items = S]
    /\ UNCHANGED <<builder, approver, executor, approved, gone>>

------------------------------------------------------------------------------
(* Not the code: approving without the acknowledgement fence. *)
ApproveSignUnfenced(a, acked, s) ==
    /\ approver[a].pc = "idle"
    /\ planFile.whole
    /\ Cardinality(approved) < MaxApprovals
    /\ approver' = [approver EXCEPT ![a] =
                       [pc |-> "signed", items |-> planFile.items, secret |-> s]]
    /\ approved' = approved \cup {[items |-> planFile.items, acked |-> acked]}
    /\ UNCHANGED <<planFile, builder, executor, gone>>

(* plan approve reads the file once, refuses unknown or irreversible items   *)
(* that are not acknowledged, and signs the content it read, in memory.      *)
ApproveSign(a, acked, s) ==
    /\ approver[a].pc = "idle"
    /\ planFile.whole
    /\ planFile.items \cap Unsure = {} \/ acked
    /\ Cardinality(approved) < MaxApprovals
    /\ approver' = [approver EXCEPT ![a] =
                       [pc |-> "signed", items |-> planFile.items, secret |-> s]]
    /\ approved' = approved \cup {[items |-> planFile.items, acked |-> acked]}
    /\ UNCHANGED <<planFile, builder, executor, gone>>

ApproveOpen(a) ==
    /\ approver[a].pc = "signed"
    /\ approver' = [approver EXCEPT ![a].pc = "writing"]
    /\ planFile' = Torn
    /\ UNCHANGED <<builder, executor, approved, gone>>

ApproveWrite(a) ==
    /\ approver[a].pc = "writing"
    /\ WriteInto(Plan(approver[a].items, sign_approval(approver[a].items, approver[a].secret)))
    /\ approver' = [approver EXCEPT ![a] = ApproverIdle]
    /\ UNCHANGED <<builder, executor, approved, gone>>

ApproveFails(a) ==
    /\ approver[a].pc \in {"signed", "writing"}
    /\ approver' = [approver EXCEPT ![a] = ApproverIdle]
    /\ UNCHANGED <<planFile, builder, executor, approved, gone>>

------------------------------------------------------------------------------
(* DeletionPlanAdjudicator.admit: no item is an operating-system directory. *)
admit(items) == items \cap OsPath = {}

(* delete execute --yes reads the file once; what it admits and verifies is *)
(* the copy it then works from.                                             *)
ExecuteBegin(e, s) ==
    /\ executor[e].pc = "idle"
    /\ planFile.whole
    /\ admit(planFile.items)
    /\ verify_approval(planFile, s)
    /\ executor' = [executor EXCEPT ![e] = [pc |-> "running", items |-> planFile.items]]
    /\ UNCHANGED <<planFile, builder, approver, approved, gone>>

ExecuteRemove(e, p) ==
    /\ executor[e].pc = "running"
    /\ p \in Covered(executor[e].items)
    /\ gone' = gone \cup {p}
    /\ UNCHANGED <<planFile, builder, approver, executor, approved>>

(* The run ends, or is killed. *)
ExecuteEnd(e) ==
    /\ executor[e].pc = "running"
    /\ executor' = [executor EXCEPT ![e] = Idle]
    /\ UNCHANGED <<planFile, builder, approver, approved, gone>>

------------------------------------------------------------------------------
BuilderStep == (\E S \in SUBSET Path : BuildOpen(S)) \/ BuildWrite \/ BuildFails
ApproverStep(a) ==
    \/ \E acked \in BOOLEAN, s \in Secret : ApproveSign(a, acked, s)
    \/ ApproveOpen(a) \/ ApproveWrite(a) \/ ApproveFails(a)
ExecutorStep(e) ==
    \/ \E s \in Secret : ExecuteBegin(e, s)
    \/ \E p \in Path : ExecuteRemove(e, p)
    \/ ExecuteEnd(e)

Next ==
    \/ BuilderStep
    \/ \E S \in SUBSET Path : Edit(S)
    \/ \E a \in Approver : ApproverStep(a)
    \/ \E e \in Executor : ExecutorStep(e)

Spec == Init /\ [][Next]_vars

------------------------------------------------------------------------------
(* Every variable ranges over what the code can store in it; a file that is  *)
(* not whole has nothing to read, and a signing approver has a secret.       *)
TypeOK ==
    /\ planFile \in PlanFile
    /\ planFile.whole \/ planFile = Torn
    /\ builder \in [pc : {"idle", "writing"}, items : SUBSET Path]
    /\ approver \in [Approver -> [pc : {"idle", "signed", "writing"},
                                  items : SUBSET Path, secret : Secret \cup {NoSecret}]]
    /\ \A a \in Approver : approver[a].pc # "idle" => approver[a].secret \in Secret
    /\ executor \in [Executor -> [pc : {"idle", "running"}, items : SUBSET Path]]
    /\ approved \subseteq Approval
    /\ gone \subseteq Path

(* Whatever edits, rebuilds, approvals and crashes happened to the file       *)
(* between the review and the execution, the exact items a running execution  *)
(* works from were signed as a whole by some approver, acknowledged if any of *)
(* them is unknown or irreversible, and hold no operating-system directory    *)
(* (which plan approve itself does not check).                                *)
RunningIsApproved ==
    \A e \in Executor : executor[e].pc = "running" =>
        \E a \in approved :
            /\ a.items = executor[e].items
            /\ Abstract!Admissible(a)
            /\ a.items \cap OsPath = {}

(* The plan-file protocol keeps the promise of ApprovedDeletion: every step   *)
(* that removes a path removes it inside an approved, admitted plan content.  *)
KeepsPromise == Abstract!Spec
==============================================================================

--------------------------- MODULE WorkflowProofs ---------------------------
(***************************************************************************)
(* Proofs about an approved deletion from the scan to the call: the scan   *)
(* whose candidates become the items of a plan (ScanCache), the secret     *)
(* that signs (ApprovalKey), the plan that is signed and executed          *)
(* (PlanApproval), and the server that takes an agent through all of it    *)
(* (McpWorkflow); for any tree of directories, processes, keys, volumes,   *)
(* approvers, workspaces and calls.  The four are separate specifications: *)
(* no theorem is about more than one of them.                              *)
(***************************************************************************)
EXTENDS ApprovalKey, McpWorkflow, PlanApproval, ScanCache, FiniteSetTheorems, TLAPS

------------------------------------------------------------------------------
(* The approval key. *)

(* What the race for the first use of the file preserves: only the call    *)
(* that won create_new may still write, and until it does the file is      *)
(* empty; whoever goes to read has seen the file.                          *)
KInv ==
    /\ KeyTypeOK
    /\ OneKey
    /\ \A p \in Proc : pc[p] = "created" => keyFile = Empty
    /\ \A p, q \in Proc : pc[p] = "created" /\ pc[q] = "created" => p = q
    /\ \A p \in Proc : pc[p] \in {"read", "lost"} => keyFile # Absent

(* Each action of one process keeps the invariant of the race.             *)
LEMMA StepKeepsKInv ==
    ASSUME KInv, NEW p \in Proc, Step(p)
    PROVE  KInv'
<1> USE KeyAssumption DEF KInv, KeyTypeOK, OneKey, MoveTo, Absent, Empty, EnvSecret, NoKey
<1>1. CASE Call(p)
  BY <1>1 DEF Call
<1>2. CASE ReadExisting(p)
  BY <1>2 DEF ReadExisting, TakeKeyFile
<1>3. CASE CreateNew(p)
  BY <1>3 DEF CreateNew
<1>4. CASE ReadAfterLosing(p)
  BY <1>4 DEF ReadAfterLosing, TakeKeyFile
<1>5. CASE WriteKey(p)
  BY <1>5 DEF WriteKey
<1>6. CASE WriteFails(p)
  BY <1>6 DEF WriteFails
<1>7. CASE Crash(p)
  BY <1>7 DEF Crash
<1>8. CASE WriteKeyThenFails(p)
  BY <1>8 DEF WriteKeyThenFails
<1>9. QED
  BY <1>1, <1>2, <1>3, <1>4, <1>5, <1>6, <1>7, <1>8 DEF Step

(* The invariant of the race holds of every behaviour.                     *)
LEMMA RaceInvariant == KeySpec => []KInv
<1>1. KeyInit => KInv
  BY KeyAssumption DEF KeyInit, KInv, KeyTypeOK, OneKey, Absent, Empty, EnvSecret, NoKey
<1>2. KInv /\ [KeyNext]_keyVars => KInv'
  <2>1. CASE KeyNext
    BY <2>1, StepKeepsKInv DEF KeyNext
  <2>2. CASE UNCHANGED keyVars
    BY <2>2 DEF KInv, KeyTypeOK, OneKey, keyVars
  <2>3. QED
    BY <2>1, <2>2
<1>3. QED
  BY <1>1, <1>2, PTL DEF KeySpec

(* Type correctness of the key protocol (config.rs approval_secret).       *)
THEOREM KeyTypeCorrect == KeySpec => []KeyTypeOK
<1>1. KInv => KeyTypeOK
  BY DEF KInv
<1>2. QED
  BY <1>1, RaceInvariant, PTL

(* All calls that took real bytes from the key file took the same bytes,   *)
(* those still in the file.                                                *)
THEOREM KeysAgree == KeySpec => []OneKey
<1>1. KInv => OneKey
  BY DEF KInv
<1>2. QED
  BY <1>1, RaceInvariant, PTL

(* A key, once written, is never replaced: by a racing call, by a retry,   *)
(* or after a crash.                                                       *)
THEOREM KeyNeverClobbered == KeySpec => KeyIsKept
<1>1. KInv /\ [KeyNext]_keyVars => [(keyFile \in Key) => (keyFile' = keyFile)]_keyVars
  <2>1. ASSUME KInv, NEW p \in Proc, Step(p), keyFile \in Key
        PROVE  keyFile' = keyFile
    <3> USE <2>1, KeyAssumption DEF KInv, Absent, Empty, EnvSecret, NoKey
    <3>1. CASE CreateNew(p)
      BY <3>1 DEF CreateNew
    <3>2. CASE WriteKey(p) \/ WriteKeyThenFails(p)
      BY <3>2 DEF WriteKey, WriteKeyThenFails
    <3>3. CASE ~CreateNew(p) /\ ~WriteKey(p) /\ ~WriteKeyThenFails(p)
      BY <3>3 DEF Step, Call, ReadExisting, TakeKeyFile, ReadAfterLosing, WriteFails, Crash
    <3>4. QED
      BY <3>1, <3>2, <3>3
  <2>2. QED
    BY <2>1 DEF KeyNext
<1>2. QED
  BY <1>1, RaceInvariant, PTL DEF KeySpec, KeyIsKept

(* An empty key file is an unfinished one: some call is about to fill it,  *)
(* or one died before it could.                                            *)
THEOREM EmptyKeyExplained == KeySpec => []EmptyIsUnfinished
<1>1. KeyInit => EmptyIsUnfinished
  BY DEF KeyInit, EmptyIsUnfinished, Absent, Empty
<1>2. KInv /\ EmptyIsUnfinished /\ [KeyNext]_keyVars => EmptyIsUnfinished'
  <2>1. ASSUME KInv, EmptyIsUnfinished, NEW p \in Proc, Step(p)
        PROVE  EmptyIsUnfinished'
    <3> USE <2>1, KeyAssumption
        DEF KInv, KeyTypeOK, EmptyIsUnfinished, MoveTo, Absent, Empty, EnvSecret, NoKey
    <3>1. CASE Call(p)
      BY <3>1 DEF Call
    <3>2. CASE ReadExisting(p)
      BY <3>2 DEF ReadExisting, TakeKeyFile
    <3>3. CASE CreateNew(p)
      BY <3>3 DEF CreateNew
    <3>4. CASE ReadAfterLosing(p)
      BY <3>4 DEF ReadAfterLosing, TakeKeyFile
    <3>5. CASE WriteKey(p) \/ WriteKeyThenFails(p)
      BY <3>5 DEF WriteKey, WriteKeyThenFails
    <3>6. CASE WriteFails(p) \/ Crash(p)
      BY <3>6 DEF WriteFails, Crash
    <3>7. QED
      BY <3>1, <3>2, <3>3, <3>4, <3>5, <3>6 DEF Step
  <2>2. CASE UNCHANGED keyVars
    BY <2>2 DEF EmptyIsUnfinished, keyVars
  <2>3. QED
    BY <2>1, <2>2 DEF KeyNext
<1>3. QED
  BY <1>1, <1>2, RaceInvariant, PTL DEF KeySpec

------------------------------------------------------------------------------
(* The workflow of the MCP server.  WInv adds to its properties the two facts *)
(* they rest on: a completed audit has recorded its roots, and no answer is   *)
(* of a later call than the last.                                             *)

Audited == \A w \in Workspace : ctx[w].state = "AUDIT_COMPLETE" => ctx[w].roots # Unset

AnswersArePast == answer.call <= calls

WInv ==
    /\ McpTypeOK
    /\ Audited
    /\ AnswersArePast
    /\ CleanAnswerIsOwn
    /\ PlanInheritsAudit
    /\ ApprovalIsOnDisk

(* Moving a context to another state touches nothing else of it. *)
LEMMA GotoMoves ==
    ASSUME NEW w \in Workspace, NEW state \in Settled, McpTypeOK, Goto(w, state)
    PROVE  /\ ctx' \in [Workspace -> Context]
           /\ ctx'[w].state = state
           /\ \A x \in Workspace : ctx'[x].roots = ctx[x].roots /\ (x # w => ctx'[x] = ctx[x])
<1> DEFINE there == [ctx[w] EXCEPT !.state = state]
<1>1. ctx' = [ctx EXCEPT ![w] = there] /\ ctx \in [Workspace -> Context]
  BY DEF Goto, McpTypeOK
<1>2. there \in Context /\ there.state = state /\ there.roots = ctx[w].roots
  BY <1>1 DEF Context
<1> HIDE DEF there
<1> QED BY <1>1, <1>2

LEMMA SettledStates ==
    {"AUDIT_COMPLETE", "AUDIT_FAILED", "PLAN_READY", "PLAN_VALIDATION_FAILED", "PLAN_APPROVED",
     "DELETE_COMPLETE", "DELETE_FAILED", "UNSTARTED"} \subseteq Settled
BY DEF Settled

LEMMA Starts ==
    /\ Fresh \in Context /\ Fresh.state = "UNSTARTED"
    /\ NoPlan \in PlanOnDisk /\ NoPlan.status = "absent"
    /\ TornPlan \in PlanOnDisk /\ TornPlan.status = "torn"
    /\ NoReceipt \in ReceiptFile
    /\ NoAnswer \in [call : Nat, receiptOf : Nat, warned : BOOLEAN] /\ NoAnswer.call = 0
BY DEF Fresh, Context, Settled, NoPlan, PlanOnDisk, TornPlan, NoReceipt, ReceiptFile, NoAnswer

(* The server starts with fresh contexts and no files. *)
LEMMA InitInvariant == McpInit => WInv
<1> SUFFICES ASSUME McpInit PROVE WInv
  OBVIOUS
<1>1. McpTypeOK
  BY Starts DEF McpInit, McpTypeOK
<1>2. Audited /\ ApprovalIsOnDisk /\ PlanInheritsAudit
  BY Starts DEF McpInit, Audited, ApprovalIsOnDisk, PlanInheritsAudit
<1>3. AnswersArePast /\ CleanAnswerIsOwn
  BY Starts DEF McpInit, AnswersArePast, CleanAnswerIsOwn
<1> QED BY <1>1, <1>2, <1>3 DEF WInv

(* An audit touches contexts only, and records its roots when it completes. *)
LEMMA AuditKeeps ==
    ASSUME NEW w \in Workspace, NEW roots \in RootList \cup {NoRoots}, WInv, AuditScan(w, roots)
    PROVE  WInv'
<1>1. UNCHANGED <<plan, receipt, calls, deleted, answer>>
  BY DEF AuditScan
<1>2. /\ ctx' \in [Workspace -> Context]
      /\ \A x \in Workspace :
            \/ ctx'[x] = ctx[x]
            \/ ctx'[x].state = "AUDIT_COMPLETE" /\ ctx'[x].roots = roots
            \/ ctx'[x].state = "AUDIT_FAILED"
  <2>1. CASE Goto(w, "AUDIT_FAILED")
    BY <2>1, GotoMoves, SettledStates DEF WInv
  <2>2. ASSUME NEW exists \in BOOLEAN,
               ctx' = [ctx EXCEPT ![w] =
                         [state |-> "AUDIT_COMPLETE", audit |-> exists, roots |-> roots]]
        PROVE  <1>2!1 /\ <1>2!2
    BY <2>2, SettledStates DEF WInv, McpTypeOK, Context
  <2> QED BY <2>1, <2>2 DEF AuditScan
<1>3. McpTypeOK'
  BY <1>1, <1>2 DEF WInv, McpTypeOK
<1>4. Audited'
  BY <1>2, WorkflowAssumption DEF WInv, Audited
<1>5. ApprovalIsOnDisk'
  BY <1>1, <1>2 DEF WInv, ApprovalIsOnDisk
<1>6. AnswersArePast' /\ CleanAnswerIsOwn' /\ PlanInheritsAudit'
  BY <1>1 DEF WInv, AnswersArePast, CleanAnswerIsOwn, PlanInheritsAudit
<1> QED BY <1>3, <1>4, <1>5, <1>6 DEF WInv

(* A plan built without roots has those the audit recorded. *)
LEMMA NewPlanInherits ==
    ASSUME NEW w \in Workspace, NEW roots \in RootList \cup {NoRoots},
           ctx[w].roots \in RootList \cup {NoRoots}
    PROVE  LET new == NewPlan(w, roots)
           IN  /\ new \in PlanOnDisk
               /\ new.status = "whole" /\ new.approved = FALSE
               /\ new.audited \in RootList \cup {Unset} => new.scope = new.audited
<1>1. PlanScope(w, roots) \in RootList \cup {Home}
  BY DEF PlanScope
<1>2. NewPlan(w, roots) \in PlanOnDisk
  BY <1>1 DEF NewPlan, PlanOnDisk
<1>3. roots = NoRoots => PlanScope(w, roots) =
                            IF ctx[w].roots \in RootList THEN ctx[w].roots ELSE Home
  BY DEF PlanScope
<1> QED BY <1>2, <1>3, WorkflowAssumption DEF NewPlan

LEMMA BuildKeeps ==
    ASSUME NEW w \in Workspace, NEW roots \in RootList \cup {NoRoots}, WInv, PlanBuild(w, roots)
    PROVE  WInv'
<1>1. ctx[w].roots \in RootList \cup {NoRoots}
  BY DEF WInv, McpTypeOK, Context, Audited, PlanBuild, BuildAllowed
<1> DEFINE new == NewPlan(w, roots)
<1>2. /\ new \in PlanOnDisk
      /\ new.status = "whole" /\ new.approved = FALSE
      /\ new.audited \in RootList \cup {Unset} => new.scope = new.audited
  BY <1>1, NewPlanInherits
<1>3. /\ \/ \E written \in {new, TornPlan} : plan' = [plan EXCEPT ![w] = written]
         \/ plan' = plan
      /\ \E state \in {"PLAN_READY", "PLAN_VALIDATION_FAILED"} : Goto(w, state)
      /\ UNCHANGED <<receipt, calls, deleted, answer>>
  BY DEF PlanBuild
<1> HIDE DEF new
<1>4. /\ plan' \in [Workspace -> PlanOnDisk]
      /\ \A x \in Workspace : plan'[x] = plan[x] \/ plan'[x] = new \/ plan'[x].status = "torn"
      /\ \A x \in Workspace : x # w => plan'[x] = plan[x]
  BY <1>2, <1>3, Starts DEF WInv, McpTypeOK
<1>5. /\ ctx' \in [Workspace -> Context]
      /\ ctx'[w].state \in {"PLAN_READY", "PLAN_VALIDATION_FAILED"}
      /\ \A x \in Workspace : x # w => ctx'[x] = ctx[x]
  BY <1>3, GotoMoves, SettledStates DEF WInv
<1>6. McpTypeOK'
  BY <1>3, <1>4, <1>5 DEF WInv, McpTypeOK
<1>7. Audited' /\ ApprovalIsOnDisk'
  BY <1>4, <1>5 DEF WInv, Audited, ApprovalIsOnDisk
<1>8. PlanInheritsAudit'
  BY <1>2, <1>4 DEF WInv, PlanInheritsAudit
<1>9. AnswersArePast' /\ CleanAnswerIsOwn'
  BY <1>3 DEF WInv, AnswersArePast, CleanAnswerIsOwn
<1> QED BY <1>6, <1>7, <1>8, <1>9 DEF WInv

(* An approval is on disk before the server claims it. *)
LEMMA ApproveKeeps ==
    ASSUME NEW w \in Workspace, WInv, PlanApprove(w)
    PROVE  WInv'
<1> DEFINE signed == [plan[w] EXCEPT !.approved = TRUE]
<1>1. /\ signed \in PlanOnDisk /\ signed.approved
      /\ signed.scope = plan[w].scope /\ signed.audited = plan[w].audited
      /\ signed.status = plan[w].status
  BY DEF WInv, McpTypeOK, PlanOnDisk
<1>2. /\ \/ plan' = [plan EXCEPT ![w] = signed] /\ Goto(w, "PLAN_APPROVED")
         \/ plan' = [plan EXCEPT ![w] = TornPlan] /\ ctx' = ctx
      /\ UNCHANGED <<receipt, calls, deleted, answer>>
  BY DEF PlanApprove
<1> HIDE DEF signed
<1>3. AnswersArePast' /\ CleanAnswerIsOwn'
  BY <1>2 DEF WInv, AnswersArePast, CleanAnswerIsOwn
<1>4. PlanInheritsAudit'
  BY <1>1, <1>2, Starts DEF WInv, McpTypeOK, PlanInheritsAudit
<1>5. /\ ctx' \in [Workspace -> Context]
      /\ \A x \in Workspace : ctx'[x] = ctx[x] \/ (x = w /\ ctx'[x].state = "PLAN_APPROVED")
  <2>1. CASE Goto(w, "PLAN_APPROVED")
    BY <2>1, GotoMoves, SettledStates DEF WInv
  <2>2. CASE ctx' = ctx
    BY <2>2 DEF WInv, McpTypeOK
  <2> QED BY <1>2, <2>1, <2>2
<1>6. McpTypeOK'
  BY <1>1, <1>2, <1>5, Starts DEF WInv, McpTypeOK
<1>7. Audited'
  BY <1>5 DEF WInv, Audited
<1>8. ApprovalIsOnDisk'
  <2>1. CASE plan' = [plan EXCEPT ![w] = signed]
    <3>1. plan'[w].approved /\ \A x \in Workspace : x # w => plan'[x] = plan[x]
      BY <1>1, <2>1 DEF WInv, McpTypeOK
    <3> QED BY <1>5, <3>1 DEF WInv, ApprovalIsOnDisk
  <2>2. CASE plan' = [plan EXCEPT ![w] = TornPlan]
    <3>1. plan'[w].status = "torn" /\ \A x \in Workspace : x # w => plan'[x] = plan[x]
      BY <2>2, Starts DEF WInv, McpTypeOK
    <3> QED BY <1>5, <3>1 DEF WInv, ApprovalIsOnDisk
  <2> QED BY <1>2, <2>1, <2>2
<1> QED BY <1>3, <1>4, <1>6, <1>7, <1>8 DEF WInv

(* A deletion answered without a warning exited with success, so that the     *)
(* receipt found is the one it wrote.                                         *)
LEMMA DeleteKeeps ==
    ASSUME NEW w \in Workspace, NEW pf \in Workspace, NEW exit \in {"success", "failure", "killed"},
           WInv, DeleteExecute(w, pf, exit)
    PROVE  WInv'
<1>1. /\ calls' = calls + 1
      /\ plan' = plan
      /\ calls \in Nat /\ calls' \in Nat
  BY DEF DeleteExecute, WInv, McpTypeOK
<1>2. /\ deleted' \in BOOLEAN
      /\ receipt' \in [Workspace -> ReceiptFile]
      /\ exit = "success" /\ receipt'[w].status = "whole" => deleted' /\ receipt'[w].by = calls'
  <2>1. DeleteRun(w, pf, calls', exit)
    BY DEF DeleteExecute
  <2>2. CASE exit # "success" /\ deleted' = FALSE /\ UNCHANGED receipt
    BY <2>2 DEF WInv, McpTypeOK
  <2>3. CASE deleted' = TRUE /\ Wrote(w, calls')
    BY <2>3, <1>1 DEF WInv, McpTypeOK, Wrote, ReceiptFile
  <2>4. CASE deleted' = TRUE /\ Tore(w)
    BY <2>4 DEF WInv, McpTypeOK, Tore, ReceiptFile
  <2>5. CASE deleted' = TRUE /\ exit # "success" /\ UNCHANGED receipt
    BY <2>5 DEF WInv, McpTypeOK
  <2> QED BY <2>1, <2>2, <2>3, <2>4, <2>5 DEF DeleteRun
<1>3. \/ /\ receipt'[w].status = "whole" /\ Goto(w, "DELETE_COMPLETE")
         /\ exit # "killed"
         /\ answer' = [call |-> calls', receiptOf |-> receipt'[w].by, warned |-> exit = "failure"]
      \/ (Goto(w, "DELETE_FAILED") \/ ctx' = ctx) /\ answer' = answer
  BY DEF DeleteExecute
<1>4. /\ ctx' \in [Workspace -> Context]
      /\ \A x \in Workspace :
            ctx'[x] = ctx[x] \/ ctx'[x].state \in {"DELETE_COMPLETE", "DELETE_FAILED"}
  <2>1. ASSUME NEW state \in {"DELETE_COMPLETE", "DELETE_FAILED"}, Goto(w, state)
        PROVE  <1>4!1 /\ <1>4!2
    BY <2>1, GotoMoves, SettledStates DEF WInv
  <2>2. CASE ctx' = ctx
    BY <2>2 DEF WInv, McpTypeOK
  <2> QED BY <1>3, <2>1, <2>2
<1>5. answer' \in [call : Nat, receiptOf : Nat, warned : BOOLEAN]
  <2>1. receipt'[w].by \in Nat
    BY <1>2 DEF ReceiptFile
  <2>2. CASE answer' = answer
    BY <2>2 DEF WInv, McpTypeOK
  <2>3. CASE answer' = [call |-> calls', receiptOf |-> receipt'[w].by, warned |-> exit = "failure"]
    <3>1. PICK warned \in BOOLEAN : warned = (exit = "failure")
      OBVIOUS
    <3>2. answer' = [call |-> calls', receiptOf |-> receipt'[w].by, warned |-> warned]
      BY <2>3, <3>1
    <3> QED BY <1>1, <2>1, <3>1, <3>2
  <2> QED BY <1>3, <2>2, <2>3
<1>6. McpTypeOK'
  BY <1>1, <1>2, <1>4, <1>5 DEF WInv, McpTypeOK
<1>7. Audited' /\ PlanInheritsAudit' /\ ApprovalIsOnDisk'
  BY <1>1, <1>4 DEF WInv, Audited, PlanInheritsAudit, ApprovalIsOnDisk
<1>8. CASE answer' = answer
  <2>1. answer.call \in Nat
    BY DEF WInv, McpTypeOK
  <2> QED BY <1>1, <1>6, <1>7, <1>8, <2>1 DEF WInv, AnswersArePast, CleanAnswerIsOwn
<1>9. CASE /\ receipt'[w].status = "whole" /\ exit # "killed"
           /\ answer' = [call |-> calls', receiptOf |-> receipt'[w].by, warned |-> exit = "failure"]
  <2>1. AnswersArePast'
    BY <1>1, <1>9 DEF AnswersArePast
  <2>2. CASE exit = "success"
    <3>1. deleted' /\ answer'.receiptOf = answer'.call
      BY <1>2, <1>9, <2>2
    <3> QED BY <1>6, <1>7, <2>1, <3>1 DEF WInv, CleanAnswerIsOwn
  <2>3. CASE exit = "failure"
    <3>1. answer'.warned
      BY <1>9, <2>3
    <3> QED BY <1>6, <1>7, <2>1, <3>1 DEF WInv, CleanAnswerIsOwn
  <2> QED BY <1>9, <2>2, <2>3
<1> QED BY <1>3, <1>8, <1>9

(* Clearing, restarting and stuttering claim nothing. *)
LEMMA ResetKeeps ==
    ASSUME WInv,
           Restart \/ UNCHANGED mcpVars \/ \E w \in Workspace : ClearArtifacts(w)
    PROVE  WInv'
<1>1. UNCHANGED <<plan, receipt, calls, deleted, answer>>
  BY DEF Restart, mcpVars, ClearArtifacts
<1>2. /\ ctx' \in [Workspace -> Context]
      /\ \A w \in Workspace : ctx'[w] = ctx[w] \/ ctx'[w].state = "UNSTARTED"
  <2>1. CASE Restart
    BY <2>1, Starts DEF Restart
  <2>2. CASE UNCHANGED mcpVars
    BY <2>2 DEF mcpVars, WInv, McpTypeOK
  <2>3. CASE \E w \in Workspace : ClearArtifacts(w)
    BY <2>3, SettledStates DEF ClearArtifacts, WInv, McpTypeOK, Context
  <2> QED BY <2>1, <2>2, <2>3
<1>3. McpTypeOK'
  BY <1>1, <1>2 DEF WInv, McpTypeOK
<1>4. Audited' /\ PlanInheritsAudit' /\ ApprovalIsOnDisk'
  BY <1>1, <1>2 DEF WInv, Audited, PlanInheritsAudit, ApprovalIsOnDisk
<1>5. AnswersArePast' /\ CleanAnswerIsOwn'
  BY <1>1 DEF WInv, AnswersArePast, CleanAnswerIsOwn
<1> QED BY <1>3, <1>4, <1>5 DEF WInv

(* WInv holds of every reachable state. *)
LEMMA WorkflowInvariant == McpSpec => []WInv
<1>1. WInv /\ [McpNext]_mcpVars => WInv'
  <2> SUFFICES ASSUME WInv, [McpNext]_mcpVars PROVE WInv'
    OBVIOUS
  <2>1. CASE Restart \/ UNCHANGED mcpVars \/ \E w \in Workspace : ClearArtifacts(w)
    BY <2>1, ResetKeeps
  <2>2. ASSUME NEW w \in Workspace, NEW roots \in RootList \cup {NoRoots},
               AuditScan(w, roots) \/ PlanBuild(w, roots)
        PROVE  WInv'
    BY <2>2, AuditKeeps, BuildKeeps
  <2>3. ASSUME NEW w \in Workspace, PlanApprove(w) PROVE WInv'
    BY <2>3, ApproveKeeps
  <2>4. ASSUME NEW w \in Workspace, NEW pf \in Workspace,
               NEW exit \in {"success", "failure", "killed"}, DeleteExecute(w, pf, exit)
        PROVE  WInv'
    BY <2>4, DeleteKeeps
  <2> QED BY <2>1, <2>2, <2>3, <2>4 DEF McpNext
<1> QED BY InitInvariant, <1>1, PTL DEF McpSpec

------------------------------------------------------------------------------
(* Type correctness: whatever the calls, restarts and failures, no context is *)
(* stored in the middle of an operation.                                      *)
THEOREM WorkflowTypeCorrect == McpSpec => []McpTypeOK
BY WorkflowInvariant, PTL DEF WInv

(* An answer DELETE_COMPLETE without a warning is of a subprocess that        *)
(* deleted and wrote the receipt it is answered with (delete_execute).        *)
THEOREM CleanAnswersAreOwn == McpSpec => []CleanAnswerIsOwn
BY WorkflowInvariant, PTL DEF WInv

(* A plan built without roots has the scope its audit was given (plan_build). *)
THEOREM PlansInheritAudits == McpSpec => []PlanInheritsAudit
BY WorkflowInvariant, PTL DEF WInv

(* PLAN_APPROVED is only claimed of a plan that is signed on disk, or that is *)
(* no longer whole (plan_approve).                                            *)
THEOREM ApprovalsAreOnDisk == McpSpec => []ApprovalIsOnDisk
BY WorkflowInvariant, PTL DEF WInv

------------------------------------------------------------------------------
(* The plan and its approval. *)

(* The plan contents approved with the acknowledgement they need.          *)
ApprovedContents ==
    {S \in SUBSET Path : \E a \in approved : a.items = S /\ Abstract!Admissible(a)}

(* A signature, wherever it is kept, was made for an approved content: in  *)
(* the file (edited since or not), with an approver that has signed and    *)
(* has not yet written, and under a running execution.                     *)
Genuine ==
    /\ planFile.approval # Unapproved => planFile.approval.of \in ApprovedContents
    /\ \A a \in Approver : approver[a].pc # "idle" => approver[a].items \in ApprovedContents
    /\ \A e \in Executor :
          executor[e].pc = "running" =>
              executor[e].items \in ApprovedContents /\ admit(executor[e].items)

PInv == TypeOK /\ Genuine

USE DEF Abstract!Admissible, Abstract!Approval, Approval

LEMMA InitEstablishes == Init => PInv
BY DEF Init, PInv, TypeOK, Genuine, ApprovedContents, PlanFile, Torn, Idle, ApproverIdle,
       Unapproved, Signature

(* No step withdraws an approval. *)
LEMMA ApprovedGrows ==
    ASSUME Next
    PROVE  ApprovedContents \subseteq ApprovedContents'
BY DEF ApprovedContents, Next, BuilderStep, BuildOpen, BuildWrite, BuildFails, Edit, ApproverStep,
       ApproveSign, ApproveOpen, ApproveWrite, ApproveFails, ExecutorStep,
       ExecuteBegin, ExecuteRemove, ExecuteEnd

LEMMA TornFile == Torn \in PlanFile
BY DEF Torn, PlanFile, Unapproved, Signature

LEMMA WholeFile ==
    ASSUME NEW items \in SUBSET Path, NEW approval \in Signature
    PROVE  Plan(items, approval) \in PlanFile /\ Plan(items, approval).whole
BY DEF Plan, PlanFile

LEMMA Signatures ==
    /\ Unapproved \in Signature
    /\ \A items \in SUBSET Path, s \in Secret : sign_approval(items, s) \in Signature
BY DEF Unapproved, Signature, sign_approval

LEMMA StepKeepsTypeOK ==
    ASSUME TypeOK, Next
    PROVE  TypeOK'
<1> USE PlanAssumption, TornFile DEF TypeOK, Idle, ApproverIdle
<1>1. CASE \E S \in SUBSET Path : BuildOpen(S)
  BY <1>1 DEF BuildOpen
<1>2. CASE BuildWrite \/ BuildFails
  BY <1>2, WholeFile, Signatures DEF BuildWrite, BuildFails, WriteInto
<1>3. CASE \E S \in SUBSET Path : Edit(S)
  BY <1>3 DEF Edit, PlanFile
<1>4. CASE \E a \in Approver, acked \in BOOLEAN, s \in Secret : ApproveSign(a, acked, s)
  BY <1>4 DEF ApproveSign, PlanFile
<1>5. CASE \E a \in Approver : ApproveOpen(a)
  <2>1. PICK a \in Approver : ApproveOpen(a)
    BY <1>5
  <2> DEFINE opened == [approver[a] EXCEPT !.pc = "writing"]
  <2>2. approver' = [approver EXCEPT ![a] = opened]
    BY <2>1 DEF ApproveOpen
  <2>3. /\ opened \in [pc : {"idle", "signed", "writing"},
                       items : SUBSET Path, secret : Secret \cup {NoSecret}]
        /\ opened.secret \in Secret
    BY <2>1 DEF ApproveOpen
  <2> HIDE DEF opened
  <2>4. QED
    BY <2>1, <2>2, <2>3 DEF ApproveOpen
<1>6. ASSUME NEW a \in Approver, ApproveWrite(a)
      PROVE  TypeOK'
  <2>1. approver[a].items \in SUBSET Path /\ approver[a].secret \in Secret
    BY <1>6 DEF ApproveWrite
  <2>2. planFile' \in PlanFile /\ (planFile'.whole \/ planFile' = Torn)
    BY <1>6, <2>1, WholeFile, Signatures DEF ApproveWrite, WriteInto
  <2>3. QED
    BY <1>6, <2>2 DEF ApproveWrite
<1>7. CASE \E a \in Approver : ApproveFails(a)
  BY <1>7 DEF ApproveFails
<1>8. CASE \E e \in Executor, s \in Secret : ExecuteBegin(e, s)
  BY <1>8 DEF ExecuteBegin, PlanFile
<1>9. CASE \E e \in Executor, p \in Path : ExecuteRemove(e, p)
  BY <1>9 DEF ExecuteRemove
<1>10. CASE \E e \in Executor : ExecuteEnd(e)
  BY <1>10 DEF ExecuteEnd
<1>11. QED
  BY <1>1, <1>2, <1>3, <1>4, <1>5, <1>6, <1>7, <1>8, <1>9, <1>10
     DEF Next, BuilderStep, ApproverStep, ExecutorStep

(* A file write puts there what the writer holds, or leaves a torn file.   *)
LEMMA WriteKeepsGenuine ==
    ASSUME NEW written, WriteInto(written), NEW contents,
           written.approval = Unapproved \/ written.approval.of \in contents
    PROVE  planFile'.approval = Unapproved \/ planFile'.approval.of \in contents
BY DEF WriteInto, Torn

(* Only approve makes a signature, only build and approve write the file,  *)
(* and an edit leaves the approval block alone.                            *)
LEMMA StepKeepsGenuine ==
    ASSUME PInv, Next
    PROVE  Genuine'
<1>1. ApprovedContents \subseteq ApprovedContents'
  BY ApprovedGrows
<1>2. /\ planFile.approval = Unapproved \/ planFile.approval.of \in ApprovedContents'
      /\ \A a \in Approver : approver[a].pc # "idle" => approver[a].items \in ApprovedContents'
      /\ \A e \in Executor : executor[e].pc = "running" =>
                                  executor[e].items \in ApprovedContents' /\ admit(executor[e].items)
  BY <1>1 DEF PInv, Genuine
<1>3. approver \in [Approver -> [pc : {"idle", "signed", "writing"},
                                items : SUBSET Path, secret : Secret \cup {NoSecret}]]
      /\ executor \in [Executor -> [pc : {"idle", "running"}, items : SUBSET Path]]
  BY DEF PInv, TypeOK
<1> USE <1>2, <1>3 DEF Genuine, admit
<1>4. CASE \E S \in SUBSET Path : BuildOpen(S)
  BY <1>4 DEF BuildOpen, Torn
<1>5. CASE BuildWrite
  <2>1. planFile'.approval = Unapproved \/ planFile'.approval.of \in ApprovedContents'
    BY <1>5, WriteKeepsGenuine DEF BuildWrite, Plan
  <2>2. QED
    BY <1>5, <2>1 DEF BuildWrite
<1>6. CASE BuildFails
  BY <1>6 DEF BuildFails
<1>7. CASE \E S \in SUBSET Path : Edit(S)
  <2>1. planFile'.approval = planFile.approval
    BY <1>7 DEF Edit, PInv, TypeOK, PlanFile
  <2>2. QED
    BY <1>7, <2>1 DEF Edit
<1>8. ASSUME NEW a \in Approver, NEW acked \in BOOLEAN, NEW s \in Secret,
             ApproveSign(a, acked, s)
      PROVE  Genuine'
  <2>1. planFile.items \in ApprovedContents'
    <3> DEFINE given == [items |-> planFile.items, acked |-> acked]
    <3>1. given \in approved' /\ given.items = planFile.items /\ Abstract!Admissible(given)
      BY <1>8 DEF ApproveSign
    <3>2. planFile.items \in SUBSET Path
      BY DEF PInv, TypeOK, PlanFile
    <3>3. QED
      BY <3>1, <3>2 DEF ApprovedContents
  <2>2. QED
    BY <1>8, <2>1 DEF ApproveSign
<1>9. CASE \E a \in Approver : ApproveOpen(a)
  BY <1>9 DEF ApproveOpen, Torn
<1>10. ASSUME NEW a \in Approver, ApproveWrite(a)
       PROVE  Genuine'
  <2>1. planFile'.approval = Unapproved \/ planFile'.approval.of \in ApprovedContents'
    BY <1>10, WriteKeepsGenuine DEF ApproveWrite, Plan, sign_approval
  <2>2. QED
    BY <1>10, <2>1 DEF ApproveWrite, ApproverIdle
<1>11. CASE \E a \in Approver : ApproveFails(a)
  BY <1>11 DEF ApproveFails, ApproverIdle
<1>12. ASSUME NEW e \in Executor, NEW s \in Secret, ExecuteBegin(e, s)
       PROVE  Genuine'
  <2>1. planFile.items \in ApprovedContents' /\ admit(planFile.items)
    BY <1>12 DEF ExecuteBegin, verify_approval
  <2>2. QED
    BY <1>12, <2>1 DEF ExecuteBegin
<1>13. CASE \E e \in Executor : ExecuteEnd(e) \/ \E p \in Path : ExecuteRemove(e, p)
  BY <1>13 DEF ExecuteEnd, ExecuteRemove, Idle
<1>14. QED
  BY <1>4, <1>5, <1>6, <1>7, <1>8, <1>9, <1>10, <1>11, <1>12, <1>13
     DEF Next, BuilderStep, ApproverStep, ExecutorStep

LEMMA PInvHolds == Spec => []PInv
<1>1. PInv /\ [Next]_vars => PInv'
  <2>1. CASE Next
    BY <2>1, StepKeepsTypeOK, StepKeepsGenuine DEF PInv
  <2>2. CASE UNCHANGED vars
    BY <2>2 DEF PInv, TypeOK, Genuine, ApprovedContents, vars
  <2>3. QED
    BY <2>1, <2>2
<1>2. QED
  BY <1>1, InitEstablishes, PTL DEF Spec

------------------------------------------------------------------------------
(* Type correctness of the plan-file protocol.                             *)
THEOREM PlanTypeCorrect == Spec => []TypeOK
<1>1. PInv => TypeOK
  BY DEF PInv
<1>2. QED
  BY <1>1, PInvHolds, PTL

(* Whatever edits, rebuilds, racing approvals, torn writes and crashes     *)
(* happen to the plan file, delete execute only ever works from a content  *)
(* that was approved as a whole and holds no operating-system directory.   *)
THEOREM OnlyApprovedRuns == Spec => []RunningIsApproved
<1>1. PInv => RunningIsApproved
  BY DEF PInv, Genuine, ApprovedContents, RunningIsApproved, admit
<1>2. QED
  BY <1>1, PInvHolds, PTL

(* The plan-file protocol implements ApprovedDeletion.                     *)
THEOREM PlanKeepsPromise == Spec => KeepsPromise
<1>1. Init => Abstract!Init
  BY DEF Init, Abstract!Init
<1>2. PInv /\ [Next]_vars => [Abstract!Next]_<<approved, gone>>
  <2> SUFFICES ASSUME PInv, [Next]_vars
               PROVE  Abstract!Next \/ UNCHANGED <<approved, gone>>
    OBVIOUS
  <2>1. ASSUME NEW a \in Approver, NEW acked \in BOOLEAN, NEW s \in Secret,
               ApproveSign(a, acked, s)
        PROVE  Abstract!Next
    BY <2>1 DEF ApproveSign, Abstract!Next, Abstract!Approve, PInv, TypeOK, PlanFile
  <2>2. ASSUME NEW e \in Executor, NEW p \in Path, ExecuteRemove(e, p)
        PROVE  Abstract!Next
    <3>1. PICK a \in approved : a.items = executor[e].items /\ a.items \cap OsPath = {}
      BY <2>2 DEF ExecuteRemove, PInv, Genuine, ApprovedContents, admit
    <3>2. QED
      BY <2>2, <3>1 DEF ExecuteRemove, Covered, Abstract!Next, Abstract!Remove
  <2>3. CASE ~(\E a \in Approver, acked \in BOOLEAN, s \in Secret : ApproveSign(a, acked, s))
             /\ ~(\E e \in Executor, p \in Path : ExecuteRemove(e, p))
    BY <2>3 DEF Next, vars, BuilderStep, BuildOpen, BuildWrite, BuildFails, Edit,
                ApproverStep, ApproveOpen, ApproveWrite, ApproveFails,
                ExecutorStep, ExecuteBegin, ExecuteEnd
  <2>4. QED
    BY <2>1, <2>2, <2>3
<1>3. QED
  BY <1>1, <1>2, PInvHolds, PTL DEF Spec, KeepsPromise, Abstract!Spec


------------------------------------------------------------------------------
(* The scan: sums over sets, which totals are. *)

Units(f, S) == UNION {{x} \X (1 .. f[x]) : x \in S}

(* A sum is counted by a finite set of units.                                  *)
LEMMA TotalIsNat ==
    ASSUME NEW f, NEW S, IsFiniteSet(S), \A x \in S : f[x] \in Nat
    PROVE  IsFiniteSet(Units(f, S)) /\ Total(f, S) = Cardinality(Units(f, S)) /\ Total(f, S) \in Nat
<1> DEFINE of == [x \in S |-> {x} \X (1 .. f[x])]
           all == {{x} \X (1 .. f[x]) : x \in S}
<1>1. of \in Surjection(S, all)
  BY DEF Surjection
<1>2. IsFiniteSet(all)
  BY <1>1, FS_Surjection
<1>3. \A T \in all : IsFiniteSet(T)
  <2> SUFFICES ASSUME NEW x \in S PROVE IsFiniteSet({x} \X (1 .. f[x]))
    OBVIOUS
  <2>1. f[x] \in Int
    OBVIOUS
  <2>2. IsFiniteSet(1 .. f[x])
    BY <2>1, FS_Interval
  <2>3. IsFiniteSet({x})
    BY FS_Singleton
  <2> QED BY <2>2, <2>3, FS_Product
<1>4. IsFiniteSet(Units(f, S))
  BY <1>2, <1>3, FS_UNION DEF Units
<1> QED BY <1>4, FS_CardinalityType DEF Total, Units

(* Two sets apart have the sum of their sizes.                                 *)
LEMMA DisjointParts ==
    ASSUME NEW S, NEW T, IsFiniteSet(S), IsFiniteSet(T), S \cap T = {}
    PROVE  IsFiniteSet(S \cup T) /\ Cardinality(S \cup T) = Cardinality(S) + Cardinality(T)
<1>1. Cardinality(S) \in Nat /\ Cardinality(T) \in Nat
  BY FS_CardinalityType
<1>2. /\ IsFiniteSet(S \cup T)
      /\ Cardinality(S \cup T) = Cardinality(S) + Cardinality(T) - Cardinality(S \cap T)
  BY FS_Union
<1>3. Cardinality(S \cap T) = 0
  BY FS_EmptySet
<1> QED BY <1>1, <1>2, <1>3

(* The sum over two sets apart is that of their sums.                          *)
LEMMA TotalOfUnion ==
    ASSUME NEW f, NEW S, NEW T, IsFiniteSet(S), IsFiniteSet(T), S \cap T = {},
           \A x \in S \cup T : f[x] \in Nat
    PROVE  Total(f, S \cup T) = Total(f, S) + Total(f, T)
<1>1. Units(f, S \cup T) = Units(f, S) \cup Units(f, T) /\ Units(f, S) \cap Units(f, T) = {}
  BY DEF Units
<1>2. IsFiniteSet(S \cup T)
  BY FS_Union
<1>3. /\ IsFiniteSet(Units(f, S)) /\ IsFiniteSet(Units(f, T))
      /\ Total(f, S) = Cardinality(Units(f, S)) /\ Total(f, T) = Cardinality(Units(f, T))
  BY TotalIsNat
<1>4. Total(f, S \cup T) = Cardinality(Units(f, S \cup T))
  BY <1>2, TotalIsNat
<1> QED BY <1>1, <1>3, <1>4, DisjointParts

LEMMA TotalOfOne ==
    ASSUME NEW f, NEW x, f[x] \in Nat
    PROVE  Total(f, {x}) = f[x]
<1>1. Total(f, {x}) = Cardinality({x} \X (1 .. f[x]))
  BY DEF Total
<1>2. f[x] \in Int /\ 1 \in Int
  OBVIOUS
<1>3. IsFiniteSet(1 .. f[x]) /\ Cardinality(1 .. f[x]) = f[x]
  BY <1>2, FS_Interval
<1>4. IsFiniteSet({x}) /\ Cardinality({x}) = 1
  BY FS_Singleton
<1>5. Cardinality({x} \X (1 .. f[x])) = 1 * f[x]
  BY <1>3, <1>4, FS_Product
<1> QED BY <1>1, <1>5

LEMMA TotalOfNone == \A f : Total(f, {}) = 0
<1>1. \A f : UNION {{x} \X (1 .. f[x]) : x \in {}} = {}
  OBVIOUS
<1> QED BY <1>1, FS_EmptySet DEF Total

(* Only the values on the set matter.                                          *)
LEMMA TotalOfSame ==
    ASSUME NEW f, NEW g, NEW S, \A x \in S : f[x] = g[x]
    PROVE  Total(f, S) = Total(g, S)
<1>1. {{x} \X (1 .. f[x]) : x \in S} = {{x} \X (1 .. g[x]) : x \in S}
  OBVIOUS
<1> QED BY <1>1 DEF Total

(* What is zero need not be counted. *)
LEMMA TotalOfSupport ==
    ASSUME NEW f, NEW S, NEW T, T \subseteq S, \A x \in S \ T : f[x] = 0
    PROVE  Total(f, S) = Total(f, T)
<1>1. \A x \in S \ T : {x} \X (1 .. f[x]) = {}
  <2>1. 1 .. 0 = {}
    OBVIOUS
  <2> QED BY <2>1
<1>2. UNION {{x} \X (1 .. f[x]) : x \in S} = UNION {{x} \X (1 .. f[x]) : x \in T}
  <2>1. \A x \in S : x \in T \/ {x} \X (1 .. f[x]) = {}
    BY <1>1
  <2> DEFINE of(x) == {x} \X (1 .. f[x])
  <2>2. \A x \in S : x \in T \/ of(x) = {}
    BY <2>1
  <2> HIDE DEF of
  <2>3. UNION {of(x) : x \in S} = UNION {of(x) : x \in T}
    BY <2>2
  <2> QED BY <2>3 DEF of
<1> QED BY <1>2 DEF Total

LEMMA TotalWithOne ==
    ASSUME NEW f, NEW S, NEW x \in S, IsFiniteSet(S), \A y \in S : f[y] \in Nat
    PROVE  Total(f, S) = Total(f, S \ {x}) + f[x] /\ Total(f, S \ {x}) \in Nat
<1>1. S = (S \ {x}) \cup {x} /\ (S \ {x}) \cap {x} = {}
  OBVIOUS
<1>2. IsFiniteSet(S \ {x}) /\ IsFiniteSet({x})
  BY FS_RemoveElement, FS_Singleton
<1>3. Total(f, (S \ {x}) \cup {x}) = Total(f, S \ {x}) + Total(f, {x})
  BY <1>2, TotalOfUnion
<1> QED BY <1>1, <1>2, <1>3, TotalOfOne, TotalIsNat

(* One summand changes. *)
LEMMA TotalWhenOneChanges ==
    ASSUME NEW f, NEW g, NEW S, NEW x \in S, IsFiniteSet(S),
           \A y \in S : f[y] \in Nat /\ g[y] \in Nat, \A y \in S \ {x} : g[y] = f[y]
    PROVE  Total(g, S) + f[x] = Total(f, S) + g[x]
<1>1. Total(g, S \ {x}) = Total(f, S \ {x})
  BY TotalOfSame
<1>2. /\ Total(f, S) = Total(f, S \ {x}) + f[x] /\ Total(f, S \ {x}) \in Nat
      /\ Total(g, S) = Total(g, S \ {x}) + g[x] /\ Total(g, S \ {x}) \in Nat
  BY TotalWithOne
<1> QED BY <1>1, <1>2

(* One summand goes over into another. *)
LEMMA TotalWhenOneMoves ==
    ASSUME NEW f, NEW g, NEW S, NEW x \in S, NEW p \in S, p # x, IsFiniteSet(S),
           \A y \in S : f[y] \in Nat /\ g[y] \in Nat, \A y \in S \ {p} : g[y] = f[y],
           g[p] = f[p] + f[x]
    PROVE  Total(g, S \ {x}) = Total(f, S)
<1>1. Total(f, S) = Total(f, S \ {x}) + f[x] /\ Total(f, S \ {x}) \in Nat
  BY TotalWithOne
<1>2. IsFiniteSet(S \ {x})
  BY FS_RemoveElement
<1> DEFINE T == S \ {x}
<1>3. Total(g, T) + f[p] = Total(f, T) + g[p] /\ Total(g, T) \in Nat
  <2>1. p \in T /\ IsFiniteSet(T) /\ (\A y \in T : f[y] \in Nat /\ g[y] \in Nat) /\ \A y \in T \ {p} : g[y] = f[y]
    BY <1>2
  <2> HIDE DEF T
  <2> QED BY <2>1, TotalWhenOneChanges, TotalIsNat
<1> QED BY <1>1, <1>3

------------------------------------------------------------------------------
(* The scan: the tree.                                                         *)

LEMMA AboveTyped == \A n \in Node : Above[n] \subseteq Node /\ n \in Above[n]
BY DEF Above

(* What lies above a node is the least closed set with it.                     *)
LEMMA AboveIsLeast ==
    ASSUME NEW n \in Node, NEW S \in SUBSET Node, n \in S, Closed(S)
    PROVE  Above[n] \subseteq S
BY DEF Above

LEMMA AboveIsClosed == \A n \in Node : Closed(Above[n])
<1> SUFFICES ASSUME NEW n \in Node, NEW m \in Above[n], Parent[m] # Top
             PROVE  Parent[m] \in Above[n]
  BY DEF Closed
<1>1. m \in Node /\ Parent[m] \in Node
  BY AboveTyped, ScanAssumption DEF Node
<1>2. \A S \in SUBSET Node : n \in S /\ Closed(S) => m \in S
  BY DEF Above
<1>3. \A S \in SUBSET Node : n \in S /\ Closed(S) => Parent[m] \in S
  BY <1>2 DEF Closed
<1> QED BY <1>1, <1>3 DEF Above

(* What lies above a node that is above is above.                              *)
LEMMA AboveIsTransitive ==
    ASSUME NEW n \in Node, NEW m \in Above[n]
    PROVE  Above[m] \subseteq Above[n]
BY AboveTyped, AboveIsClosed, AboveIsLeast

LEMMA ParentTyped ==
    ASSUME NEW n \in Node
    PROVE  Parent[n] # Top => Parent[n] \in Dir /\ Parent[n] \in Node /\ Parent[n] \in Above[n] /\ Parent[n] # n
<1> SUFFICES ASSUME Parent[n] # Top
             PROVE  Parent[n] \in Dir /\ Parent[n] \in Node /\ Parent[n] \in Above[n] /\ Parent[n] # n
  OBVIOUS
<1>1. Parent[n] \in Dir /\ Parent[n] \in Node
  BY ScanAssumption DEF Node
<1>2. Parent[n] \in Above[n]
  BY AboveTyped, AboveIsClosed DEF Closed
<1>3. n \notin Above[Parent[n]] /\ Parent[n] \in Above[Parent[n]]
  BY <1>1, AboveTyped, ScanAssumption
<1> QED BY <1>1, <1>2, <1>3

(* What lies above a node is it, and what lies above its parent.               *)
LEMMA AboveParent ==
    ASSUME NEW n \in Node
    PROVE  Above[n] = {n} \cup (IF Parent[n] = Top THEN {} ELSE Above[Parent[n]])
<1> DEFINE S == {n} \cup (IF Parent[n] = Top THEN {} ELSE Above[Parent[n]])
<1>1. CASE Parent[n] = Top
  <2>1. Closed(S) /\ S \in SUBSET Node
    BY <1>1 DEF Closed
  <2> QED BY <1>1, <2>1, AboveTyped, AboveIsLeast
<1>2. CASE Parent[n] # Top
  <2>1. Parent[n] \in Node /\ Parent[n] \in Above[n]
    BY <1>2, ParentTyped
  <2>2. Closed(Above[Parent[n]]) /\ Parent[n] \in Above[Parent[n]] /\ Above[Parent[n]] \subseteq Node
    BY <2>1, AboveTyped, AboveIsClosed
  <2>3. Closed(S) /\ S \in SUBSET Node
    BY <1>2, <2>2 DEF Closed
  <2>4. Above[n] \subseteq S
    BY <2>3, AboveIsLeast
  <2>5. Above[Parent[n]] \subseteq Above[n]
    BY <2>1, AboveIsTransitive
  <2> QED BY <1>2, <2>4, <2>5, AboveTyped
<1> QED BY <1>1, <1>2

(* Of two nodes above a third, one is above the other.                         *)
LEMMA AboveIsChain ==
    ASSUME NEW n \in Node, NEW m \in Above[n], NEW k \in Above[n]
    PROVE  m \in Above[k] \/ k \in Above[m]
<1> DEFINE S == {y \in Node : m \in Above[y]} \cup Above[m]
<1>1. m \in Node /\ Above[m] \subseteq Node /\ Closed(Above[m]) /\ m \in Above[m]
  BY AboveTyped, AboveIsClosed
<1>2. S \in SUBSET Node /\ n \in S
  BY <1>1
<1>3. ASSUME NEW y \in S PROVE Parent[y] \in S \cup {Top}
  <2> SUFFICES ASSUME Parent[y] # Top PROVE Parent[y] \in S
    OBVIOUS
  <2>1. CASE y \in Above[m]
    BY <1>1, <2>1 DEF Closed
  <2>2. CASE y \in Node /\ m \in Above[y] /\ m # y
    <3>1. Parent[y] \in Node /\ m \in Above[Parent[y]]
      BY <2>2, AboveParent, ParentTyped
    <3> QED BY <3>1
  <2> QED BY <1>1, <2>1, <2>2
<1>4. Closed(S)
  BY <1>3 DEF Closed
<1>5. Above[n] \subseteq S
  BY <1>2, <1>4, AboveIsLeast
<1> QED BY <1>5

(* Nothing lies under a leaf but itself.                                       *)
LEMMA LeavesHoldNothing ==
    ASSUME NEW l \in Leaf
    PROVE  Under(l) = {l} /\ Children(l) = {}
<1>1. \A n \in Node : Parent[n] # l
  BY ScanAssumption DEF Node
<1>2. l \in Node /\ l \in Above[l]
  BY AboveTyped DEF Node
<1>3. ASSUME NEW n \in Node, l \in Above[n], n # l PROVE FALSE
  <2>1. Closed(Node \ {l})
    BY <1>1, ScanAssumption DEF Closed, Node
  <2> QED BY <1>3, <2>1, AboveIsLeast
<1> QED BY <1>1, <1>2, <1>3 DEF Under, Children

(* A child lies under its parent with all that is its own.                     *)
LEMMA ChildrenTyped ==
    ASSUME NEW d \in Dir, NEW c \in Children(d)
    PROVE  /\ c \in Node /\ Parent[c] = d /\ c # d /\ d \in Above[c] /\ d \notin Under(c)
           /\ c \in Under(c) /\ Under(c) \subseteq Under(d) /\ c \in Under(d) \ {d}
<1>1. c \in Node /\ Parent[c] = d /\ d # Top /\ d \in Node
  BY ScanAssumption DEF Children, Node
<1>2. d \in Above[c] /\ c # d /\ c \in Above[c] /\ c \notin Above[d]
  BY <1>1, ParentTyped, AboveTyped, ScanAssumption
<1>3. Under(c) \subseteq Under(d)
  BY <1>1, <1>2, AboveIsTransitive DEF Under
<1> QED BY <1>1, <1>2, <1>3 DEF Under

(* Two children of a directory have nothing in common.                         *)
LEMMA SiblingsAreApart ==
    ASSUME NEW d \in Dir, NEW c \in Children(d), NEW e \in Children(d), c # e
    PROVE  Under(c) \cap Under(e) = {}
<1> SUFFICES ASSUME NEW n \in Node, c \in Above[n], e \in Above[n] PROVE FALSE
  BY DEF Under
<1>1. c \in Node /\ e \in Node /\ Parent[c] = d /\ Parent[e] = d /\ d \in Node /\ d # Top
  BY ScanAssumption DEF Children, Node
<1>2. c \in Above[e] \/ e \in Above[c]
  BY AboveIsChain
<1>3. c \in Above[d] \/ e \in Above[d]
  BY <1>1, <1>2, AboveParent
<1> QED BY <1>1, <1>3, ScanAssumption

(* Under a directory lie it and what is under its children.                    *)
LEMMA UnderChildren ==
    ASSUME NEW d \in Dir
    PROVE  Under(d) = {d} \cup UNION {Under(c) : c \in Children(d)}
<1>1. d \in Node /\ d \in Under(d) /\ d # Top
  BY AboveTyped, ScanAssumption DEF Under, Node
<1>2. ASSUME NEW n \in Under(d), n # d PROVE \E c \in Children(d) : n \in Under(c)
  <2> SUFFICES ASSUME \A c \in Children(d) : c \notin Above[n] PROVE FALSE
    BY <1>2 DEF Under
  <2> DEFINE S == {y \in Above[n] : d \in Above[y] /\ y # d}
  <2>1. n \in Node /\ d \in Above[n] /\ n \in S /\ Above[n] \subseteq Node
    BY <1>2, AboveTyped DEF Under
  <2>2. ASSUME NEW y \in S PROVE Parent[y] \in S \cup {Top}
    <3> SUFFICES ASSUME Parent[y] # Top PROVE Parent[y] \in S
      OBVIOUS
    <3>1. y \in Node /\ Parent[y] \in Node /\ d \in Above[Parent[y]]
      BY <2>1, AboveParent, ParentTyped
    <3>2. Parent[y] \in Above[n]
      BY <2>1, AboveIsClosed DEF Closed
    <3>3. Parent[y] # d
      BY <3>1 DEF Children
    <3> QED BY <3>1, <3>2, <3>3
  <2>3. Closed(S) /\ S \in SUBSET Node
    BY <2>1, <2>2 DEF Closed
  <2>4. Above[n] \subseteq S
    BY <2>1, <2>3, AboveIsLeast
  <2> QED BY <2>1, <2>4
<1>3. \A c \in Children(d) : Under(c) \subseteq Under(d)
  BY ChildrenTyped
<1> QED BY <1>1, <1>2, <1>3

(* A child lies one level deeper.                                              *)
LEMMA ChildrenAreDeeper ==
    ASSUME NEW d \in Dir, NEW c \in Children(d)
    PROVE  Depth(c) \in Nat /\ Depth(d) \in Nat /\ Depth(c) = Depth(d) + 1
<1>1. c \in Node /\ Parent[c] = d /\ d \in Node /\ d # Top /\ c \notin Above[d]
  BY ScanAssumption DEF Children, Node
<1>2. Above[c] = Above[d] \cup {c}
  BY <1>1, AboveParent
<1>3. Above[d] \in SUBSET Node
  BY <1>1, AboveTyped
<1>4. IsFiniteSet(Above[d])
  BY <1>3, FS_Subset, ScanAssumption
<1>5. Cardinality(Above[d] \cup {c}) = Cardinality(Above[d]) + 1
  BY <1>1, <1>4, FS_AddElement
<1> QED BY <1>2, <1>4, <1>5, FS_CardinalityType DEF Depth

LEMMA DirsAreFinite ==
    /\ IsFiniteSet(Dir) /\ IsFiniteSet(Leaf)
    /\ \A S \in SUBSET Dir : IsFiniteSet(S) /\ Cardinality(S) \in Nat
<1>1. Dir \in SUBSET Node /\ Leaf \in SUBSET Node
  BY DEF Node
<1>2. IsFiniteSet(Dir) /\ IsFiniteSet(Leaf)
  BY <1>1, FS_Subset, ScanAssumption
<1> QED BY <1>2, FS_Subset, FS_CardinalityType

------------------------------------------------------------------------------
(* The scan: its values.                                                       *)

Scans == [pc : {"idle", "walk", "rollup", "scanned", "fenced", "merged", "planned"},
          root : Root \cup {Top}, hours : Nat, cached : BOOLEAN,
          stage : [Dir -> {"unseen", "found", "entered", "visited", "listed", "hit"}],
          memo : [Dir -> [held : BOOLEAN, names : Names]],
          record : [Dir -> Entry], rolled : SUBSET Dir, files : Nat, bytes : Nat, dirs : Nat,
          linked : BOOLEAN, nominated : SUBSET Artifact, items : SUBSET (Artifact \cup Curated)]

TreeTypes ==
    /\ now \in 0..MaxClock /\ mtime \in [Node -> 0..now]
    /\ size \in [Dir -> [File -> 0..MaxBytes]] /\ room \in [Leaf -> 0..1]
    /\ moved \subseteq Node /\ stale \subseteq Dir

ScanTypes == TreeTypes /\ cache \in [Dir -> Entry] /\ scan \in Scans

LEMMA NoEntryTyped == NoEntry \in Entry
<1>1. NoNames \in Names
  BY DEF NoNames, Names
<1>2. 0 \in 0..MaxClock /\ 0 \in Nat
  BY ScanAssumption
<1> QED BY <1>1, <1>2 DEF NoEntry, Entry

LEMMA NoScanTyped == NoScan \in Scans
<1>1. NoMemo \in [held : BOOLEAN, names : Names]
  BY DEF NoMemo, NoNames, Names
<1>2. /\ [d \in Dir |-> NoMemo] \in [Dir -> [held : BOOLEAN, names : Names]]
      /\ [d \in Dir |-> NoEntry] \in [Dir -> Entry]
      /\ [d \in Dir |-> "unseen"] \in [Dir -> {"unseen", "found", "entered", "visited", "listed", "hit"}]
  BY <1>1, NoEntryTyped
<1> QED BY <1>2 DEF NoScan, Scans

LEMMA ListingTyped == \A d : Listing(d) \in Names
BY DEF Listing, Names, FilesOf

(* What a listing counts is finite.                                            *)
LEMMA CountsAreNat ==
    ASSUME ScanTypes, NEW d \in Dir
    PROVE  /\ BytesOf(d) \in Nat /\ LinkOf(d) \in Nat /\ Cardinality(FilesOf(d)) \in Nat
           /\ IsFiniteSet(FilesOf(d)) /\ LinkOf(d) \in {0, 1}
<1>1. \A f \in File : size[d][f] \in Nat
  <2>1. size[d] \in [File -> 0..MaxBytes]
    BY DEF ScanTypes, TreeTypes
  <2> QED BY <2>1
<1>2. BytesOf(d) \in Nat
  BY <1>1, TotalIsNat, ScanAssumption DEF BytesOf
<1>3. IsFiniteSet(FilesOf(d))
  BY FS_Subset, ScanAssumption DEF FilesOf
<1> QED BY <1>2, <1>3, FS_CardinalityType DEF LinkOf

LEMMA OwnCandidatesTyped ==
    \A d, names : OwnCandidates(d, names) \subseteq Artifact \cap Children(d)
BY DEF OwnCandidates

------------------------------------------------------------------------------
(* The scan: what each step of the command does to its fields.                 *)

(* A scan starts with nothing but its root.                                    *)
LEMMA BeginEffect ==
    ASSUME NEW root \in Root, NEW hours \in {0, Window}, Begin(root, hours)
    PROVE  /\ scan' \in Scans
           /\ scan'.pc = "walk" /\ scan'.root = root /\ scan'.hours = hours
           /\ scan'.stage = [d \in Dir |-> IF d = root THEN "entered" ELSE "unseen"]
           /\ scan'.memo = [d \in Dir |-> NoMemo] /\ scan'.record = [d \in Dir |-> NoEntry]
           /\ scan'.rolled = {} /\ scan'.files = 0 /\ scan'.bytes = 0 /\ scan'.dirs = 0
           /\ scan'.linked = FALSE /\ scan'.items = {}
           /\ scan'.nominated = (IF root \in Lane /\ room[root] > 0 /\ ~RecentlyActive(root, hours)
                                 THEN {root} ELSE {})
<1> DEFINE quiet == root \in Lane /\ room[root] > 0 /\ ~RecentlyActive(root, hours)
           found == IF quiet THEN {root} ELSE {}
           first == [d \in Dir |-> IF d = root THEN "entered" ELSE "unseen"]
<1>1. PICK opened \in BOOLEAN :
        scan' = [NoScan EXCEPT !.pc = "walk", !.root = root, !.hours = hours, !.cached = opened,
                      !.stage = first, !.nominated = found]
  BY Zenon DEF Begin
<1>2. found \in SUBSET Artifact
  BY ScanAssumption
<1>3. first \in [Dir -> {"unseen", "found", "entered", "visited", "listed", "hit"}]
  OBVIOUS
<1>4. hours \in Nat
  BY ScanAssumption
<1> HIDE DEF found, first
<1>5. scan' \in Scans
  BY <1>1, <1>2, <1>3, <1>4, NoScanTyped DEF Scans
<1>6. /\ scan'.pc = "walk" /\ scan'.root = root /\ scan'.hours = hours
      /\ scan'.stage = first /\ scan'.nominated = found
  BY <1>1, NoScanTyped DEF Scans
<1>7. /\ scan'.memo = [d \in Dir |-> NoMemo] /\ scan'.record = [d \in Dir |-> NoEntry]
      /\ scan'.rolled = {} /\ scan'.files = 0 /\ scan'.bytes = 0 /\ scan'.dirs = 0
      /\ scan'.linked = FALSE /\ scan'.items = {}
  BY <1>1 DEF NoScan
<1> QED BY <1>5, <1>6, <1>7 DEF found, first

(* Most steps leave the command, and what it had of the start, alone.          *)
SameCommand ==
    /\ scan'.root = scan.root /\ scan'.hours = scan.hours /\ scan'.cached = scan.cached
    /\ scan'.items = scan.items

(* A replayed entry is added to the totals.                                    *)
LEMMA HitEffect ==
    ASSUME ScanTypes, NEW d \in Dir, NEW e \in Entry, FoldCachedStats(d, e)
    PROVE  /\ scan' \in Scans /\ SameCommand /\ scan'.pc = scan.pc
           /\ scan'.stage = [scan.stage EXCEPT ![d] = "hit"]
           /\ scan'.record = [scan.record EXCEPT ![d] = e]
           /\ scan'.memo = scan.memo /\ scan'.rolled = scan.rolled /\ scan'.linked = scan.linked
           /\ scan'.files = scan.files + e.files /\ scan'.bytes = scan.bytes + e.bytes
           /\ scan'.dirs = scan.dirs + e.dirs
           /\ scan'.nominated = scan.nominated \cup e.found
<1>1. scan \in Scans /\ e.files \in Nat /\ e.bytes \in Nat /\ e.dirs \in Nat /\ e.found \in SUBSET Artifact
  BY DEF ScanTypes, Entry
<1> DEFINE stages == [scan.stage EXCEPT ![d] = "hit"]
           records == [scan.record EXCEPT ![d] = e]
           files == scan.files + e.files
           bytes == scan.bytes + e.bytes
           dirs == scan.dirs + e.dirs
           nominated == scan.nominated \cup e.found
<1>2. scan' = [scan EXCEPT !.stage = stages, !.record = records, !.dirs = dirs,
                           !.files = files, !.bytes = bytes, !.nominated = nominated]
  BY <1>1 DEF FoldCachedStats, Scans
<1>3. /\ stages \in [Dir -> {"unseen", "found", "entered", "visited", "listed", "hit"}]
      /\ records \in [Dir -> Entry] /\ files \in Nat /\ bytes \in Nat /\ dirs \in Nat
      /\ nominated \in SUBSET Artifact
  BY <1>1 DEF Scans
<1> HIDE DEF stages, records, files, bytes, dirs, nominated
<1>4. /\ scan' \in Scans /\ SameCommand /\ scan'.pc = scan.pc
      /\ scan'.stage = stages /\ scan'.record = records
      /\ scan'.memo = scan.memo /\ scan'.rolled = scan.rolled /\ scan'.linked = scan.linked
      /\ scan'.files = files /\ scan'.bytes = bytes /\ scan'.dirs = dirs
      /\ scan'.nominated = nominated
  BY <1>1, <1>2, <1>3 DEF Scans, SameCommand
<1> QED BY <1>4 DEF stages, records, files, bytes, dirs, nominated

(* A directory without one is entered.                                         *)
LEMMA EnterEffect ==
    ASSUME ScanTypes, NEW d \in Dir, Filter(d),
           ~(scan.cached /\ cache[d].held /\ CacheHit(cache[d], mtime[d], Listing(d)))
    PROVE  /\ scan' \in Scans /\ SameCommand /\ scan'.pc = scan.pc
           /\ scan'.stage = [scan.stage EXCEPT ![d] = "entered"]
           /\ \E m \in {NoMemo, [held |-> TRUE, names |-> Listing(d)]} : scan'.memo = [scan.memo EXCEPT ![d] = m]
           /\ scan'.record = scan.record /\ scan'.rolled = scan.rolled /\ scan'.linked = scan.linked
           /\ scan'.files = scan.files /\ scan'.bytes = scan.bytes /\ scan'.dirs = scan.dirs
           /\ scan'.nominated = scan.nominated
<1> DEFINE m == IF scan.cached /\ cache[d].held
                THEN [held |-> TRUE, names |-> Listing(d)] ELSE NoMemo
<1>1. scan' = [scan EXCEPT !.stage[d] = "entered", !.memo[d] = m]
  BY DEF Filter
<1>2. m \in {NoMemo, [held |-> TRUE, names |-> Listing(d)]}
  OBVIOUS
<1>3. m \in [held : BOOLEAN, names : Names]
  BY ListingTyped DEF NoMemo, NoNames, Names
<1> HIDE DEF m
<1>4. scan \in Scans
  BY DEF ScanTypes
<1>5. scan' \in Scans
  BY <1>1, <1>3, <1>4 DEF Scans
<1> QED BY <1>1, <1>2, <1>4, <1>5 DEF Scans, SameCommand

(* The visitor records a directory and its own candidates.                     *)
LEMMA VisitEffect ==
    ASSUME ScanTypes, NEW d \in Dir, Visit(d)
    PROVE  \E names \in {scan.memo[d].names, Listing(d)} :
             /\ names = (IF scan.memo[d].held THEN scan.memo[d].names ELSE Listing(d))
             /\ names \in Names
             /\ scan' \in Scans /\ SameCommand /\ scan'.pc = scan.pc
             /\ scan'.stage = [scan.stage EXCEPT ![d] = "visited"]
             /\ scan'.memo = [scan.memo EXCEPT ![d] = NoMemo]
             /\ scan'.record = [scan.record EXCEPT ![d] =
                   [NoEntry EXCEPT !.held = TRUE, !.mtime = mtime[d],
                       !.names = names, !.dirs = 1, !.found = OwnCandidates(d, names)]]
             /\ scan'.record[d] \in Entry /\ scan'.record[d].files = 0 /\ scan'.record[d].bytes = 0
             /\ scan'.record[d].dirs = 1 /\ scan'.record[d].found = OwnCandidates(d, names)
             /\ scan'.record[d].held
             /\ scan'.rolled = scan.rolled /\ scan'.linked = scan.linked
             /\ scan'.files = scan.files /\ scan'.bytes = scan.bytes /\ scan'.dirs = scan.dirs + 1
             /\ scan'.nominated = scan.nominated \cup OwnCandidates(d, names)
<1> DEFINE names == IF scan.memo[d].held THEN scan.memo[d].names ELSE Listing(d)
           own == OwnCandidates(d, names)
           entry == [NoEntry EXCEPT !.held = TRUE, !.mtime = mtime[d],
                        !.names = names, !.dirs = 1, !.found = own]
<1>1. scan' = [scan EXCEPT !.stage[d] = "visited", !.memo[d] = NoMemo,
                     !.dirs = @ + 1, !.nominated = @ \cup own, !.record[d] = entry]
  BY DEF Visit
<1>2. scan \in Scans
  BY DEF ScanTypes
<1>3. names \in Names
  <2>1. scan.memo[d] \in [held : BOOLEAN, names : Names]
    BY <1>2 DEF Scans
  <2> QED BY <2>1, ListingTyped
<1>4. own \in SUBSET Artifact
  BY OwnCandidatesTyped
<1>5. NoMemo \in [held : BOOLEAN, names : Names]
  BY DEF NoMemo, NoNames, Names
<1>6. mtime[d] \in 0..MaxClock
  <2>1. mtime[d] \in 0..now /\ now \in 0..MaxClock /\ MaxClock \in Nat
    BY ScanAssumption DEF ScanTypes, TreeTypes, Node
  <2> QED BY <2>1
<1> HIDE DEF names, own
<1>7. /\ entry \in Entry /\ entry.files = 0 /\ entry.bytes = 0 /\ entry.dirs = 1
      /\ entry.found = own /\ entry.held
  BY <1>3, <1>4, <1>6, NoEntryTyped DEF Entry, NoEntry
<1>8. scan'.record = [scan.record EXCEPT ![d] = entry]
  BY <1>1, <1>2 DEF Scans
<1>9. entry = [NoEntry EXCEPT !.held = TRUE, !.mtime = mtime[d],
                  !.names = names, !.dirs = 1, !.found = own]
  OBVIOUS
<1> HIDE DEF entry
<1>10. scan' \in Scans /\ scan'.record[d] = entry
  <2> DEFINE stages == [scan.stage EXCEPT ![d] = "visited"]
             memos == [scan.memo EXCEPT ![d] = NoMemo]
             records == [scan.record EXCEPT ![d] = entry]
             nominated == scan.nominated \cup own
             dirs == scan.dirs + 1
  <2>1. scan' = [scan EXCEPT !.stage = stages, !.memo = memos, !.dirs = dirs,
                             !.nominated = nominated, !.record = records]
    BY <1>1, <1>2 DEF Scans
  <2>2. /\ stages \in [Dir -> {"unseen", "found", "entered", "visited", "listed", "hit"}]
        /\ memos \in [Dir -> [held : BOOLEAN, names : Names]] /\ dirs \in Nat
        /\ records \in [Dir -> Entry] /\ nominated \in SUBSET Artifact
        /\ records[d] = entry
    BY <1>2, <1>4, <1>5, <1>7 DEF Scans
  <2> HIDE DEF stages, memos, records, nominated, dirs
  <2> QED BY <1>2, <2>1, <2>2 DEF Scans
<1>11. /\ SameCommand /\ scan'.pc = scan.pc
       /\ scan'.stage = [scan.stage EXCEPT ![d] = "visited"]
       /\ scan'.memo = [scan.memo EXCEPT ![d] = NoMemo]
       /\ scan'.rolled = scan.rolled /\ scan'.linked = scan.linked
       /\ scan'.files = scan.files /\ scan'.bytes = scan.bytes /\ scan'.dirs = scan.dirs + 1
       /\ scan'.nominated = scan.nominated \cup own
  BY <1>1, <1>2 DEF Scans, SameCommand
<1>12. names \in {scan.memo[d].names, Listing(d)}
  BY DEF names
<1>13. WITNESS names \in {scan.memo[d].names, Listing(d)}
<1> QED BY <1>3, <1>7, <1>8, <1>9, <1>10, <1>11 DEF names, own

(* The walker counts the files and finds the directories.                      *)
LEMMA ListEffect ==
    ASSUME ScanTypes, NEW d \in Dir, List(d)
    PROVE  /\ scan' \in Scans /\ SameCommand /\ scan'.pc = scan.pc
           /\ scan'.stage = [n \in Dir |-> IF n = d THEN "listed"
                                   ELSE IF Parent[n] = d THEN "found" ELSE scan.stage[n]]
           /\ scan'.record = [scan.record EXCEPT ![d] =
                 [@ EXCEPT !.files = Cardinality(FilesOf(d)) + LinkOf(d), !.bytes = BytesOf(d) + LinkOf(d)]]
           /\ scan'.record[d].files = Cardinality(FilesOf(d)) + LinkOf(d)
           /\ scan'.record[d].bytes = BytesOf(d) + LinkOf(d)
           /\ scan'.record[d].dirs = scan.record[d].dirs /\ scan'.record[d].found = scan.record[d].found
           /\ scan'.record[d].held = scan.record[d].held
           /\ scan'.memo = scan.memo /\ scan'.rolled = scan.rolled
           /\ scan'.linked = (scan.linked \/ d \in Linked)
           /\ scan'.files = scan.files + Cardinality(FilesOf(d)) + LinkOf(d)
           /\ scan'.bytes = scan.bytes + BytesOf(d) + (IF scan.linked THEN 0 ELSE LinkOf(d))
           /\ scan'.dirs = scan.dirs /\ scan'.nominated = scan.nominated
<1> DEFINE f == Cardinality(FilesOf(d)) + LinkOf(d)
           b == BytesOf(d) + LinkOf(d)
           more == BytesOf(d) + (IF scan.linked THEN 0 ELSE LinkOf(d))
           stages == [n \in Dir |-> IF n = d THEN "listed"
                                    ELSE IF Parent[n] = d THEN "found" ELSE scan.stage[n]]
<1>1. /\ BytesOf(d) \in Nat /\ LinkOf(d) \in Nat /\ Cardinality(FilesOf(d)) \in Nat
  BY CountsAreNat
<1>2. scan \in Scans /\ scan.record[d] \in Entry
  BY DEF ScanTypes, Scans
<1>3. stages \in [Dir -> {"unseen", "found", "entered", "visited", "listed", "hit"}]
  BY <1>2 DEF Scans
<1>4. scan' = [scan EXCEPT !.stage = stages,
          !.files = @ + Cardinality(FilesOf(d)) + LinkOf(d),
          !.bytes = @ + BytesOf(d) + (IF scan.linked THEN 0 ELSE LinkOf(d)),
          !.linked = @ \/ d \in Linked,
          !.record[d] = [@ EXCEPT !.files = f, !.bytes = b]]
  BY DEF List
<1> DEFINE entry == [scan.record[d] EXCEPT !.files = f, !.bytes = b]
<1>5. entry \in Entry /\ entry.files = f /\ entry.bytes = b /\ entry.dirs = scan.record[d].dirs
      /\ entry.found = scan.record[d].found /\ entry.held = scan.record[d].held
  <2>1. f \in Nat /\ b \in Nat
    BY <1>1
  <2> HIDE DEF f, b
  <2> QED BY <1>2, <2>1 DEF Entry
<1>6. scan' = [scan EXCEPT !.stage = stages,
          !.files = @ + Cardinality(FilesOf(d)) + LinkOf(d),
          !.bytes = @ + BytesOf(d) + (IF scan.linked THEN 0 ELSE LinkOf(d)),
          !.linked = @ \/ d \in Linked,
          !.record[d] = entry]
  BY <1>2, <1>4 DEF Scans
<1>7. scan'.stage = stages /\ scan'.record = [scan.record EXCEPT ![d] = entry]
  BY <1>2, <1>6 DEF Scans
<1>8. scan.record[d] \in Entry => [scan.record EXCEPT ![d] = entry]
         = [scan.record EXCEPT ![d] = [@ EXCEPT !.files = f, !.bytes = b]]
  OBVIOUS
<1> HIDE DEF entry, stages, f, b
<1>9. scan' \in Scans /\ scan'.record[d] = entry
  <2> DEFINE files == scan.files + Cardinality(FilesOf(d)) + LinkOf(d)
             bytes == scan.bytes + BytesOf(d) + (IF scan.linked THEN 0 ELSE LinkOf(d))
             linked == scan.linked \/ d \in Linked
             records == [scan.record EXCEPT ![d] = entry]
  <2>1. scan' = [scan EXCEPT !.stage = stages, !.files = files, !.bytes = bytes,
                             !.linked = linked, !.record = records]
    BY <1>2, <1>6 DEF Scans
  <2>2. /\ files \in Nat /\ bytes \in Nat /\ linked \in BOOLEAN
        /\ records \in [Dir -> Entry] /\ records[d] = entry
    BY <1>1, <1>2, <1>5 DEF Scans
  <2> HIDE DEF files, bytes, linked, records
  <2> QED BY <1>2, <1>3, <2>1, <2>2 DEF Scans
<1>10. /\ SameCommand /\ scan'.pc = scan.pc
       /\ scan'.memo = scan.memo /\ scan'.rolled = scan.rolled
       /\ scan'.linked = (scan.linked \/ d \in Linked)
       /\ scan'.files = scan.files + Cardinality(FilesOf(d)) + LinkOf(d)
       /\ scan'.bytes = scan.bytes + BytesOf(d) + (IF scan.linked THEN 0 ELSE LinkOf(d))
       /\ scan'.dirs = scan.dirs /\ scan'.nominated = scan.nominated
  BY <1>2, <1>6 DEF Scans, SameCommand
<1> QED BY <1>2, <1>5, <1>7, <1>8, <1>9, <1>10 DEF stages, f, b

LEMMA FinishEffect ==
    ASSUME ScanTypes, Finish
    PROVE  /\ scan' \in Scans /\ SameCommand
           /\ scan'.pc = (IF scan.cached THEN "rollup" ELSE "scanned")
           /\ scan'.stage = scan.stage /\ scan'.memo = scan.memo /\ scan'.record = scan.record
           /\ scan'.rolled = scan.rolled /\ scan'.linked = scan.linked /\ scan'.files = scan.files
           /\ scan'.bytes = scan.bytes /\ scan'.dirs = scan.dirs /\ scan'.nominated = scan.nominated
<1>1. scan \in Scans
  BY DEF ScanTypes
<1>2. scan' = [scan EXCEPT !.pc = IF scan.cached THEN "rollup" ELSE "scanned"]
  BY DEF Finish
<1> QED BY <1>1, <1>2 DEF Scans, SameCommand

(* A directory rolls up into its parent and nothing else.                      *)
LEMMA RollUpEffect ==
    ASSUME ScanTypes, NEW d \in Dir, RollUp(d)
    PROVE  /\ scan' \in Scans /\ SameCommand /\ scan'.pc = scan.pc
           /\ scan'.stage = scan.stage /\ scan'.memo = scan.memo
           /\ scan'.rolled = scan.rolled \cup {d} /\ scan'.linked = scan.linked
           /\ scan'.files = scan.files /\ scan'.bytes = scan.bytes /\ scan'.dirs = scan.dirs
           /\ scan'.nominated = scan.nominated
           /\ \A c \in Dir : c # Parent[d] => scan'.record[c] = scan.record[c]
           /\ \A p \in Dir : p = Parent[d] =>
                /\ scan'.record[p].held = scan.record[p].held
                /\ scan'.record[p].files = scan.record[p].files + scan.record[d].files
                /\ scan'.record[p].bytes = scan.record[p].bytes + scan.record[d].bytes
                /\ scan'.record[p].dirs = scan.record[p].dirs + scan.record[d].dirs
                /\ scan'.record[p].found = scan.record[p].found \cup scan.record[d].found
<1> DEFINE p == Parent[d]
           sum == Plus(scan.record[p], scan.record[d])
           records == [scan.record EXCEPT ![p] = sum]
           rolled == scan.rolled \cup {d}
<1>1. scan \in Scans /\ \A c \in Dir : scan.record[c] \in Entry
  BY DEF ScanTypes, Scans
<1>2. scan' = [scan EXCEPT !.rolled = rolled, !.record = records]
  BY <1>1 DEF RollUp, Scans
<1>3. p \in Dir =>
        /\ sum \in Entry /\ sum.held = scan.record[p].held
        /\ sum.files = scan.record[p].files + scan.record[d].files
        /\ sum.bytes = scan.record[p].bytes + scan.record[d].bytes
        /\ sum.dirs = scan.record[p].dirs + scan.record[d].dirs
        /\ sum.found = scan.record[p].found \cup scan.record[d].found
  <2> SUFFICES ASSUME p \in Dir
               PROVE  /\ sum \in Entry /\ sum.held = scan.record[p].held
                      /\ sum.files = scan.record[p].files + scan.record[d].files
                      /\ sum.bytes = scan.record[p].bytes + scan.record[d].bytes
                      /\ sum.dirs = scan.record[p].dirs + scan.record[d].dirs
                      /\ sum.found = scan.record[p].found \cup scan.record[d].found
    OBVIOUS
  <2> DEFINE own == scan.record[p]
             e == scan.record[d]
             files == own.files + e.files
             bytes == own.bytes + e.bytes
             dirs == own.dirs + e.dirs
             found == own.found \cup e.found
  <2>1. own \in Entry /\ e \in Entry
    BY <1>1
  <2>2. sum = [own EXCEPT !.dirs = dirs, !.files = files, !.bytes = bytes, !.found = found]
    BY <2>1 DEF Plus, Entry
  <2>3. files \in Nat /\ bytes \in Nat /\ dirs \in Nat /\ found \in SUBSET Artifact
    BY <2>1 DEF Entry
  <2> HIDE DEF files, bytes, dirs, found, sum, own
  <2>4. sum \in Entry /\ sum.held = own.held /\ sum.files = files /\ sum.bytes = bytes
        /\ sum.dirs = dirs /\ sum.found = found
    BY <2>1, <2>2, <2>3 DEF Entry
  <2> QED BY <2>4 DEF files, bytes, dirs, found, own
<1> HIDE DEF sum
<1>4. /\ records \in [Dir -> Entry]
      /\ \A c \in Dir : records[c] = IF c = p THEN sum ELSE scan.record[c]
  BY <1>1, <1>3 DEF Scans
<1> HIDE DEF records, p
<1>5. scan'.record = records /\ scan'.rolled = rolled /\ scan' \in Scans
  BY <1>1, <1>2, <1>4 DEF Scans
<1>6. /\ SameCommand /\ scan'.pc = scan.pc
      /\ scan'.stage = scan.stage /\ scan'.memo = scan.memo /\ scan'.linked = scan.linked
      /\ scan'.files = scan.files /\ scan'.bytes = scan.bytes /\ scan'.dirs = scan.dirs
      /\ scan'.nominated = scan.nominated
  BY <1>1, <1>2 DEF Scans, SameCommand
<1> QED BY <1>3, <1>4, <1>5, <1>6 DEF p

LEMMA StoreEffect ==
    ASSUME ScanTypes, Store
    PROVE  /\ scan' \in Scans /\ SameCommand /\ scan'.pc = "scanned"
           /\ scan'.stage = scan.stage /\ scan'.memo = scan.memo /\ scan'.record = scan.record
           /\ scan'.rolled = scan.rolled /\ scan'.linked = scan.linked /\ scan'.files = scan.files
           /\ scan'.bytes = scan.bytes /\ scan'.dirs = scan.dirs /\ scan'.nominated = scan.nominated
<1>1. scan \in Scans
  BY DEF ScanTypes
<1>2. scan' = [scan EXCEPT !.pc = "scanned"]
  BY DEF Store
<1> QED BY <1>1, <1>2 DEF Scans, SameCommand

LEMMA FenceEffect ==
    ASSUME ScanTypes, Fence
    PROVE  /\ scan' \in Scans /\ scan'.pc = "fenced" /\ scan'.nominated = scan.nominated
           /\ scan'.items = scan.nominated \ (Running \cup Tracked)
<1> DEFINE items == scan.nominated \ (Running \cup Tracked)
<1>1. scan \in Scans /\ NoScan \in Scans
  BY NoScanTyped DEF ScanTypes
<1>2. scan.hours \in Nat /\ scan.nominated \in SUBSET Artifact /\ items \in SUBSET (Artifact \cup Curated)
  BY <1>1 DEF Scans
<1>3. scan' = [NoScan EXCEPT !.pc = "fenced", !.hours = scan.hours, !.nominated = scan.nominated,
                             !.items = items]
  BY DEF Fence
<1> HIDE DEF items
<1>4. scan' \in Scans /\ scan'.pc = "fenced" /\ scan'.nominated = scan.nominated /\ scan'.items = items
  BY <1>1, <1>2, <1>3 DEF Scans
<1> QED BY <1>4 DEF items

Taken(asked) == {c \in Outermost(asked) : (Above[c] \ {c}) \cap scan.items = {}}
Merged(asked) == {n \in scan.items : (Above[n] \ {n}) \cap Taken(asked) = {}} \cup Taken(asked)

LEMMA MergeEffect ==
    ASSUME ScanTypes, MergeGlobalCaches
    PROVE  \E asked \in {{}, Curated} :
              /\ scan' \in Scans /\ scan'.pc = "merged" /\ scan'.nominated = scan.nominated
              /\ scan'.items = Merged(asked)
<1>1. PICK asked \in {{}, Curated} : scan' = [scan EXCEPT !.pc = "merged", !.items = Merged(asked)]
  BY DEF MergeGlobalCaches, Merged, Taken
<1>2. scan \in Scans
  BY DEF ScanTypes
<1>3. Merged(asked) \in SUBSET (Artifact \cup Curated)
  BY <1>2 DEF Merged, Taken, Outermost, Scans
<1>4. scan' \in Scans /\ scan'.pc = "merged" /\ scan'.nominated = scan.nominated
      /\ scan'.items = Merged(asked)
  BY <1>1, <1>2, <1>3 DEF Scans
<1> QED BY <1>4

LEMMA SizeEffect ==
    ASSUME ScanTypes, Size
    PROVE  /\ scan' \in Scans /\ scan'.pc = "planned" /\ scan'.nominated = scan.nominated
           /\ scan'.items = {n \in scan.items : PhysicalSize(n) > 0}
<1> DEFINE items == {n \in scan.items : PhysicalSize(n) > 0}
<1>1. scan' = [scan EXCEPT !.pc = "planned", !.items = items]
  BY DEF Size
<1>2. scan \in Scans
  BY DEF ScanTypes
<1>3. items \in SUBSET (Artifact \cup Curated)
  BY <1>2 DEF Scans
<1> HIDE DEF items
<1>4. scan' \in Scans /\ scan'.pc = "planned" /\ scan'.nominated = scan.nominated /\ scan'.items = items
  BY <1>1, <1>2, <1>3 DEF Scans
<1> QED BY <1>4 DEF items

------------------------------------------------------------------------------
(* The scan: what a change of the tree does.                                   *)

(* A change marks its node as moved and the entries above it as stale.         *)
LEMMA EnvironmentEffect ==
    ASSUME ScanTypes, Environment
    PROVE  /\ UNCHANGED <<cache, scan>> /\ TreeTypes'
           /\ stale \subseteq stale' /\ (scan.pc # "idle" => moved \subseteq moved')
           /\ \A d \in Dir : size'[d] # size[d] =>
                 Above[d] \cap Dir \subseteq stale' /\ (scan.pc # "idle" => d \in moved')
           /\ \A l \in Leaf : room'[l] # room[l] =>
                 Above[l] \cap Dir \subseteq stale' /\ (scan.pc # "idle" => l \in moved')
           /\ scan.pc # "idle" =>
                 \A l \in Lane : l \notin moved' => mtime'[l] = mtime[l] /\ now' = now
<1>1. /\ now \in Nat /\ now \in 0..MaxClock /\ now \in 0..now /\ MaxBytes \in Nat /\ MaxClock \in Nat
      /\ mtime \in [Node -> 0..now] /\ size \in [Dir -> [File -> 0..MaxBytes]]
      /\ room \in [Leaf -> 0..1] /\ moved \subseteq Node /\ stale \subseteq Dir
  BY ScanAssumption DEF ScanTypes, TreeTypes
<1>2. Dir \subseteq Node /\ Leaf \subseteq Node /\ Lane \subseteq Leaf /\ Dir \cap Leaf = {}
  BY ScanAssumption DEF Node
<1>3. ASSUME NEW n \in Node, Changes(n)
      PROVE  /\ UNCHANGED <<now, cache, scan>> /\ moved' \subseteq Node /\ stale' \subseteq Dir
             /\ stale \subseteq stale' /\ (scan.pc # "idle" => moved \subseteq moved' /\ n \in moved')
             /\ Above[n] \cap Dir \subseteq stale'
  BY <1>1, <1>3 DEF Changes
<1>4. ASSUME NEW d \in Dir, NEW f \in File, NEW v \in 0..MaxBytes, size' = [size EXCEPT ![d][f] = v]
      PROVE  size' \in [Dir -> [File -> 0..MaxBytes]] /\ \A c \in Dir : size'[c] # size[c] => c = d
  <2>1. size' = [size EXCEPT ![d] = [size[d] EXCEPT ![f] = v]]
    BY <1>1, <1>4
  <2>2. [size[d] EXCEPT ![f] = v] \in [File -> 0..MaxBytes]
    BY <1>1
  <2> QED BY <1>1, <2>1, <2>2
<1>5. ASSUME NEW d \in Dir, mtime' = [mtime EXCEPT ![d] = now]
      PROVE  mtime' \in [Node -> 0..now] /\ \A l \in Lane : mtime'[l] = mtime[l]
  BY <1>1, <1>2, <1>5
<1>6. ASSUME NEW d \in Dir, NEW f \in File
      PROVE  size[d][f] \in Nat /\ (size[d][f] \in 1..(MaxBytes - 1) => size[d][f] + 1 \in 0..MaxBytes)
  <2>1. size[d][f] \in 0..MaxBytes
    BY <1>1
  <2> QED BY <1>1, <2>1
<1>7. CASE \E d \in Dir, f \in File : Grow(d, f)
  <2> PICK d \in Dir, f \in File : Grow(d, f)
    BY <1>7
  <2>1. size' = [size EXCEPT ![d][f] = size[d][f] + 1] /\ size[d][f] + 1 \in 0..MaxBytes
    BY <1>6 DEF Grow
  <2>2. Changes(d) /\ UNCHANGED <<mtime, room>>
    BY DEF Grow
  <2>3. size' \in [Dir -> [File -> 0..MaxBytes]] /\ \A c \in Dir : size'[c] # size[c] => c = d
    BY <1>4, <2>1
  <2> QED BY <1>1, <1>2, <1>3, <2>2, <2>3 DEF TreeTypes
<1>8. CASE \E d \in Dir, f \in File : Replace(d, f)
  <2> PICK d \in Dir, f \in File : Replace(d, f)
    BY <1>8
  <2>1. size' = [size EXCEPT ![d][f] = size[d][f] + 1] /\ size[d][f] + 1 \in 0..MaxBytes
    BY <1>6 DEF Replace
  <2>2. Changes(d) /\ UNCHANGED room /\ mtime' = [mtime EXCEPT ![d] = now]
    BY DEF Replace
  <2>3. size' \in [Dir -> [File -> 0..MaxBytes]] /\ \A c \in Dir : size'[c] # size[c] => c = d
    BY <1>4, <2>1
  <2> QED BY <1>1, <1>2, <1>3, <1>5, <2>2, <2>3 DEF TreeTypes
<1>9. CASE \E d \in Dir, f \in File : Unlink(d, f)
  <2> PICK d \in Dir, f \in File : Unlink(d, f)
    BY <1>9
  <2> DEFINE v == IF size[d][f] > 0 THEN 0 ELSE 1
  <2>1. size' = [size EXCEPT ![d][f] = v] /\ v \in 0..MaxBytes
    BY <1>1, ScanAssumption DEF Unlink
  <2>2. Changes(d) /\ UNCHANGED room /\ mtime' = [mtime EXCEPT ![d] = now]
    BY DEF Unlink
  <2>3. size' \in [Dir -> [File -> 0..MaxBytes]] /\ \A c \in Dir : size'[c] # size[c] => c = d
    BY <1>4, <2>1
  <2> QED BY <1>1, <1>2, <1>3, <1>5, <2>2, <2>3 DEF TreeTypes
<1>10. CASE \E l \in Leaf : Make(l)
  <2> PICK l \in Leaf : Make(l)
    BY <1>10
  <2>1. /\ room' = [room EXCEPT ![l] = IF room[l] > 0 THEN 0 ELSE 1] /\ UNCHANGED size /\ Changes(l)
        /\ mtime' = [n \in Node |-> IF n \in {l, Parent[l]} THEN now ELSE mtime[n]]
    BY DEF Make
  <2>2. room' \in [Leaf -> 0..1] /\ \A k \in Leaf : room'[k] # room[k] => k = l
    BY <1>1, <2>1
  <2>3. Parent[l] \notin Leaf /\ l \in Node
    BY <1>2, ScanAssumption DEF Node
  <2>4. mtime' \in [Node -> 0..now] /\ \A k \in Lane : k # l => mtime'[k] = mtime[k]
    BY <1>1, <1>2, <2>1, <2>3
  <2> QED BY <1>1, <1>2, <1>3, <2>1, <2>2, <2>3, <2>4 DEF TreeTypes
<1>11. CASE \E l \in Lane : Compile(l)
  <2> PICK l \in Lane : Compile(l)
    BY <1>11
  <2>1. mtime' = [mtime EXCEPT ![l] = now] /\ UNCHANGED <<size, room>> /\ Changes(l) /\ l \in Node
    BY <1>2 DEF Compile
  <2>2. mtime' \in [Node -> 0..now] /\ \A k \in Lane : k # l => mtime'[k] = mtime[k]
    BY <1>1, <1>2, <2>1
  <2> QED BY <1>1, <1>2, <1>3, <2>1, <2>2 DEF TreeTypes
<1>12. CASE Tick
  <2>1. /\ now' = now + 1 /\ now < MaxClock /\ UNCHANGED <<mtime, size, room, cache, scan, stale>>
        /\ moved' = IF scan.pc = "idle" THEN {} ELSE moved \cup Lane
    BY <1>12 DEF Tick, tree
  <2>2. now' \in 0..MaxClock /\ mtime' \in [Node -> 0..now']
    <3>1. 0..now \subseteq 0..now'
      BY <1>1, <2>1
    <3> QED BY <1>1, <2>1, <3>1
  <2> QED BY <1>1, <1>2, <2>1, <2>2 DEF TreeTypes
<1> QED BY <1>7, <1>8, <1>9, <1>10, <1>11, <1>12 DEF Environment

(* Every step keeps the values of their types.                                 *)
LEMMA ScanTypesHold ==
    /\ ScanInit => ScanTypes
    /\ ScanTypes /\ [ScanNext]_scanVars => ScanTypes'
<1>1. ASSUME ScanInit PROVE ScanTypes
  <2>1. 1 \in 0..MaxBytes /\ 0 \in 0..MaxClock /\ 0 \in 0..0 /\ 1 \in 0..1
    BY ScanAssumption
  <2>2. now = 0 /\ now \in 0..MaxClock /\ mtime \in [Node -> 0..now] /\ room \in [Leaf -> 0..1]
    BY <1>1, <2>1 DEF ScanInit
  <2>3. size \in [Dir -> [File -> 0..MaxBytes]]
    BY <1>1, <2>1 DEF ScanInit
  <2>4. cache \in [Dir -> Entry] /\ scan \in Scans
    BY <1>1, NoEntryTyped, NoScanTyped DEF ScanInit
  <2> QED BY <1>1, <2>2, <2>3, <2>4 DEF ScanInit, ScanTypes, TreeTypes
<1>2. ASSUME ScanTypes, [ScanNext]_scanVars PROVE ScanTypes'
  <2> USE <1>2
  <2>1. ASSUME UNCHANGED <<now, tree, stale>>, moved' \in {{}, moved} PROVE TreeTypes'
    BY <2>1 DEF ScanTypes, TreeTypes, tree
  <2>2. ASSUME UNCHANGED <<now, tree, moved, stale>> PROVE TreeTypes'
    BY <2>2 DEF ScanTypes, TreeTypes, tree
  <2>3. CASE Environment
    BY <2>3, EnvironmentEffect DEF ScanTypes
  <2>4. ASSUME NEW root \in Root, NEW hours \in {0, Window}, Begin(root, hours) PROVE ScanTypes'
    <3>1. scan' \in Scans
      BY <2>4, BeginEffect
    <3>2. UNCHANGED <<now, tree, stale>> /\ moved' = {} /\ cache' \in {cache, [d \in Dir |-> NoEntry]}
      BY <2>4 DEF Begin
    <3> QED BY <2>1, <3>1, <3>2, NoEntryTyped DEF ScanTypes
  <2>5. ASSUME NEW d \in Dir, Filter(d) PROVE ScanTypes'
    <3>1. UNCHANGED <<now, tree, cache, moved, stale>>
      BY <2>5 DEF Filter, Walks
    <3>2. scan' \in Scans
      <4>1. CASE scan.cached /\ cache[d].held /\ CacheHit(cache[d], mtime[d], Listing(d))
        <5>1. FoldCachedStats(d, cache[d]) /\ cache[d] \in Entry
          BY <2>5, <4>1 DEF Filter, ScanTypes
        <5> QED BY <5>1, HitEffect
      <4> QED BY <2>5, <4>1, EnterEffect
    <3> QED BY <2>2, <3>1, <3>2 DEF ScanTypes
  <2>6. ASSUME NEW d \in Dir, Visit(d) PROVE ScanTypes'
    <3>1. UNCHANGED <<now, tree, cache, moved, stale>> /\ scan' \in Scans
      BY <2>6, VisitEffect DEF Visit, Walks
    <3> QED BY <2>2, <3>1 DEF ScanTypes
  <2>7. ASSUME NEW d \in Dir, List(d) PROVE ScanTypes'
    <3>1. UNCHANGED <<now, tree, cache, moved, stale>> /\ scan' \in Scans
      BY <2>7, ListEffect DEF List, Walks
    <3> QED BY <2>2, <3>1 DEF ScanTypes
  <2>8. ASSUME NEW d \in Dir, RollUp(d) PROVE ScanTypes'
    <3>1. UNCHANGED <<now, tree, cache, moved, stale>> /\ scan' \in Scans
      BY <2>8, RollUpEffect DEF RollUp
    <3> QED BY <2>2, <3>1 DEF ScanTypes
  <2>9. CASE Finish
    <3>1. UNCHANGED <<now, tree, cache, moved, stale>> /\ scan' \in Scans
      BY <2>9, FinishEffect DEF Finish, Walks
    <3> QED BY <2>2, <3>1 DEF ScanTypes
  <2>10. CASE Store
    <3>1. UNCHANGED <<now, tree, moved>> /\ scan' \in Scans
      BY <2>10, StoreEffect DEF Store
    <3>2. cache' \in [Dir -> Entry] /\ stale' \subseteq Dir
      BY <2>10 DEF Store, ScanTypes, TreeTypes, Scans
    <3> QED BY <3>1, <3>2 DEF ScanTypes, TreeTypes, tree
  <2>11. CASE Fence
    <3>1. UNCHANGED <<now, tree, cache, moved, stale>> /\ scan' \in Scans
      BY <2>11, FenceEffect DEF Fence, Builds
    <3> QED BY <2>2, <3>1 DEF ScanTypes
  <2>12. CASE MergeGlobalCaches
    <3>1. UNCHANGED <<now, tree, cache, moved, stale>> /\ scan' \in Scans
      BY <2>12, MergeEffect DEF MergeGlobalCaches, Builds
    <3> QED BY <2>2, <3>1 DEF ScanTypes
  <2>13. CASE Size
    <3>1. UNCHANGED <<now, tree, cache, moved, stale>> /\ scan' \in Scans
      BY <2>13, SizeEffect DEF Size, Builds
    <3> QED BY <2>2, <3>1 DEF ScanTypes
  <2>14. CASE End \/ Kill
    <3>1. UNCHANGED <<now, tree, cache, stale>> /\ moved' = {} /\ scan' \in Scans
      BY <2>14, NoScanTyped DEF End, Kill, Builds
    <3> QED BY <2>1, <3>1 DEF ScanTypes
  <2>15. CASE UNCHANGED scanVars
    BY <2>15 DEF scanVars, tree, ScanTypes, TreeTypes
  <2> QED BY <2>3, <2>4, <2>5, <2>6, <2>7, <2>8, <2>9, <2>10, <2>11, <2>12, <2>13, <2>14, <2>15
          DEF ScanNext, Command
<1> QED BY <1>1, <1>2

(* Every value the tree, the cache and a scan take is one of its type          *)
(* (fs.rs, scan_cache.rs, plan.rs).                                            *)
THEOREM ScanTypeCorrect == ScanSpec => []ScanTypeOK
<1>1. ScanTypes => ScanTypeOK
  BY DEF ScanTypes, TreeTypes, Scans, ScanTypeOK
<1> QED BY <1>1, ScanTypesHold, PTL DEF ScanSpec

------------------------------------------------------------------------------
(* The scan: the plan made of its candidates.                                  *)

Fit == scan.nominated \ (Running \cup Tracked)

Plans ==
    /\ scan.pc = "fenced" => scan.items = Fit
    /\ scan.pc = "merged" => \A n \in Fit : Above[n] \cap scan.items # {}
    /\ scan.pc = "planned" => \A n \in Fit :
          n \in Leaf /\ room[n] > 0 /\ moved = {} => Above[n] \cap scan.items # {}
    /\ scan.pc \in {"merged", "planned"} => \A n \in scan.items :
          /\ (Above[n] \ {n}) \cap scan.items \cap (Curated \ Artifact) = {}
          /\ n \in Running \cup Tracked => n \in Curated

(* What a leaf with bytes lies in is not dropped as empty.                     *)
LEMMA WhatHoldsBytesHasSize ==
    ASSUME ScanTypes, NEW n \in Leaf, room[n] > 0, NEW a \in Above[n]
    PROVE  PhysicalSize(a) > 0
<1>1. n \in Node /\ a \in Node /\ n \in Under(a)
  BY AboveTyped DEF Node, Under
<1>2. room \in [Leaf -> 0..1] /\ room[n] \in Nat
  BY DEF ScanTypes, TreeTypes
<1>3. CASE a \in Leaf
  <2>1. a = n
    BY <1>1, <1>3, LeavesHoldNothing
  <2> QED BY <1>3, <2>1 DEF PhysicalSize
<1>4. CASE a \notin Leaf
  <2> DEFINE below == Under(a) \cap Dir
             leaves == Under(a) \cap Leaf
             bytes == [d \in Dir |-> BytesOf(d)]
             link == IF below \cap Linked = {} THEN 0 ELSE 1
  <2>1. PhysicalSize(a) = Total(bytes, below) + Total(room, leaves) + link
    BY <1>4 DEF PhysicalSize
  <2>2. IsFiniteSet(below) /\ IsFiniteSet(leaves)
    BY DirsAreFinite, FS_Subset
  <2>3. \A d \in below : bytes[d] \in Nat
    BY CountsAreNat
  <2>4. Total(bytes, below) \in Nat
    <3> HIDE DEF bytes, below
    <3> QED BY <2>2, <2>3, TotalIsNat
  <2>5. Total(room, leaves) = Total(room, leaves \ {n}) + room[n] /\ Total(room, leaves \ {n}) \in Nat
    <3>1. n \in leaves /\ \A l \in leaves : room[l] \in Nat
      BY <1>1, <1>2
    <3> HIDE DEF leaves
    <3> QED BY <2>2, <3>1, TotalWithOne
  <2>6. link \in Nat
    OBVIOUS
  <2> HIDE DEF bytes, below, leaves, link
  <2> QED BY <1>2, <2>1, <2>4, <2>5, <2>6
<1> QED BY <1>3, <1>4

(* Whatever a curated directory takes the place of lies in it.                 *)
LEMMA MergingKeepsPlans ==
    ASSUME ScanTypes, Plans, MergeGlobalCaches
    PROVE  Plans'
<1>1. PICK asked \in {{}, Curated} :
              /\ scan' \in Scans /\ scan'.pc = "merged" /\ scan'.nominated = scan.nominated
              /\ scan'.items = Merged(asked)
  BY MergeEffect
<1>2. scan.items = Fit /\ Fit' = Fit /\ Fit \subseteq Artifact /\ Fit \cap (Running \cup Tracked) = {}
  BY <1>1 DEF MergeGlobalCaches, Plans, Fit, ScanTypes, Scans
<1>3. /\ scan'.items = {n \in Fit : (Above[n] \ {n}) \cap Taken(asked) = {}} \cup Taken(asked)
      /\ Taken(asked) \subseteq Outermost(asked)
  BY <1>1, <1>2 DEF Merged, Taken
<1>4. asked \subseteq Curated /\ \A c \in Outermost(asked) : c \in asked /\ Above[c] \cap asked = {c}
  BY DEF Outermost
<1>5. \A n \in Artifact \cup Curated : n \in Above[n]
  BY AboveTyped, ScanAssumption DEF Node
<1> DEFINE T == Taken(asked)
<1>6. T \subseteq asked /\ \A c \in T : Above[c] \cap T \subseteq {c}
  BY <1>3, <1>4
<1> HIDE DEF T
<1>7. scan'.items = {n \in Fit : (Above[n] \ {n}) \cap T = {}} \cup T
  BY <1>3 DEF T
<1>8. ASSUME NEW n \in Fit PROVE Above[n] \cap scan'.items # {}
  <2>1. n \in Above[n]
    BY <1>2, <1>5
  <2> QED BY <1>7, <2>1
<1>9. ASSUME NEW n \in scan'.items
      PROVE  /\ (Above[n] \ {n}) \cap scan'.items \cap (Curated \ Artifact) = {}
             /\ n \in Running \cup Tracked => n \in Curated
  <2>1. scan'.items \cap (Curated \ Artifact) \subseteq T
    BY <1>2, <1>7
  <2>2. CASE n \in T
    BY <1>4, <1>6, <2>1, <2>2
  <2>3. CASE n \notin T
    BY <1>2, <1>7, <2>1, <2>3
  <2> QED BY <2>2, <2>3
<1> QED BY <1>1, <1>2, <1>8, <1>9 DEF Plans

(* Every step keeps the plan complete.                                         *)
LEMMA PlansHold ==
    /\ ScanInit => Plans
    /\ ScanTypes /\ Plans /\ [ScanNext]_scanVars => Plans'
<1>1. ScanInit => Plans
  BY DEF ScanInit, NoScan, Plans
<1>2. ASSUME ScanTypes, Plans, [ScanNext]_scanVars PROVE Plans'
  <2> USE <1>2
  <2>1. ASSUME scan'.pc \in {"idle", "walk", "rollup", "scanned"} PROVE Plans'
    BY <2>1 DEF Plans
  <2>2. CASE Environment
    <3>1. /\ scan' = scan /\ Fit' = Fit
          /\ scan.pc = "planned" /\ moved' = {} =>
                moved = {} /\ \A l \in Leaf : room'[l] = room[l]
      BY <2>2, EnvironmentEffect DEF Fit
    <3> QED BY <3>1 DEF Plans
  <2>3. ASSUME NEW root \in Root, NEW hours \in {0, Window}, Begin(root, hours) PROVE Plans'
    BY <2>1, <2>3, BeginEffect
  <2>4. ASSUME NEW d \in Dir, Filter(d) PROVE Plans'
    <3>1. scan.pc = "walk"
      BY <2>4 DEF Filter, Walks
    <3>2. CASE scan.cached /\ cache[d].held /\ CacheHit(cache[d], mtime[d], Listing(d))
      <4>1. FoldCachedStats(d, cache[d]) /\ cache[d] \in Entry
        BY <2>4, <3>2 DEF Filter, ScanTypes
      <4> QED BY <2>1, <3>1, <4>1, HitEffect
    <3> QED BY <2>1, <2>4, <3>1, <3>2, EnterEffect
  <2>5. ASSUME NEW d \in Dir, Visit(d) PROVE Plans'
    <3>1. scan.pc = "walk"
      BY <2>5 DEF Visit, Walks
    <3> QED BY <2>1, <2>5, <3>1, VisitEffect
  <2>6. ASSUME NEW d \in Dir, List(d) PROVE Plans'
    <3>1. scan.pc = "walk"
      BY <2>6 DEF List, Walks
    <3> QED BY <2>1, <2>6, <3>1, ListEffect
  <2>7. ASSUME NEW d \in Dir, RollUp(d) PROVE Plans'
    <3>1. scan.pc = "rollup"
      BY <2>7 DEF RollUp
    <3> QED BY <2>1, <2>7, <3>1, RollUpEffect
  <2>8. CASE Finish
    BY <2>1, <2>8, FinishEffect
  <2>9. CASE Store
    BY <2>1, <2>9, StoreEffect
  <2>10. CASE Fence
    BY <2>10, FenceEffect DEF Plans, Fit
  <2>11. CASE MergeGlobalCaches
    BY <2>11, MergingKeepsPlans
  <2>12. CASE Size
    <3>1. /\ scan'.pc = "planned" /\ scan'.nominated = scan.nominated /\ scan.pc = "merged"
          /\ scan'.items = {n \in scan.items : PhysicalSize(n) > 0} /\ room' = room
      BY <2>12, SizeEffect DEF Size, Builds, tree
    <3>2. Fit' = Fit /\ Fit \subseteq Node
      BY <3>1, ScanAssumption DEF Fit, ScanTypes, Scans
    <3>3. ASSUME NEW n \in Fit, n \in Leaf, room[n] > 0 PROVE Above[n] \cap scan'.items # {}
      <4>1. PICK a \in Above[n] : a \in scan.items
        BY <3>1, <3>3 DEF Plans
      <4>2. PhysicalSize(a) > 0
        BY <3>3, WhatHoldsBytesHasSize
      <4> QED BY <3>1, <4>1, <4>2
    <3> QED BY <3>1, <3>2, <3>3 DEF Plans
  <2>13. CASE End \/ Kill
    BY <2>1, <2>13 DEF End, Kill, NoScan
  <2>14. CASE UNCHANGED scanVars
    BY <2>14 DEF scanVars, tree, Plans, Fit
  <2> QED BY <2>2, <2>3, <2>4, <2>5, <2>6, <2>7, <2>8, <2>9, <2>10, <2>11, <2>12, <2>13, <2>14
          DEF ScanNext, Command
<1> QED BY <1>1, <1>2

(* A plan misses nothing that passed its fence and says nothing twice: each    *)
(* fit candidate with bytes is an item or lies in one, no item lies in a       *)
(* curated one, and only a curated item may hold what the fence keeps out      *)
(* (nouns/plan.rs).                                                            *)
THEOREM PlansAreComplete == ScanSpec => []PlanIsComplete
<1>1. Plans => PlanIsComplete
  BY DEF Plans, Fit, PlanIsComplete
<1> QED BY <1>1, ScanTypesHold, PlansHold, PTL DEF ScanSpec

------------------------------------------------------------------------------
(* The scan: the shape of a walk, which directories it is at, and what it has recorded.  *)

LEMMA DirsLieInDirs == \A d \in Dir : d \in Node /\ Above[d] \subseteq Dir /\ d # Top
<1>1. Dir \in SUBSET Node /\ Closed(Dir)
  BY ScanAssumption DEF Closed, Node
<1> QED BY <1>1, AboveIsLeast, ScanAssumption DEF Node

Active == scan.pc \in {"walk", "rollup", "scanned"}
Walked == Listed \cup Hits

WalkShape ==
    /\ scan.root \in Root
    /\ scan.root \in Dir => scan.stage[scan.root] \in {"entered", "visited", "listed"}
    /\ \A d \in Dir : scan.stage[d] # "unseen" =>
          scan.root \in Above[d] /\ (d = scan.root \/ Parent[d] \in Listed)
    /\ \A d \in Listed : \A c \in Children(d) \cap Dir : scan.stage[c] # "unseen"
    /\ scan.pc # "walk" => \A d \in Dir : scan.stage[d] \in {"unseen", "listed", "hit"}
    /\ scan.cached \/ (Hits = {} /\ scan.pc # "rollup")

RecordShape ==
    \A d \in Dir :
       /\ scan.stage[d] \in {"unseen", "found", "entered"} =>
             /\ scan.record[d].files = 0 /\ scan.record[d].bytes = 0 /\ scan.record[d].dirs = 0
             /\ scan.record[d].found = {}
       /\ scan.stage[d] = "visited" =>
             scan.record[d].files = 0 /\ scan.record[d].bytes = 0 /\ scan.record[d].dirs = 1
             /\ scan.record[d].held
       /\ d \in Hits => scan.record[d] = cache[d] /\ cache[d].held
       /\ d \in Listed => scan.record[d].held
       /\ scan.record[d].found \subseteq Under(d) \ {d}

RollShape ==
    /\ scan.rolled \subseteq Walked \ {scan.root}
    /\ \A d \in scan.rolled : Children(d) \cap Walked \subseteq scan.rolled
    /\ scan.pc = "walk" \/ ~scan.cached => scan.rolled = {}
    /\ scan.pc = "scanned" /\ scan.cached => ToRollUp \subseteq {scan.root}

CacheShape == \A d \in Dir : cache[d].found \subseteq Under(d) \ {d}

Shape == CacheShape /\ (Active => WalkShape /\ RecordShape /\ RollShape)

(* Until a directory is listed the walk has seen none of its children.         *)
LEMMA ChildrenAreUnseen ==
    ASSUME WalkShape, NEW d \in Dir, scan.stage[d] \notin {"unseen", "listed"},
           NEW c \in Dir, Parent[c] = d
    PROVE  scan.stage[c] = "unseen" /\ c # scan.root /\ c # d
<1>1. scan.root \in Above[d] /\ d \notin Listed
  BY DEF WalkShape, Listed
<1>2. c \in Children(d) /\ c \notin Above[d]
  BY DirsLieInDirs, ScanAssumption DEF Children
<1>3. d \in Above[d]
  BY DirsLieInDirs, AboveTyped
<1> QED BY <1>1, <1>2, <1>3 DEF WalkShape

(* The steps of a scan, one by one, keep the shape of its walk.                *)
LEMMA BeginKeepsShape ==
    ASSUME ScanTypes, Shape, NEW root \in Root, NEW hours \in {0, Window}, Begin(root, hours)
    PROVE  Shape'
<1>1. cache' \in {cache, [d \in Dir |-> NoEntry]} /\ NoEntry.found = {}
  BY DEF Begin, NoEntry
<1>2. CacheShape'
  BY <1>1 DEF CacheShape, Shape
<1>3. /\ scan' \in Scans
      /\ scan'.pc = "walk" /\ scan'.root = root /\ scan'.rolled = {}
      /\ scan'.stage = [d \in Dir |-> IF d = root THEN "entered" ELSE "unseen"]
      /\ scan'.record = [d \in Dir |-> NoEntry]
  BY BeginEffect
<1>4. WalkShape'
  BY <1>3, DirsLieInDirs, AboveTyped DEF WalkShape, Listed, Hits, Scans
<1>5. RecordShape'
  <2>1. NoEntry.files = 0 /\ NoEntry.bytes = 0 /\ NoEntry.dirs = 0 /\ NoEntry.found = {}
    BY DEF NoEntry
  <2> QED BY <1>3, <2>1 DEF RecordShape, Hits, Listed
<1>6. RollShape'
  BY <1>3 DEF RollShape
<1> QED BY <1>2, <1>4, <1>5, <1>6 DEF Shape

LEMMA FilterKeepsShape ==
    ASSUME ScanTypes, Shape, NEW d \in Dir, Filter(d)
    PROVE  Shape'
<1>1. /\ scan.pc = "walk" /\ scan.stage[d] = "found" /\ cache' = cache
      /\ WalkShape /\ RecordShape /\ RollShape /\ CacheShape /\ CacheShape'
  BY DEF Filter, Walks, Shape, Active, CacheShape
<1>2. scan.stage \in [Dir -> {"unseen", "found", "entered", "visited", "listed", "hit"}]
      /\ scan.record \in [Dir -> Entry] /\ scan.root # d
  BY <1>1 DEF ScanTypes, Scans, WalkShape
<1>3. scan.rolled = {}
  BY <1>1 DEF RollShape
<1>4. CASE scan.cached /\ cache[d].held /\ CacheHit(cache[d], mtime[d], Listing(d))
  <2>1. FoldCachedStats(d, cache[d]) /\ cache[d] \in Entry
    BY <1>4 DEF Filter, ScanTypes
  <2>2. /\ scan'.root = scan.root /\ scan'.cached = scan.cached /\ scan'.pc = "walk"
        /\ scan'.stage = [scan.stage EXCEPT ![d] = "hit"]
        /\ scan'.record = [scan.record EXCEPT ![d] = cache[d]] /\ scan'.rolled = {}
    BY <1>1, <1>3, <2>1, HitEffect DEF SameCommand
  <2>3. Listed' = Listed /\ Hits' = Hits \cup {d}
    BY <1>1, <1>2, <2>2 DEF Listed, Hits
  <2>4. WalkShape'
    BY <1>1, <1>2, <1>4, <2>2, <2>3 DEF WalkShape
  <2>5. RecordShape'
    BY <1>1, <1>2, <1>4, <2>2, <2>3 DEF RecordShape, CacheShape
  <2>6. RollShape'
    BY <2>2 DEF RollShape
  <2> QED BY <1>1, <2>4, <2>5, <2>6 DEF Shape
<1>5. CASE ~(scan.cached /\ cache[d].held /\ CacheHit(cache[d], mtime[d], Listing(d)))
  <2>2. /\ scan'.root = scan.root /\ scan'.cached = scan.cached /\ scan'.pc = "walk"
        /\ scan'.stage = [scan.stage EXCEPT ![d] = "entered"]
        /\ scan'.record = scan.record /\ scan'.rolled = {}
    BY <1>1, <1>3, <1>5, EnterEffect DEF SameCommand
  <2>3. Listed' = Listed /\ Hits' = Hits
    BY <1>1, <1>2, <2>2 DEF Listed, Hits
  <2>4. WalkShape'
    BY <1>1, <1>2, <2>2, <2>3 DEF WalkShape
  <2>5. RecordShape'
    BY <1>1, <1>2, <2>2, <2>3 DEF RecordShape
  <2>6. RollShape'
    BY <2>2 DEF RollShape
  <2> QED BY <1>1, <2>4, <2>5, <2>6 DEF Shape
<1> QED BY <1>4, <1>5

LEMMA VisitKeepsShape ==
    ASSUME ScanTypes, Shape, NEW d \in Dir, Visit(d)
    PROVE  Shape'
<1>1. /\ scan.pc = "walk" /\ scan.stage[d] = "entered" /\ cache' = cache
      /\ WalkShape /\ RecordShape /\ RollShape /\ CacheShape /\ CacheShape'
  BY DEF Visit, Walks, Shape, Active, CacheShape
<1>2. scan.stage \in [Dir -> {"unseen", "found", "entered", "visited", "listed", "hit"}]
      /\ scan.record \in [Dir -> Entry]
  BY <1>1 DEF ScanTypes, Scans
<1>3. scan.rolled = {}
  BY <1>1 DEF RollShape
<1>4. PICK names \in {scan.memo[d].names, Listing(d)} :
        /\ scan'.root = scan.root /\ scan'.cached = scan.cached /\ scan'.pc = "walk"
        /\ scan'.stage = [scan.stage EXCEPT ![d] = "visited"]
        /\ scan'.record = [scan.record EXCEPT ![d] =
                   [NoEntry EXCEPT !.held = TRUE, !.mtime = mtime[d],
                       !.names = names, !.dirs = 1, !.found = OwnCandidates(d, names)]]
        /\ scan'.record[d].files = 0 /\ scan'.record[d].bytes = 0
        /\ scan'.record[d].dirs = 1 /\ scan'.record[d].found = OwnCandidates(d, names)
        /\ scan'.record[d].held /\ scan'.rolled = {}
  BY <1>1, <1>3, VisitEffect DEF SameCommand
<1>5. Listed' = Listed /\ Hits' = Hits
  BY <1>1, <1>2, <1>4 DEF Listed, Hits
<1>6. WalkShape'
  BY <1>1, <1>2, <1>4, <1>5 DEF WalkShape
<1>7. RecordShape'
  <2>1. OwnCandidates(d, names) \subseteq Under(d) \ {d}
    BY OwnCandidatesTyped, ChildrenTyped
  <2>2. \A c \in Dir : c # d => scan'.record[c] = scan.record[c] /\ scan'.stage[c] = scan.stage[c]
    BY <1>2, <1>4
  <2>3. scan'.stage[d] = "visited" /\ d \notin Hits /\ d \notin Listed
    BY <1>1, <1>2, <1>4 DEF Hits, Listed
  <2> QED BY <1>1, <1>4, <1>5, <2>1, <2>2, <2>3 DEF RecordShape
<1>8. RollShape'
  BY <1>4 DEF RollShape
<1> QED BY <1>1, <1>6, <1>7, <1>8 DEF Shape

LEMMA ListKeepsShape ==
    ASSUME ScanTypes, Shape, NEW d \in Dir, List(d)
    PROVE  /\ Shape' /\ Listed' = Listed \cup {d} /\ Hits' = Hits /\ d \notin Listed /\ d \notin Hits
           /\ \A c \in Dir : c # d =>
                 /\ scan'.record[c] = scan.record[c]
                 /\ IF Parent[c] = d THEN scan.stage[c] = "unseen" /\ scan'.stage[c] = "found"
                    ELSE scan'.stage[c] = scan.stage[c]
<1>1. /\ scan.pc = "walk" /\ scan.stage[d] = "visited" /\ cache' = cache
      /\ WalkShape /\ RecordShape /\ RollShape /\ CacheShape /\ CacheShape'
  BY DEF List, Walks, Shape, Active, CacheShape
<1>2. scan.stage \in [Dir -> {"unseen", "found", "entered", "visited", "listed", "hit"}]
      /\ scan.record \in [Dir -> Entry]
  BY <1>1 DEF ScanTypes, Scans
<1>3. scan.rolled = {}
  BY <1>1 DEF RollShape
<1>4. /\ scan'.root = scan.root /\ scan'.cached = scan.cached /\ scan'.pc = "walk"
      /\ scan'.stage = [n \in Dir |-> IF n = d THEN "listed"
                                   ELSE IF Parent[n] = d THEN "found" ELSE scan.stage[n]]
      /\ scan'.record = [scan.record EXCEPT ![d] =
                 [@ EXCEPT !.files = Cardinality(FilesOf(d)) + LinkOf(d), !.bytes = BytesOf(d) + LinkOf(d)]]
      /\ scan'.record[d].found = scan.record[d].found
      /\ scan'.record[d].held = scan.record[d].held /\ scan'.rolled = {}
  BY <1>1, <1>3, ListEffect DEF SameCommand
<1>5. \A c \in Dir : Parent[c] = d => scan.stage[c] = "unseen" /\ c # scan.root /\ c # d
  BY <1>1, ChildrenAreUnseen
<1>6. \A c \in Dir : c # d =>
         /\ scan'.record[c] = scan.record[c]
         /\ IF Parent[c] = d THEN scan.stage[c] = "unseen" /\ scan'.stage[c] = "found"
            ELSE scan'.stage[c] = scan.stage[c]
  BY <1>2, <1>4, <1>5
<1>7. scan'.stage[d] = "listed"
  BY <1>4
<1>8. Listed' = Listed \cup {d} /\ Hits' = Hits /\ d \notin Listed /\ d \notin Hits
  BY <1>1, <1>6, <1>7 DEF Listed, Hits
<1>9. WalkShape'
  <2>1. ASSUME NEW c \in Dir, scan'.stage[c] # "unseen"
        PROVE  scan.root \in Above[c] /\ (c = scan.root \/ Parent[c] \in Listed')
    <3>1. CASE c # d /\ Parent[c] = d
      <4>1. d \in Above[c] /\ Above[d] \subseteq Above[c]
        BY <3>1, DirsLieInDirs, ParentTyped, AboveIsTransitive
      <4> QED BY <1>1, <1>8, <3>1, <4>1 DEF WalkShape
    <3>2. CASE c = d \/ Parent[c] # d
      BY <1>1, <1>6, <1>8, <2>1, <3>2 DEF WalkShape
    <3> QED BY <3>1, <3>2
  <2>2. ASSUME NEW e \in Listed', NEW c \in Children(e) \cap Dir PROVE scan'.stage[c] # "unseen"
    BY <1>1, <1>6, <1>7, <1>8 DEF WalkShape, Children
  <2>3. scan.root \in Dir => scan'.stage[scan.root] \in {"entered", "visited", "listed"}
    BY <1>1, <1>5, <1>6, <1>7 DEF WalkShape
  <2> QED BY <1>1, <1>4, <1>8, <2>1, <2>2, <2>3 DEF WalkShape
<1>10. RecordShape'
  <2>1. scan.record[d].held
    BY <1>1 DEF RecordShape
  <2> QED BY <1>1, <1>4, <1>6, <1>7, <1>8, <2>1 DEF RecordShape
<1>11. RollShape'
  BY <1>4 DEF RollShape
<1> QED BY <1>1, <1>6, <1>8, <1>9, <1>10, <1>11 DEF Shape

LEMMA FinishKeepsShape ==
    ASSUME ScanTypes, Shape, Finish
    PROVE  Shape'
<1>1. /\ scan.pc = "walk" /\ cache' = cache /\ scan.cached \in BOOLEAN
      /\ WalkShape /\ RecordShape /\ RollShape /\ CacheShape /\ CacheShape'
      /\ \A d \in Dir : scan.stage[d] \in {"unseen", "listed", "hit"}
  BY DEF Finish, Walks, Shape, Active, CacheShape, ScanTypes, Scans
<1>2. /\ scan'.root = scan.root /\ scan'.cached = scan.cached /\ scan'.rolled = {}
      /\ scan'.pc = (IF scan.cached THEN "rollup" ELSE "scanned")
      /\ scan'.stage = scan.stage /\ scan'.record = scan.record
  BY <1>1, FinishEffect DEF SameCommand, RollShape
<1>3. Listed' = Listed /\ Hits' = Hits
  BY <1>2 DEF Listed, Hits
<1>4. WalkShape'
  BY <1>1, <1>2, <1>3 DEF WalkShape
<1>5. RecordShape'
  BY <1>1, <1>2, <1>3 DEF RecordShape
<1>6. RollShape'
  BY <1>1, <1>2 DEF RollShape
<1> QED BY <1>1, <1>4, <1>5, <1>6 DEF Shape

(* What rolls up has a parent that is listed and still to roll up, and has     *)
(* itself been rolled up into by all of its children.                          *)
LEMMA WhatRollsUp ==
    ASSUME ScanTypes, Shape, NEW d \in Dir, RollUp(d)
    PROVE  /\ scan.pc = "rollup" /\ WalkShape /\ RecordShape /\ RollShape /\ scan.cached
           /\ Parent[d] \in Listed /\ Parent[d] \in Dir /\ Parent[d] # d /\ d \in Children(Parent[d])
           /\ d \in Walked /\ d \notin scan.rolled /\ d # scan.root
           /\ Parent[d] \notin scan.rolled
           /\ Children(d) \cap Walked \subseteq scan.rolled
<1>1. /\ scan.pc = "rollup" /\ WalkShape /\ RecordShape /\ RollShape /\ scan.cached
      /\ d \in Walked /\ d \notin scan.rolled /\ d # scan.root
      /\ \A c \in ToRollUp : Depth(c) <= Depth(d)
  BY DEF RollUp, Shape, Active, WalkShape, ToRollUp, Walked
<1>2. Parent[d] \in Listed /\ Parent[d] \in Dir
  BY <1>1 DEF WalkShape, Walked, Listed, Hits
<1>3. Parent[d] # d /\ d \in Children(Parent[d])
  BY <1>2, DirsLieInDirs, ParentTyped DEF Children
<1>4. Parent[d] \notin scan.rolled
  BY <1>1, <1>3 DEF RollShape
<1>5. ASSUME NEW c \in Children(d) \cap Walked, c \notin scan.rolled PROVE FALSE
  <2>1. c \in ToRollUp
    BY <1>5 DEF ToRollUp, Walked
  <2>2. Depth(c) \in Nat /\ Depth(d) \in Nat /\ Depth(c) = Depth(d) + 1
    BY ChildrenAreDeeper
  <2> QED BY <1>1, <2>1, <2>2
<1> QED BY <1>1, <1>2, <1>3, <1>4, <1>5

LEMMA RollUpKeepsShape ==
    ASSUME ScanTypes, Shape, NEW d \in Dir, RollUp(d)
    PROVE  Shape' /\ Listed' = Listed /\ Hits' = Hits
<1>1. /\ scan.pc = "rollup" /\ WalkShape /\ RecordShape /\ RollShape /\ scan.cached
      /\ Parent[d] \in Listed /\ Parent[d] \in Dir /\ Parent[d] # d /\ d \in Children(Parent[d])
      /\ d \in Walked /\ d \notin scan.rolled /\ d # scan.root
      /\ Children(d) \cap Walked \subseteq scan.rolled
  BY WhatRollsUp
<1>2. cache' = cache /\ CacheShape /\ CacheShape'
  BY DEF RollUp, Shape, CacheShape
<1>3. /\ scan'.root = scan.root /\ scan'.cached = scan.cached /\ scan'.pc = "rollup"
      /\ scan'.stage = scan.stage /\ scan'.rolled = scan.rolled \cup {d}
      /\ \A c \in Dir : c # Parent[d] => scan'.record[c] = scan.record[c]
      /\ scan'.record[Parent[d]].held = scan.record[Parent[d]].held
      /\ scan'.record[Parent[d]].found = scan.record[Parent[d]].found \cup scan.record[d].found
  BY <1>1, RollUpEffect DEF SameCommand
<1>4. Listed' = Listed /\ Hits' = Hits /\ Walked' = Walked
  BY <1>3 DEF Listed, Hits, Walked
<1>5. WalkShape'
  BY <1>1, <1>3, <1>4 DEF WalkShape
<1>6. RecordShape'
  <2>1. scan'.record[Parent[d]].found \subseteq Under(Parent[d]) \ {Parent[d]}
    <3>1. Under(d) \subseteq Under(Parent[d]) /\ Parent[d] \notin Under(d)
      BY <1>1, ChildrenTyped
    <3> QED BY <1>1, <1>3, <3>1 DEF RecordShape
  <2>2. scan.stage[Parent[d]] = "listed"
    BY <1>1 DEF Listed
  <2>3. Parent[d] \notin Hits
    BY <2>2 DEF Hits
  <2> QED BY <1>1, <1>2, <1>3, <1>4, <2>1, <2>2, <2>3 DEF RecordShape
<1>7. RollShape'
  BY <1>1, <1>3, <1>4 DEF RollShape
<1> QED BY <1>2, <1>4, <1>5, <1>6, <1>7 DEF Shape

LEMMA StoreKeepsShape ==
    ASSUME ScanTypes, Shape, Store
    PROVE  Shape'
<1>1. scan.pc = "rollup" /\ ToRollUp \subseteq {scan.root}
      /\ WalkShape /\ RecordShape /\ RollShape /\ CacheShape
      /\ cache' \in {cache, [d \in Dir |-> IF d \in Listed THEN scan.record[d] ELSE cache[d]]}
  BY DEF Store, Shape, Active
<1>2. /\ scan'.root = scan.root /\ scan'.cached = scan.cached /\ scan'.rolled = scan.rolled
      /\ scan'.pc = "scanned" /\ scan'.stage = scan.stage /\ scan'.record = scan.record
  BY StoreEffect DEF SameCommand
<1>3. Listed' = Listed /\ Hits' = Hits /\ Walked' = Walked /\ Listed \cap Hits = {} /\ ToRollUp' = ToRollUp
  BY <1>2 DEF Listed, Hits, Walked, ToRollUp
<1>4. \A d \in Hits : cache'[d] = cache[d]
  BY <1>1, <1>3 DEF Hits
<1>5. CacheShape'
  BY <1>1 DEF CacheShape, RecordShape
<1>6. WalkShape'
  BY <1>1, <1>2, <1>3 DEF WalkShape
<1>7. RecordShape'
  BY <1>1, <1>2, <1>3, <1>4 DEF RecordShape
<1>8. RollShape'
  BY <1>1, <1>2, <1>3 DEF RollShape, WalkShape
<1> QED BY <1>5, <1>6, <1>7, <1>8 DEF Shape

(* After the scan neither the tree nor the cache is touched.                   *)
LEMMA RestIsNotActive ==
    ASSUME ScanTypes, Fence \/ MergeGlobalCaches \/ Size \/ End \/ Kill
    PROVE  ~Active' /\ UNCHANGED <<now, size, room, mtime, cache, stale>>
<1>1. UNCHANGED <<now, size, room, mtime, cache, stale>>
  BY DEF Fence, MergeGlobalCaches, Size, End, Kill, Builds, tree
<1>2. scan'.pc \in {"fenced", "merged", "planned", "idle"}
  <2>1. Fence => scan'.pc = "fenced"
    BY FenceEffect
  <2>2. MergeGlobalCaches => scan'.pc = "merged"
    BY MergeEffect
  <2>3. Size => scan'.pc = "planned"
    BY SizeEffect
  <2>4. End \/ Kill => scan'.pc = "idle"
    BY DEF End, Kill, NoScan
  <2> QED BY <2>1, <2>2, <2>3, <2>4
<1> QED BY <1>1, <1>2 DEF Active

(* The shape of the walk is an invariant.                                      *)
LEMMA ShapeHolds ==
    /\ ScanInit => Shape
    /\ ScanTypes /\ Shape /\ [ScanNext]_scanVars => Shape'
<1>1. ScanInit => Shape
  BY DEF ScanInit, Shape, Active, CacheShape, NoScan, NoEntry
<1>2. ASSUME ScanTypes, Shape, [ScanNext]_scanVars PROVE Shape'
  <2> USE <1>2
  <2>1. ASSUME UNCHANGED <<cache, scan>> PROVE Shape'
    BY <2>1 DEF Shape, Active, CacheShape, WalkShape, RecordShape, RollShape, Listed, Hits, Walked, ToRollUp
  <2>2. CASE Environment
    BY <2>1, <2>2, EnvironmentEffect
  <2>3. CASE Fence \/ MergeGlobalCaches \/ Size \/ End \/ Kill
    BY <2>3, RestIsNotActive DEF Shape, CacheShape
  <2>4. CASE UNCHANGED scanVars
    BY <2>1, <2>4 DEF scanVars
  <2> QED BY <2>2, <2>3, <2>4, BeginKeepsShape, FilterKeepsShape, VisitKeepsShape, ListKeepsShape,
             FinishKeepsShape, RollUpKeepsShape, StoreKeepsShape DEF ScanNext, Command
<1> QED BY <1>1, <1>2

------------------------------------------------------------------------------
(* What a walk nominates. *)

Wanted(n) == Nominable(n) /\ (n \in Lane => ~RecentlyActive(n, scan.hours))

Memos ==
    \A d \in Dir : scan.memo[d].held =>
       \A l \in (Children(d) \cap Leaf) \ moved : l \in scan.memo[d].names.leaves <=> room[l] > 0

NothingMissed ==
    \A d \in Dir : scan.stage[d] \in {"visited", "listed"} =>
       \A n \in (Artifact \cap Children(d)) \ moved : Wanted(n) => n \in scan.nominated

NothingElse ==
    scan.root \in Dir =>
       \A n \in scan.nominated \ moved : Wanted(n) \/ \E h \in Hits : n \in Under(h) \ {h}

Exact == Active => Memos /\ NothingMissed /\ NothingElse

(* Nothing of what it depends on changes unless the node is marked.            *)
LEMMA WantedIsStable ==
    ASSUME ScanTypes, Environment, scan.pc # "idle", NEW n \in Node, n \notin moved'
    PROVE  Wanted(n)' = Wanted(n)
<1>1. /\ scan' = scan /\ (n \in Leaf => room'[n] = room[n])
      /\ n \in Lane => mtime'[n] = mtime[n] /\ now' = now
  BY EnvironmentEffect
<1> QED BY <1>1 DEF Wanted, Nominable, RecentlyActive

(* A changed node is marked; the others stay nominated as they should.         *)
LEMMA EnvironmentKeepsExact ==
    ASSUME ScanTypes, Exact, Environment
    PROVE  Exact'
<1>1. /\ scan' = scan /\ (scan.pc # "idle" => moved \subseteq moved')
      /\ \A l \in Leaf : room'[l] # room[l] => (scan.pc # "idle" => l \in moved')
  BY EnvironmentEffect
<1> SUFFICES ASSUME Active, Active', Memos, NothingMissed, NothingElse
             PROVE  Memos' /\ NothingMissed' /\ NothingElse'
  BY <1>1 DEF Exact, Active
<1>2. scan.pc # "idle" /\ Artifact \subseteq Node /\ scan.nominated \subseteq Node
  BY ScanAssumption DEF Active, ScanTypes, Scans
<1>3. Memos'
  BY <1>1, <1>2 DEF Memos
<1>4. \A n \in Node : n \notin moved' => Wanted(n)' = Wanted(n)
  BY <1>2, WantedIsStable
<1>5. Hits' = Hits
  BY <1>1 DEF Hits
<1>6. NothingMissed'
  BY <1>1, <1>2, <1>4 DEF NothingMissed
<1>7. NothingElse'
  BY <1>1, <1>2, <1>4, <1>5 DEF NothingElse
<1> QED BY <1>3, <1>6, <1>7

(* The visitor nominates what is wanted, a hit what lies under it.             *)
LEMMA WalkKeepsExact ==
    ASSUME ScanTypes, Shape, Exact, NEW d \in Dir, Filter(d) \/ Visit(d) \/ List(d)
    PROVE  Exact'
<1>1. /\ scan.pc = "walk" /\ scan.stage[d] \in {"found", "entered", "visited"} /\ CacheShape
      /\ UNCHANGED <<now, mtime, size, room, cache, moved>>
      /\ Memos /\ NothingMissed /\ NothingElse
  BY DEF Filter, Visit, List, Walks, tree, Exact, Active, Shape
<1>2. /\ scan.stage \in [Dir -> {"unseen", "found", "entered", "visited", "listed", "hit"}]
      /\ scan.memo \in [Dir -> [held : BOOLEAN, names : Names]]
  BY DEF ScanTypes, Scans
<1>3. ASSUME scan'.hours = scan.hours, NEW n PROVE Wanted(n)' = Wanted(n)
  BY <1>1, <1>3 DEF Wanted, Nominable, RecentlyActive
<1>4. \A l \in Children(d) \cap Leaf : l \in Listing(d).leaves <=> room[l] > 0
  BY DEF Listing
<1>5. CASE Filter(d)
  <2>1. CASE scan.cached /\ cache[d].held /\ CacheHit(cache[d], mtime[d], Listing(d))
    <3>1. FoldCachedStats(d, cache[d]) /\ cache[d] \in Entry
      BY <1>5, <2>1 DEF Filter, ScanTypes
    <3>2. /\ scan'.hours = scan.hours /\ scan'.root = scan.root
          /\ scan'.stage = [scan.stage EXCEPT ![d] = "hit"]
          /\ scan'.memo = scan.memo /\ scan'.nominated = scan.nominated \cup cache[d].found
      BY <3>1, HitEffect DEF SameCommand
    <3>3. Hits' = Hits \cup {d} /\ cache[d].found \subseteq Under(d) \ {d}
      BY <1>1, <1>2, <3>2 DEF Hits, CacheShape
    <3>4. Memos'
      BY <1>1, <3>2 DEF Memos
    <3>5. NothingMissed'
      BY <1>1, <1>2, <1>3, <3>2 DEF NothingMissed
    <3>6. NothingElse'
      BY <1>1, <1>3, <3>2, <3>3 DEF NothingElse
    <3> QED BY <3>4, <3>5, <3>6 DEF Exact
  <2>2. CASE ~(scan.cached /\ cache[d].held /\ CacheHit(cache[d], mtime[d], Listing(d)))
    <3>1. PICK m \in {NoMemo, [held |-> TRUE, names |-> Listing(d)]} : scan'.memo = [scan.memo EXCEPT ![d] = m]
      BY <1>5, <2>2, EnterEffect
    <3>2. /\ scan'.hours = scan.hours /\ scan'.root = scan.root
          /\ scan'.stage = [scan.stage EXCEPT ![d] = "entered"]
          /\ scan'.nominated = scan.nominated
      BY <1>5, <2>2, EnterEffect DEF SameCommand
    <3>3. Hits' = Hits
      BY <1>1, <1>2, <1>5, <3>2 DEF Hits
    <3>4. Memos'
      BY <1>1, <1>2, <1>4, <3>1 DEF Memos, NoMemo
    <3>5. NothingMissed'
      BY <1>1, <1>2, <1>3, <3>2 DEF NothingMissed
    <3>6. NothingElse'
      BY <1>1, <1>3, <3>2, <3>3 DEF NothingElse
    <3> QED BY <3>4, <3>5, <3>6 DEF Exact
  <2> QED BY <2>1, <2>2
<1>6. CASE Visit(d)
  <2>1. PICK names \in {scan.memo[d].names, Listing(d)} :
          /\ names = (IF scan.memo[d].held THEN scan.memo[d].names ELSE Listing(d))
          /\ scan'.hours = scan.hours /\ scan'.root = scan.root
          /\ scan'.stage = [scan.stage EXCEPT ![d] = "visited"]
          /\ scan'.memo = [scan.memo EXCEPT ![d] = NoMemo]
          /\ scan'.nominated = scan.nominated \cup OwnCandidates(d, names)
    BY <1>6, VisitEffect DEF SameCommand
  <2>2. \A l \in (Children(d) \cap Leaf) \ moved : l \in names.leaves <=> room[l] > 0
    BY <1>1, <1>4, <2>1 DEF Memos
  <2>3. ASSUME NEW n \in (Artifact \cap Children(d)) \ moved
        PROVE  n \in OwnCandidates(d, names) <=> Wanted(n)
    BY <2>2 DEF OwnCandidates, Wanted, Nominable, Children
  <2>4. Hits' = Hits
    <3>1. scan.stage[d] = "entered"
      BY <1>6 DEF Visit
    <3> QED BY <1>2, <2>1, <3>1 DEF Hits
  <2>5. Memos'
    BY <1>1, <1>2, <2>1 DEF Memos, NoMemo
  <2>6. NothingMissed'
    BY <1>1, <1>2, <1>3, <2>1, <2>3 DEF NothingMissed
  <2>7. NothingElse'
    BY <1>1, <1>3, <2>1, <2>3, <2>4, OwnCandidatesTyped DEF NothingElse
  <2> QED BY <2>5, <2>6, <2>7 DEF Exact
<1>7. CASE List(d)
  <2>1. /\ scan'.hours = scan.hours /\ scan'.root = scan.root
        /\ scan'.memo = scan.memo /\ scan'.nominated = scan.nominated
    BY <1>7, ListEffect DEF SameCommand
  <2>2. /\ Hits' = Hits /\ scan.stage[d] = "visited"
        /\ \A c \in Dir : scan'.stage[c] \in {"visited", "listed"} => scan.stage[c] \in {"visited", "listed"}
    BY <1>7, ListKeepsShape DEF List
  <2>3. Memos'
    BY <1>1, <2>1 DEF Memos
  <2>4. NothingMissed'
    BY <1>1, <1>3, <2>1, <2>2 DEF NothingMissed
  <2>5. NothingElse'
    BY <1>1, <1>3, <2>1, <2>2 DEF NothingElse
  <2> QED BY <2>3, <2>4, <2>5 DEF Exact
<1> QED BY <1>5, <1>6, <1>7

(* Exactness is an invariant.                                                  *)
LEMMA ExactHolds ==
    /\ ScanInit => Exact
    /\ ScanTypes /\ Shape /\ Exact /\ [ScanNext]_scanVars => Exact'
<1>1. ScanInit => Exact
  BY DEF ScanInit, Exact, Active, NoScan
<1>2. ASSUME ScanTypes, Shape, Exact, [ScanNext]_scanVars PROVE Exact'
  <2> USE <1>2
  <2>1. ASSUME UNCHANGED <<now, mtime, size, room, moved>>, Active' => Active, SameCommand,
               scan'.stage = scan.stage, scan'.memo = scan.memo, scan'.nominated = scan.nominated
        PROVE  Exact'
    BY <2>1 DEF Exact, Memos, NothingMissed, NothingElse, Wanted, Nominable, RecentlyActive, Hits, SameCommand
  <2>2. ASSUME NEW root \in Root, NEW hours \in {0, Window}, Begin(root, hours) PROVE Exact'
    <3>1. /\ scan'.root = root /\ scan'.stage = [d \in Dir |-> IF d = root THEN "entered" ELSE "unseen"]
          /\ scan'.memo = [d \in Dir |-> NoMemo]
          /\ scan'.nominated = (IF root \in Lane /\ room[root] > 0 /\ ~RecentlyActive(root, hours)
                                THEN {root} ELSE {})
      BY <2>2, BeginEffect
    <3>2. root \in Dir => scan'.nominated = {}
      <4>1. root \in Dir => root \notin Lane
        BY ScanAssumption
      <4> QED BY <3>1, <4>1
    <3>3. Memos'
      BY <3>1 DEF Memos, NoMemo
    <3> QED BY <3>1, <3>2, <3>3 DEF Exact, NothingMissed, NothingElse
  <2>3. CASE Finish
    BY <2>1, <2>3, FinishEffect DEF Finish, Walks, tree, Active
  <2>4. ASSUME NEW d \in Dir, RollUp(d) PROVE Exact'
    BY <2>1, <2>4, RollUpEffect DEF RollUp, tree, Active
  <2>5. CASE Store
    BY <2>1, <2>5, StoreEffect DEF Store, tree, Active
  <2>6. CASE Fence \/ MergeGlobalCaches \/ Size \/ End \/ Kill
    BY <2>6, RestIsNotActive DEF Exact
  <2>7. CASE UNCHANGED scanVars
    BY <2>1, <2>7 DEF scanVars, tree, SameCommand, Active
  <2> QED BY <2>2, <2>3, <2>4, <2>5, <2>6, <2>7, EnvironmentKeepsExact, WalkKeepsExact
          DEF ScanNext, Command
<1> QED BY <1>1, <1>2

(* Once the walk is over, a directory below the root with no replayed one      *)
(* above it has been listed.                                                   *)
LEMMA WhatIsNotReplayedIsListed ==
    ASSUME WalkShape, scan.pc # "walk", scan.root \in Dir,
           NEW d \in Dir, scan.root \in Above[d], Above[d] \cap Hits = {}
    PROVE  d \in Listed
<1> SUFFICES ASSUME d \notin Listed PROVE FALSE
  OBVIOUS
<1> DEFINE S == {y \in Above[d] : scan.root \in Above[y] /\ y \notin Listed}
<1>1. scan.root \in Listed
  BY DEF WalkShape, Listed
<1>2. d \in S /\ S \in SUBSET Dir /\ Dir \subseteq Node
  BY DirsLieInDirs, AboveTyped
<1>3. ASSUME NEW y \in S PROVE Parent[y] \in S
  <2>1. y \in Dir /\ y \in Node /\ y # scan.root /\ scan.root \in Above[y]
    BY <1>1, <1>2
  <2>2. Parent[y] # Top /\ scan.root \in Above[Parent[y]]
    BY <2>1, AboveParent
  <2>3. Parent[y] \in Above[d]
    BY <1>2, <2>2, AboveIsClosed DEF Closed
  <2>4. Parent[y] \in Dir /\ y \in Children(Parent[y])
    BY <2>1, <2>2, ParentTyped DEF Children
  <2>5. Parent[y] \notin Listed
    <3> SUFFICES ASSUME Parent[y] \in Listed PROVE FALSE
      OBVIOUS
    <3>1. scan.stage[y] # "unseen" /\ scan.stage[y] \in {"unseen", "listed", "hit"}
      BY <2>1, <2>4 DEF WalkShape
    <3> QED BY <2>1, <3>1 DEF Listed, Hits
  <2> QED BY <2>2, <2>3, <2>5
<1>4. Closed(S)
  BY <1>3 DEF Closed
<1>5. Above[d] \subseteq S
  BY <1>2, <1>4, AboveIsLeast
<1> QED BY <1>1, <1>5

(* A scan nominates, of what it walked itself, exactly what is there and not   *)
(* in use (scan_root in fs.rs).                                                *)
THEOREM WalksAreExact == ScanSpec => []WalkedIsExact
<1>1. ASSUME ScanTypes, Shape, Exact PROVE WalkedIsExact
  <2> SUFFICES ASSUME scan.pc = "scanned", scan.root \in Dir,
                      NEW n \in (Artifact \cap Under(scan.root)) \ {scan.root},
                      Above[n] \cap (moved \cup (Hits \ {n})) = {}
               PROVE  n \in scan.nominated <=> Wanted(n)
    BY DEF WalkedIsExact, Wanted
  <2>1. WalkShape /\ NothingMissed /\ NothingElse
    BY <1>1 DEF Exact, Shape, Active
  <2>2. n \in Node /\ n \in Above[n] /\ n \notin moved
    BY AboveTyped, ScanAssumption DEF Node
  <2>3. ASSUME n \in scan.nominated PROVE Wanted(n)
    <3>1. \A h \in Hits : n \notin Under(h) \ {h}
      BY DEF Under
    <3> QED BY <2>1, <2>2, <2>3, <3>1 DEF NothingElse
  <2>4. ASSUME Wanted(n) PROVE n \in scan.nominated
    <3> DEFINE p == Parent[n]
    <3>1. p # Top /\ scan.root \in Above[p]
      <4>1. scan.root \in Above[n] /\ n # scan.root
        BY DEF Under
      <4> QED BY <2>2, <4>1, AboveParent
    <3>2. p \in Dir /\ n \in Children(p) /\ p \in Above[n] /\ p \in Node
      BY <2>2, <3>1, ParentTyped DEF Children
    <3>3. n \notin Above[p] /\ Above[p] \subseteq Above[n]
      BY <2>2, <3>1, <3>2, AboveIsTransitive, ScanAssumption
    <3>4. Above[p] \cap Hits = {}
      BY <3>3
    <3>5. p \in Listed
      BY <2>1, <3>1, <3>2, <3>4, WhatIsNotReplayedIsListed
    <3> QED BY <2>1, <2>2, <2>4, <3>2, <3>5 DEF NothingMissed, Listed
  <2> QED BY <2>3, <2>4
<1> QED BY <1>1, ScanTypesHold, ShapeHolds, ExactHolds, PTL DEF ScanSpec

------------------------------------------------------------------------------
(* What the threads of a walk count, entry by entry, is what it records by     *)
(* directory: in the records that no other has taken up.                       *)

FilesRecorded == [d \in Dir |-> scan.record[d].files]
BytesRecorded == [d \in Dir |-> scan.record[d].bytes]
DirsRecorded == [d \in Dir |-> scan.record[d].dirs]
Outstanding == Dir \ scan.rolled

Sums ==
    /\ scan.files = Total(FilesRecorded, Outstanding)
    /\ scan.dirs = Total(DirsRecorded, Outstanding)
    /\ scan.bytes + Repeated = Total(BytesRecorded, Outstanding)
    /\ scan.nominated = UNION {scan.record[d].found : d \in Outstanding}
    /\ scan.linked <=> Listed \cap Linked # {}

Counted == Active /\ scan.root \in Dir => Sums

(* The records hold natural numbers.                                           *)
LEMMA RecordedTyped ==
    ASSUME ScanTypes
    PROVE  \A d \in Dir : /\ FilesRecorded[d] = scan.record[d].files /\ FilesRecorded[d] \in Nat
                          /\ BytesRecorded[d] = scan.record[d].bytes /\ BytesRecorded[d] \in Nat
                          /\ DirsRecorded[d] = scan.record[d].dirs /\ DirsRecorded[d] \in Nat
<1>1. \A d \in Dir : scan.record[d] \in Entry
  BY DEF ScanTypes, Scans
<1> QED BY <1>1 DEF FilesRecorded, BytesRecorded, DirsRecorded, Entry

LEMMA RepeatedTyped ==
    ASSUME Listed \in SUBSET Dir
    PROVE  Repeated \in Nat /\ NamesOfLinked \in Nat /\ (NamesOfLinked > 0 <=> Listed \cap Linked # {})
<1>1. IsFiniteSet(Listed \cap Linked)
  BY DirsAreFinite, FS_Subset
<1>2. NamesOfLinked \in Nat /\ (NamesOfLinked = 0 <=> Listed \cap Linked = {})
  BY <1>1, FS_CardinalityType, FS_EmptySet DEF NamesOfLinked
<1> QED BY <1>2 DEF Repeated

(* One more name of a linked file is one more to repeat, unless it is the      *)
(* first.                                                                      *)
LEMMA OneMoreListed ==
    ASSUME NEW d \in Dir, d \notin Listed, Listed' = Listed \cup {d}
    PROVE  Repeated' = Repeated + (IF d \in Linked /\ Listed \cap Linked # {} THEN 1 ELSE 0)
<1>1. Listed \in SUBSET Dir
  BY DEF Listed
<1>2. IsFiniteSet(Listed \cap Linked)
  BY <1>1, DirsAreFinite, FS_Subset
<1>3. CASE d \in Linked
  <2>1. Listed' \cap Linked = (Listed \cap Linked) \cup {d}
    BY <1>3
  <2>2. NamesOfLinked' = NamesOfLinked + 1
    BY <1>2, <2>1, FS_AddElement DEF NamesOfLinked
  <2> QED BY <1>1, <1>3, <2>2, RepeatedTyped DEF Repeated
<1>4. CASE d \notin Linked
  <2>1. Listed' \cap Linked = Listed \cap Linked
    BY <1>4
  <2>2. NamesOfLinked' = NamesOfLinked
    BY <2>1 DEF NamesOfLinked
  <2>3. Repeated' = Repeated
    BY <2>2 DEF Repeated
  <2> QED BY <1>1, <1>4, <2>3, RepeatedTyped
<1> QED BY <1>3, <1>4

(* During the walk one directory is recorded at a time.                        *)
LEMMA OneRecordCounts ==
    ASSUME ScanTypes, ScanTypes', NEW d \in Dir, scan.rolled = {}, scan'.rolled = {},
           \A c \in Dir : c # d => scan'.record[c] = scan.record[c]
    PROVE  /\ Total(FilesRecorded, Outstanding)' + scan.record[d].files
                = Total(FilesRecorded, Outstanding) + scan'.record[d].files
           /\ Total(BytesRecorded, Outstanding)' + scan.record[d].bytes
                = Total(BytesRecorded, Outstanding) + scan'.record[d].bytes
           /\ Total(DirsRecorded, Outstanding)' + scan.record[d].dirs
                = Total(DirsRecorded, Outstanding) + scan'.record[d].dirs
           /\ {Total(FilesRecorded, Outstanding), Total(BytesRecorded, Outstanding),
               Total(DirsRecorded, Outstanding), Total(FilesRecorded, Outstanding)',
               Total(BytesRecorded, Outstanding)', Total(DirsRecorded, Outstanding)'} \subseteq Nat
<1>1. Outstanding = Dir /\ Outstanding' = Dir /\ IsFiniteSet(Dir)
  BY DirsAreFinite DEF Outstanding
<1>2. \A c \in Dir : /\ FilesRecorded[c] \in Nat /\ FilesRecorded[c] = scan.record[c].files
                     /\ BytesRecorded[c] \in Nat /\ BytesRecorded[c] = scan.record[c].bytes
                     /\ DirsRecorded[c] \in Nat /\ DirsRecorded[c] = scan.record[c].dirs
  BY RecordedTyped
<1>3. \A c \in Dir : /\ FilesRecorded'[c] \in Nat /\ FilesRecorded'[c] = scan'.record[c].files
                     /\ BytesRecorded'[c] \in Nat /\ BytesRecorded'[c] = scan'.record[c].bytes
                     /\ DirsRecorded'[c] \in Nat /\ DirsRecorded'[c] = scan'.record[c].dirs
  <2>1. \A c \in Dir : scan'.record[c] \in Entry
    BY DEF ScanTypes, Scans
  <2> QED BY <2>1 DEF FilesRecorded, BytesRecorded, DirsRecorded, Entry
<1>4. \A c \in Dir \ {d} : /\ FilesRecorded'[c] = FilesRecorded[c] /\ BytesRecorded'[c] = BytesRecorded[c]
                           /\ DirsRecorded'[c] = DirsRecorded[c]
  BY <1>2, <1>3
<1>5. /\ Total(FilesRecorded', Dir) + FilesRecorded[d] = Total(FilesRecorded, Dir) + FilesRecorded'[d]
      /\ Total(FilesRecorded', Dir) \in Nat /\ Total(FilesRecorded, Dir) \in Nat
  <2> DEFINE f == FilesRecorded
             g == FilesRecorded'
  <2>1. /\ \A c \in Dir : f[c] \in Nat /\ g[c] \in Nat
        /\ \A c \in Dir \ {d} : g[c] = f[c]
    BY <1>2, <1>3, <1>4
  <2> HIDE DEF f, g
  <2>2. Total(g, Dir) + f[d] = Total(f, Dir) + g[d]
    BY <1>1, <2>1, TotalWhenOneChanges
  <2>3. Total(g, Dir) \in Nat /\ Total(f, Dir) \in Nat
    BY <1>1, <2>1, TotalIsNat
  <2> QED BY <2>2, <2>3 DEF f, g
<1>6. /\ Total(BytesRecorded', Dir) + BytesRecorded[d] = Total(BytesRecorded, Dir) + BytesRecorded'[d]
      /\ Total(BytesRecorded', Dir) \in Nat /\ Total(BytesRecorded, Dir) \in Nat
  <2> DEFINE f == BytesRecorded
             g == BytesRecorded'
  <2>1. /\ \A c \in Dir : f[c] \in Nat /\ g[c] \in Nat
        /\ \A c \in Dir \ {d} : g[c] = f[c]
    BY <1>2, <1>3, <1>4
  <2> HIDE DEF f, g
  <2>2. Total(g, Dir) + f[d] = Total(f, Dir) + g[d]
    BY <1>1, <2>1, TotalWhenOneChanges
  <2>3. Total(g, Dir) \in Nat /\ Total(f, Dir) \in Nat
    BY <1>1, <2>1, TotalIsNat
  <2> QED BY <2>2, <2>3 DEF f, g
<1>7. /\ Total(DirsRecorded', Dir) + DirsRecorded[d] = Total(DirsRecorded, Dir) + DirsRecorded'[d]
      /\ Total(DirsRecorded', Dir) \in Nat /\ Total(DirsRecorded, Dir) \in Nat
  <2> DEFINE f == DirsRecorded
             g == DirsRecorded'
  <2>1. /\ \A c \in Dir : f[c] \in Nat /\ g[c] \in Nat
        /\ \A c \in Dir \ {d} : g[c] = f[c]
    BY <1>2, <1>3, <1>4
  <2> HIDE DEF f, g
  <2>2. Total(g, Dir) + f[d] = Total(f, Dir) + g[d]
    BY <1>1, <2>1, TotalWhenOneChanges
  <2>3. Total(g, Dir) \in Nat /\ Total(f, Dir) \in Nat
    BY <1>1, <2>1, TotalIsNat
  <2> QED BY <2>2, <2>3 DEF f, g
<1>8. /\ Total(FilesRecorded, Outstanding)' = Total(FilesRecorded', Outstanding')
      /\ Total(BytesRecorded, Outstanding)' = Total(BytesRecorded', Outstanding')
      /\ Total(DirsRecorded, Outstanding)' = Total(DirsRecorded', Outstanding')
  BY DEF Total
<1> QED BY <1>1, <1>2, <1>3, <1>5, <1>6, <1>7, <1>8

(* What one directory adds to the candidates its record adds too.              *)
LEMMA OneRecordFound ==
    ASSUME NEW d \in Dir, NEW new, scan.rolled = {}, scan'.rolled = {},
           \A c \in Dir : c # d => scan'.record[c] = scan.record[c],
           scan'.record[d].found = scan.record[d].found \cup new,
           scan.nominated = UNION {scan.record[c].found : c \in Outstanding},
           scan'.nominated = scan.nominated \cup new
    PROVE  scan'.nominated = UNION {scan'.record[c].found : c \in Outstanding'}
<1>1. Outstanding = Dir /\ Outstanding' = Dir
  BY DEF Outstanding
<1>2. \A x : x \in scan'.nominated <=> \E c \in Dir : x \in scan'.record[c].found
  BY <1>1
<1> QED BY <1>1, <1>2

(* A step of the walk counts what it records.                                  *)
LEMMA WalkKeepsCount ==
    ASSUME ScanTypes, ScanTypes', Shape, Counted, NEW d \in Dir, Filter(d) \/ Visit(d) \/ List(d),
           scan.root \in Dir
    PROVE  Sums'
<1>1. /\ scan.pc = "walk" /\ Sums /\ WalkShape /\ RecordShape /\ scan.rolled = {}
  BY DEF Filter, Visit, List, Walks, Counted, Active, Shape, RollShape
<1>2. /\ scan.stage \in [Dir -> {"unseen", "found", "entered", "visited", "listed", "hit"}]
      /\ scan.record \in [Dir -> Entry] /\ scan.linked \in BOOLEAN
      /\ scan.files \in Nat /\ scan.bytes \in Nat /\ scan.dirs \in Nat
  BY DEF ScanTypes, Scans
<1>3. \A e \in Entry : e.files \in Nat /\ e.bytes \in Nat /\ e.dirs \in Nat
  BY DEF Entry
<1>4. Listed \in SUBSET Dir /\ Repeated \in Nat
  BY RepeatedTyped DEF Listed
<1>5. CASE Filter(d)
  <2>1. scan.stage[d] = "found"
    BY <1>5 DEF Filter
  <2>2. CASE scan.cached /\ cache[d].held /\ CacheHit(cache[d], mtime[d], Listing(d))
    <3> DEFINE e == cache[d]
    <3>1. FoldCachedStats(d, e) /\ e \in Entry
      BY <1>5, <2>2 DEF Filter, ScanTypes
    <3>2. /\ scan'.stage = [scan.stage EXCEPT ![d] = "hit"]
          /\ scan'.record = [scan.record EXCEPT ![d] = e]
          /\ scan'.rolled = {} /\ scan'.linked = scan.linked
          /\ scan'.files = scan.files + e.files /\ scan'.bytes = scan.bytes + e.bytes
          /\ scan'.dirs = scan.dirs + e.dirs /\ scan'.nominated = scan.nominated \cup e.found
      BY <1>1, <3>1, HitEffect
    <3>3. /\ scan.record[d].files = 0 /\ scan.record[d].bytes = 0 /\ scan.record[d].dirs = 0
          /\ scan.record[d].found = {}
      BY <1>1, <2>1 DEF RecordShape
    <3>4. scan'.record[d] = e /\ \A c \in Dir : c # d => scan'.record[c] = scan.record[c]
      BY <1>2, <3>2
    <3>5. Listed' = Listed
      BY <1>2, <2>1, <3>2 DEF Listed
    <3>6. Repeated' = Repeated
      BY <3>5 DEF Repeated, NamesOfLinked
    <3>7. /\ Total(FilesRecorded, Outstanding)' + 0 = Total(FilesRecorded, Outstanding) + e.files
          /\ Total(BytesRecorded, Outstanding)' + 0 = Total(BytesRecorded, Outstanding) + e.bytes
          /\ Total(DirsRecorded, Outstanding)' + 0 = Total(DirsRecorded, Outstanding) + e.dirs
          /\ {Total(FilesRecorded, Outstanding), Total(BytesRecorded, Outstanding),
              Total(DirsRecorded, Outstanding), Total(FilesRecorded, Outstanding)',
              Total(BytesRecorded, Outstanding)', Total(DirsRecorded, Outstanding)'} \subseteq Nat
      BY <1>1, <3>2, <3>3, <3>4, OneRecordCounts
    <3>8. scan'.record[d].found = scan.record[d].found \cup e.found
      BY <3>3, <3>4
    <3>9. scan'.nominated = UNION {scan'.record[c].found : c \in Outstanding'}
      <4> DEFINE new == e.found
      <4>1. /\ scan'.record[d].found = scan.record[d].found \cup new
            /\ scan'.nominated = scan.nominated \cup new /\ scan'.rolled = {}
            /\ scan.nominated = UNION {scan.record[c].found : c \in Outstanding}
        BY <1>1, <3>2, <3>8 DEF Sums
      <4> HIDE DEF new
      <4> QED BY <1>1, <3>4, <4>1, OneRecordFound
    <3>10. e.files \in Nat /\ e.bytes \in Nat /\ e.dirs \in Nat
      BY <1>3, <3>1
    <3> HIDE DEF e
    <3>11. /\ scan'.files = Total(FilesRecorded, Outstanding)'
           /\ scan'.dirs = Total(DirsRecorded, Outstanding)'
           /\ scan'.bytes + Repeated' = Total(BytesRecorded, Outstanding)'
      BY <1>1, <1>2, <1>4, <3>2, <3>6, <3>7, <3>10 DEF Sums
    <3>12. scan'.linked <=> Listed' \cap Linked # {}
      BY <1>1, <3>2, <3>5 DEF Sums
    <3> QED BY <3>9, <3>11, <3>12 DEF Sums
  <2>3. CASE ~(scan.cached /\ cache[d].held /\ CacheHit(cache[d], mtime[d], Listing(d)))
    <3>1. /\ scan'.stage = [scan.stage EXCEPT ![d] = "entered"]
          /\ scan'.record = scan.record /\ scan'.rolled = scan.rolled /\ scan'.linked = scan.linked
          /\ scan'.files = scan.files /\ scan'.bytes = scan.bytes /\ scan'.dirs = scan.dirs
          /\ scan'.nominated = scan.nominated
      BY <1>5, <2>3, EnterEffect
    <3>2. Listed' = Listed
      BY <1>2, <2>1, <3>1 DEF Listed
    <3>3. Repeated' = Repeated
      BY <3>2 DEF Repeated, NamesOfLinked
    <3>4. /\ Outstanding' = Outstanding /\ FilesRecorded' = FilesRecorded
          /\ BytesRecorded' = BytesRecorded /\ DirsRecorded' = DirsRecorded
      BY <3>1 DEF FilesRecorded, BytesRecorded, DirsRecorded, Outstanding
    <3>5. /\ Total(FilesRecorded, Outstanding)' = Total(FilesRecorded, Outstanding)
          /\ Total(BytesRecorded, Outstanding)' = Total(BytesRecorded, Outstanding)
          /\ Total(DirsRecorded, Outstanding)' = Total(DirsRecorded, Outstanding)
      BY <3>4 DEF Total
    <3>6. UNION {scan'.record[c].found : c \in Outstanding'} = UNION {scan.record[c].found : c \in Outstanding}
      BY <3>1, <3>4
    <3> QED BY <1>1, <3>1, <3>2, <3>3, <3>5, <3>6 DEF Sums
  <2> QED BY <2>2, <2>3
<1>6. CASE Visit(d)
  <2>1. scan.stage[d] = "entered"
    BY <1>6 DEF Visit
  <2>2. PICK names \in {scan.memo[d].names, Listing(d)} :
          /\ scan'.stage = [scan.stage EXCEPT ![d] = "visited"]
          /\ scan'.record = [scan.record EXCEPT ![d] =
                   [NoEntry EXCEPT !.held = TRUE, !.mtime = mtime[d],
                       !.names = names, !.dirs = 1, !.found = OwnCandidates(d, names)]]
          /\ scan'.record[d].files = 0 /\ scan'.record[d].bytes = 0
          /\ scan'.record[d].dirs = 1 /\ scan'.record[d].found = OwnCandidates(d, names)
          /\ scan'.rolled = {} /\ scan'.linked = scan.linked
          /\ scan'.files = scan.files /\ scan'.bytes = scan.bytes /\ scan'.dirs = scan.dirs + 1
          /\ scan'.nominated = scan.nominated \cup OwnCandidates(d, names)
    BY <1>1, <1>6, VisitEffect
  <2>3. /\ scan.record[d].files = 0 /\ scan.record[d].bytes = 0 /\ scan.record[d].dirs = 0
        /\ scan.record[d].found = {}
    BY <1>1, <2>1 DEF RecordShape
  <2>4. \A c \in Dir : c # d => scan'.record[c] = scan.record[c]
    BY <1>2, <2>2
  <2>5. Listed' = Listed
    BY <1>2, <2>1, <2>2 DEF Listed
  <2>6. Repeated' = Repeated
    BY <2>5 DEF Repeated, NamesOfLinked
  <2>7. /\ Total(FilesRecorded, Outstanding)' + 0 = Total(FilesRecorded, Outstanding) + 0
        /\ Total(BytesRecorded, Outstanding)' + 0 = Total(BytesRecorded, Outstanding) + 0
        /\ Total(DirsRecorded, Outstanding)' + 0 = Total(DirsRecorded, Outstanding) + 1
        /\ {Total(FilesRecorded, Outstanding), Total(BytesRecorded, Outstanding),
            Total(DirsRecorded, Outstanding), Total(FilesRecorded, Outstanding)',
            Total(BytesRecorded, Outstanding)', Total(DirsRecorded, Outstanding)'} \subseteq Nat
    BY <1>1, <2>2, <2>3, <2>4, OneRecordCounts
  <2>8. scan'.record[d].found = scan.record[d].found \cup OwnCandidates(d, names)
    BY <2>2, <2>3
  <2>9. scan'.nominated = UNION {scan'.record[c].found : c \in Outstanding'}
    BY <1>1, <2>2, <2>4, <2>8, OneRecordFound DEF Sums
  <2>10. /\ scan'.files = Total(FilesRecorded, Outstanding)'
         /\ scan'.dirs = Total(DirsRecorded, Outstanding)'
         /\ scan'.bytes + Repeated' = Total(BytesRecorded, Outstanding)'
    BY <1>1, <1>2, <1>4, <2>2, <2>6, <2>7 DEF Sums
  <2>11. scan'.linked <=> Listed' \cap Linked # {}
    BY <1>1, <2>2, <2>5 DEF Sums
  <2> QED BY <2>9, <2>10, <2>11 DEF Sums
<1>7. CASE List(d)
  <2> DEFINE f == Cardinality(FilesOf(d))
             b == BytesOf(d)
             k == LinkOf(d)
  <2>1. f \in Nat /\ b \in Nat /\ k \in {0, 1} /\ (k = 1 <=> d \in Linked)
    BY CountsAreNat DEF LinkOf
  <2>2. /\ scan'.record[d].files = f + k /\ scan'.record[d].bytes = b + k
        /\ scan'.record[d].dirs = scan.record[d].dirs /\ scan'.record[d].found = scan.record[d].found
        /\ scan'.rolled = {} /\ scan'.linked = (scan.linked \/ d \in Linked)
        /\ scan'.files = scan.files + f + k
        /\ scan'.bytes = scan.bytes + b + (IF scan.linked THEN 0 ELSE k)
        /\ scan'.dirs = scan.dirs /\ scan'.nominated = scan.nominated
    BY <1>1, <1>7, ListEffect
  <2>3. /\ Listed' = Listed \cup {d} /\ d \notin Listed
        /\ \A c \in Dir : c # d => scan'.record[c] = scan.record[c]
    BY <1>7, ListKeepsShape
  <2>4. scan.record[d].files = 0 /\ scan.record[d].bytes = 0 /\ scan.record[d].dirs = 1
    BY <1>1, <1>7 DEF RecordShape, List
  <2>5. /\ Total(FilesRecorded, Outstanding)' + 0 = Total(FilesRecorded, Outstanding) + (f + k)
        /\ Total(BytesRecorded, Outstanding)' + 0 = Total(BytesRecorded, Outstanding) + (b + k)
        /\ Total(DirsRecorded, Outstanding)' + 1 = Total(DirsRecorded, Outstanding) + 1
        /\ {Total(FilesRecorded, Outstanding), Total(BytesRecorded, Outstanding),
            Total(DirsRecorded, Outstanding), Total(FilesRecorded, Outstanding)',
            Total(BytesRecorded, Outstanding)', Total(DirsRecorded, Outstanding)'} \subseteq Nat
    BY <1>1, <2>2, <2>3, <2>4, OneRecordCounts
  <2>6. Repeated' = Repeated + (IF d \in Linked /\ Listed \cap Linked # {} THEN 1 ELSE 0)
    BY <2>3, OneMoreListed
  <2>7. scan'.nominated = UNION {scan'.record[c].found : c \in Outstanding'}
    <3>1. scan'.record[d].found = scan.record[d].found \cup {} /\ scan'.nominated = scan.nominated \cup {}
      BY <2>2
    <3> QED BY <1>1, <2>2, <2>3, <3>1, OneRecordFound DEF Sums
  <2>8. scan.linked <=> Listed \cap Linked # {}
    BY <1>1 DEF Sums
  <2> HIDE DEF f, b, k
  <2>9. /\ scan'.files = Total(FilesRecorded, Outstanding)'
        /\ scan'.dirs = Total(DirsRecorded, Outstanding)'
    BY <1>1, <1>2, <2>1, <2>2, <2>5 DEF Sums
  <2>10. scan'.bytes + Repeated' = Total(BytesRecorded, Outstanding)'
    BY <1>1, <1>2, <1>4, <2>1, <2>2, <2>5, <2>6, <2>8 DEF Sums
  <2>11. scan'.linked <=> Listed' \cap Linked # {}
    BY <1>2, <2>2, <2>3, <2>8
  <2> QED BY <2>7, <2>9, <2>10, <2>11 DEF Sums
<1> QED BY <1>5, <1>6, <1>7

(* Rolling up neither loses nor repeats anything.                              *)
LEMMA RollUpKeepsCount ==
    ASSUME ScanTypes, ScanTypes', Shape, Counted, NEW d \in Dir, RollUp(d), scan.root \in Dir
    PROVE  Sums'
<1> DEFINE p == Parent[d]
           S == Outstanding
<1>1. /\ p \in Dir /\ p # d /\ p \in S /\ d \in S /\ Sums
      /\ IsFiniteSet(S) /\ S \subseteq Dir
  BY WhatRollsUp, DirsAreFinite DEF Outstanding, Counted, Active
<1>2. /\ scan'.rolled = scan.rolled \cup {d} /\ scan'.linked = scan.linked
      /\ scan'.files = scan.files /\ scan'.bytes = scan.bytes /\ scan'.dirs = scan.dirs
      /\ scan'.nominated = scan.nominated
      /\ \A c \in Dir : c # p => scan'.record[c] = scan.record[c]
      /\ scan'.record[p].files = scan.record[p].files + scan.record[d].files
      /\ scan'.record[p].bytes = scan.record[p].bytes + scan.record[d].bytes
      /\ scan'.record[p].dirs = scan.record[p].dirs + scan.record[d].dirs
      /\ scan'.record[p].found = scan.record[p].found \cup scan.record[d].found
  BY <1>1, RollUpEffect
<1>3. Listed' = Listed
  BY RollUpKeepsShape
<1>4. Outstanding' = S \ {d}
  BY <1>2 DEF Outstanding
<1>5. \A c \in Dir : /\ FilesRecorded[c] \in Nat /\ FilesRecorded[c] = scan.record[c].files
                     /\ BytesRecorded[c] \in Nat /\ BytesRecorded[c] = scan.record[c].bytes
                     /\ DirsRecorded[c] \in Nat /\ DirsRecorded[c] = scan.record[c].dirs
  BY RecordedTyped
<1>6. \A c \in Dir : /\ FilesRecorded'[c] \in Nat /\ FilesRecorded'[c] = scan'.record[c].files
                     /\ BytesRecorded'[c] \in Nat /\ BytesRecorded'[c] = scan'.record[c].bytes
                     /\ DirsRecorded'[c] \in Nat /\ DirsRecorded'[c] = scan'.record[c].dirs
  <2>1. \A c \in Dir : scan'.record[c] \in Entry
    BY DEF ScanTypes, Scans
  <2> QED BY <2>1 DEF FilesRecorded, BytesRecorded, DirsRecorded, Entry
<1> HIDE DEF p, S
<1>7. /\ \A c \in S : FilesRecorded[c] \in Nat /\ FilesRecorded'[c] \in Nat
      /\ \A c \in S \ {p} : FilesRecorded'[c] = FilesRecorded[c]
      /\ FilesRecorded'[p] = FilesRecorded[p] + FilesRecorded[d]
  BY <1>1, <1>2, <1>5, <1>6
<1>8. /\ \A c \in S : BytesRecorded[c] \in Nat /\ BytesRecorded'[c] \in Nat
      /\ \A c \in S \ {p} : BytesRecorded'[c] = BytesRecorded[c]
      /\ BytesRecorded'[p] = BytesRecorded[p] + BytesRecorded[d]
  BY <1>1, <1>2, <1>5, <1>6
<1>9. /\ \A c \in S : DirsRecorded[c] \in Nat /\ DirsRecorded'[c] \in Nat
      /\ \A c \in S \ {p} : DirsRecorded'[c] = DirsRecorded[c]
      /\ DirsRecorded'[p] = DirsRecorded[p] + DirsRecorded[d]
  BY <1>1, <1>2, <1>5, <1>6
<1>10. \A f, g : /\ \A c \in S : f[c] \in Nat /\ g[c] \in Nat
                 /\ \A c \in S \ {p} : g[c] = f[c]
                 /\ g[p] = f[p] + f[d]
                 => Total(g, S \ {d}) = Total(f, S)
  BY <1>1, TotalWhenOneMoves
<1>11. /\ Total(FilesRecorded', S \ {d}) = Total(FilesRecorded, S)
       /\ Total(BytesRecorded', S \ {d}) = Total(BytesRecorded, S)
       /\ Total(DirsRecorded', S \ {d}) = Total(DirsRecorded, S)
  BY <1>7, <1>8, <1>9, <1>10
<1>12. /\ Total(FilesRecorded, Outstanding)' = Total(FilesRecorded, S)
       /\ Total(BytesRecorded, Outstanding)' = Total(BytesRecorded, S)
       /\ Total(DirsRecorded, Outstanding)' = Total(DirsRecorded, S)
  BY <1>4, <1>11 DEF Total
<1>13. scan'.nominated = UNION {scan'.record[c].found : c \in Outstanding'}
  <2>1. scan.nominated = UNION {scan.record[c].found : c \in S}
    BY <1>1 DEF Sums, S
  <2>2. \A x : (\E c \in S : x \in scan.record[c].found) <=> (\E c \in S \ {d} : x \in scan'.record[c].found)
    BY <1>1, <1>2
  <2> QED BY <1>2, <1>4, <2>1, <2>2
<1>14. Repeated' = Repeated
  BY <1>3 DEF Repeated, NamesOfLinked
<1> QED BY <1>1, <1>2, <1>3, <1>12, <1>13, <1>14 DEF Sums, S

(* The agreement of the two counts is an invariant.                            *)
LEMMA CountedHolds ==
    /\ ScanInit => Counted
    /\ ScanTypes /\ ScanTypes' /\ Shape /\ Counted /\ [ScanNext]_scanVars => Counted'
<1>1. ScanInit => Counted
  BY DEF ScanInit, Counted, Active, NoScan
<1>2. ASSUME ScanTypes, ScanTypes', Shape, Counted, [ScanNext]_scanVars PROVE Counted'
  <2> USE <1>2
  <2>1. ASSUME Active' => Active, scan'.root = scan.root, scan'.stage = scan.stage,
               scan'.record = scan.record, scan'.rolled = scan.rolled, scan'.linked = scan.linked,
               scan'.files = scan.files, scan'.bytes = scan.bytes, scan'.dirs = scan.dirs,
               scan'.nominated = scan.nominated
        PROVE  Counted'
    <3>1. Listed' = Listed
      BY <2>1 DEF Listed
    <3> QED BY <2>1, <3>1 DEF Counted, Sums, Repeated, NamesOfLinked,
                              FilesRecorded, BytesRecorded, DirsRecorded, Outstanding
  <2>2. ASSUME NEW root \in Root, NEW hours \in {0, Window}, Begin(root, hours) PROVE Counted'
    <3> SUFFICES ASSUME root \in Dir PROVE Sums'
      BY <2>2, BeginEffect DEF Counted
    <3>1. /\ scan'.stage = [d \in Dir |-> IF d = root THEN "entered" ELSE "unseen"]
          /\ scan'.record = [d \in Dir |-> NoEntry]
          /\ scan'.rolled = {} /\ scan'.files = 0 /\ scan'.bytes = 0 /\ scan'.dirs = 0
          /\ scan'.linked = FALSE
          /\ scan'.nominated = (IF root \in Lane /\ room[root] > 0 /\ ~RecentlyActive(root, hours)
                                THEN {root} ELSE {})
      BY <2>2, BeginEffect
    <3>2. root \notin Lane
      BY ScanAssumption
    <3>3. NoEntry.files = 0 /\ NoEntry.bytes = 0 /\ NoEntry.dirs = 0 /\ NoEntry.found = {}
      BY DEF NoEntry
    <3>4. Listed' = {}
      BY <3>1 DEF Listed
    <3>5. Repeated' = 0
      <4>1. NamesOfLinked' = Cardinality({})
        BY <3>4 DEF NamesOfLinked
      <4> QED BY <4>1, FS_EmptySet DEF Repeated
    <3>6. \A f : (\A d \in Dir : f[d] = 0) => Total(f, Dir) = 0
      <4> TAKE f
      <4> HAVE \A d \in Dir : f[d] = 0
      <4>1. Total(f, Dir) = Total(f, {})
        BY TotalOfSupport
      <4> QED BY <4>1, TotalOfNone
    <3>7. \A d \in Dir : FilesRecorded'[d] = 0 /\ BytesRecorded'[d] = 0 /\ DirsRecorded'[d] = 0
      BY <3>1, <3>3 DEF FilesRecorded, BytesRecorded, DirsRecorded
    <3>8. Total(FilesRecorded', Dir) = 0 /\ Total(BytesRecorded', Dir) = 0 /\ Total(DirsRecorded', Dir) = 0
      BY <3>6, <3>7
    <3>9. Outstanding' = Dir
      BY <3>1 DEF Outstanding
    <3>10. /\ Total(FilesRecorded, Outstanding)' = 0 /\ Total(BytesRecorded, Outstanding)' = 0
           /\ Total(DirsRecorded, Outstanding)' = 0
      BY <3>8, <3>9 DEF Total
    <3> QED BY <3>1, <3>2, <3>3, <3>4, <3>5, <3>9, <3>10 DEF Sums
  <2>3. ASSUME NEW d \in Dir, Filter(d) \/ Visit(d) \/ List(d) PROVE Counted'
    <3>1. scan'.root = scan.root
      <4>1. Filter(d) => scan'.root = scan.root
        BY HitEffect, EnterEffect DEF Filter, ScanTypes, SameCommand
      <4> QED BY <2>3, <4>1, VisitEffect, ListEffect DEF SameCommand
    <3> QED BY <2>3, <3>1, WalkKeepsCount DEF Counted
  <2>4. CASE Finish
    BY <2>1, <2>4, FinishEffect DEF Finish, Walks, Active, SameCommand
  <2>5. ASSUME NEW d \in Dir, RollUp(d) PROVE Counted'
    BY <2>5, RollUpKeepsCount, RollUpEffect DEF Counted, SameCommand
  <2>6. CASE Store
    BY <2>1, <2>6, StoreEffect DEF Store, Active, SameCommand
  <2>7. CASE Fence \/ MergeGlobalCaches \/ Size \/ End \/ Kill
    BY <2>7, RestIsNotActive DEF Counted
  <2>8. CASE Environment \/ UNCHANGED scanVars
    <3>1. scan' = scan
      BY <2>8, EnvironmentEffect DEF scanVars
    <3> QED BY <2>1, <3>1 DEF Active
  <2> QED BY <2>2, <2>3, <2>4, <2>5, <2>6, <2>7, <2>8 DEF ScanNext, Command
<1> QED BY <1>1, <1>2

------------------------------------------------------------------------------
(* What has been recorded is true of the tree. *)

(* The whole of a subtree, as the tree is now. *)
Faithful(e, d) ==
    /\ e.files = FreshFiles(d) /\ e.bytes = FreshBytes(d)
    /\ e.dirs = Cardinality(Under(d) \cap Dir)
    /\ e.found \ Lane = FreshFound(d) \ Lane

Quiet(d) == (moved \cup (Hits \cap stale)) \cap Under(d) = {}

(* What a record stands for: its directory, and the subtrees rolled up into it. *)
Gathered(d) == {d} \cup UNION {Under(c) \cap Dir : c \in Children(d) \cap scan.rolled}
Seen(d) == Children(d) \cup UNION {Under(c) \ {c} : c \in Children(d) \cap scan.rolled}

RecordIsTrue(d) ==
    /\ scan.stage[d] \in {"visited", "listed"} =>
          scan.record[d].found \ Lane = {n \in (Artifact \cap Seen(d)) \ Lane : Nominable(n)}
    /\ scan.stage[d] = "listed" =>
          /\ scan.record[d].files = Total(OwnFiles, Gathered(d))
          /\ scan.record[d].bytes = Total(OwnBytes, Gathered(d))
          /\ scan.record[d].dirs = Cardinality(Gathered(d))

Truth == Active => \A d \in Dir : Quiet(d) => RecordIsTrue(d)

LEMMA EntriesSaid == EntriesAreTrue <=> \A d \in Dir : cache[d].held /\ d \notin stale => Faithful(cache[d], d)
BY DEF EntriesAreTrue, Faithful

LEMMA OwnTyped ==
    ASSUME ScanTypes
    PROVE  \A d \in Dir : OwnFiles[d] \in Nat /\ OwnBytes[d] \in Nat
BY CountsAreNat DEF OwnFiles, OwnBytes

LEMMA GatheredTyped ==
    ASSUME NEW d \in Dir
    PROVE  /\ Gathered(d) \subseteq Under(d) \cap Dir /\ Seen(d) \subseteq Under(d) \ {d}
           /\ d \in Gathered(d) /\ IsFiniteSet(Gathered(d))
<1>1. d \in Under(d) /\ \A c \in Children(d) : c \in Under(d) \ {d} /\ Under(c) \subseteq Under(d) \ {d}
  BY ChildrenTyped, DirsLieInDirs, AboveTyped DEF Under
<1>2. Gathered(d) \subseteq Under(d) \cap Dir /\ Seen(d) \subseteq Under(d) \ {d} /\ d \in Gathered(d)
  BY <1>1 DEF Gathered, Seen
<1> QED BY <1>2, DirsAreFinite

(* When all the children have been rolled up, the record stands for everything. *)
LEMMA GatheredIsWhole ==
    ASSUME NEW d \in Dir, Children(d) \cap Dir \subseteq scan.rolled
    PROVE  Gathered(d) = Under(d) \cap Dir /\ Seen(d) = Under(d) \ {d}
<1>1. Under(d) = {d} \cup UNION {Under(c) : c \in Children(d)}
  BY UnderChildren
<1>2. \A c \in Children(d) : c \in Dir \/ (c \in Leaf /\ Under(c) = {c} /\ c \notin Dir)
  BY ChildrenTyped, LeavesHoldNothing, ScanAssumption DEF Node
<1>3. \A c \in Children(d) : c # d /\ d \notin Under(c) /\ c \in Under(c)
  BY ChildrenTyped
<1>4. Under(d) \cap Dir \subseteq Gathered(d)
  BY <1>1, <1>2 DEF Gathered
<1>5. Under(d) \ {d} \subseteq Seen(d)
  BY <1>1, <1>2, <1>3 DEF Seen
<1> QED BY <1>4, <1>5, GatheredTyped

(* As long as nothing under a directory changes, neither does what is true of it. *)
LEMMA TruthIsStable ==
    ASSUME NEW d \in Dir, \A c \in Under(d) \cap Dir : size'[c] = size[c],
           \A l \in Under(d) \cap Leaf : room'[l] = room[l]
    PROVE  /\ \A c \in Under(d) \cap Dir : OwnFiles'[c] = OwnFiles[c] /\ OwnBytes'[c] = OwnBytes[c]
           /\ \A n \in Under(d) : Nominable(n)' = Nominable(n)
           /\ \A S \in SUBSET (Under(d) \cap Dir) :
                 Total(OwnFiles', S) = Total(OwnFiles, S) /\ Total(OwnBytes', S) = Total(OwnBytes, S)
           /\ \A e : Faithful(e, d) => Faithful(e, d)'
<1>1. \A c \in Under(d) \cap Dir : OwnFiles'[c] = OwnFiles[c] /\ OwnBytes'[c] = OwnBytes[c]
  BY DEF OwnFiles, OwnBytes, FilesOf, BytesOf, LinkOf, Total
<1>2. \A n \in Under(d) : Nominable(n)' = Nominable(n)
  BY DEF Nominable
<1>3. \A S \in SUBSET (Under(d) \cap Dir) :
         Total(OwnFiles', S) = Total(OwnFiles, S) /\ Total(OwnBytes', S) = Total(OwnBytes, S)
  <2> TAKE S \in SUBSET (Under(d) \cap Dir)
  <2>1. \A c \in S : OwnFiles'[c] = OwnFiles[c] /\ OwnBytes'[c] = OwnBytes[c]
    BY <1>1
  <2> QED BY <2>1, TotalOfSame
<1>4. FreshFiles(d)' = FreshFiles(d) /\ FreshBytes(d)' = FreshBytes(d) /\ FreshFound(d)' = FreshFound(d)
  <2>1. FreshFiles(d)' = Total(OwnFiles', Under(d) \cap Dir) /\ FreshBytes(d)' = Total(OwnBytes', Under(d) \cap Dir)
    BY DEF FreshFiles, FreshBytes, Total
  <2> QED BY <1>2, <1>3, <2>1 DEF FreshFiles, FreshBytes, FreshFound
<1>5. \A e : Faithful(e, d) => Faithful(e, d)'
  BY <1>4 DEF Faithful
<1> QED BY <1>1, <1>2, <1>3, <1>5

(* A record into which everything has been rolled up is faithful, and so is a  *)
(* replayed entry nothing has overtaken.                                       *)
LEMMA WholeRecordIsFaithful ==
    ASSUME ScanTypes, Shape, Truth, EntriesAreTrue, Active, scan.pc # "walk",
           NEW d \in Walked, Quiet(d), Children(d) \cap Walked \subseteq scan.rolled
    PROVE  Faithful(scan.record[d], d)
<1>1. WalkShape /\ RecordShape /\ d \in Dir
  BY DEF Shape, Walked, Listed, Hits
<1>2. CASE d \in Listed
  <2>1. scan.stage[d] = "listed" /\ RecordIsTrue(d)
    BY <1>1, <1>2 DEF Listed, Truth
  <2>2. Children(d) \cap Dir \subseteq scan.rolled
    <3>1. \A c \in Children(d) \cap Dir : scan.stage[c] # "unseen" /\ scan.stage[c] \in {"unseen", "listed", "hit"}
      BY <1>1, <1>2 DEF WalkShape
    <3> QED BY <3>1 DEF Walked, Listed, Hits
  <2>3. Gathered(d) = Under(d) \cap Dir /\ Seen(d) = Under(d) \ {d}
    BY <1>1, <2>2, GatheredIsWhole
  <2>4. FreshFound(d) \ Lane = {n \in (Artifact \cap Seen(d)) \ Lane : Nominable(n)}
    BY <2>3 DEF FreshFound
  <2> QED BY <2>1, <2>3, <2>4 DEF RecordIsTrue, Faithful, FreshFiles, FreshBytes
<1>3. CASE d \in Hits
  <2>1. scan.record[d] = cache[d] /\ cache[d].held /\ d \in Under(d)
    BY <1>1, <1>3, AboveTyped, DirsLieInDirs DEF RecordShape, Under
  <2>2. d \notin stale
    BY <1>3, <2>1 DEF Quiet
  <2> QED BY <1>1, <2>1, <2>2, EntriesSaid
<1> QED BY <1>2, <1>3 DEF Walked

(* Entries stay true as long as the tree does not change.                      *)
LEMMA EntriesOfTheSameTree ==
    ASSUME EntriesAreTrue, UNCHANGED <<size, room, stale>>,
           \A d \in Dir : cache'[d].held => cache'[d] = cache[d]
    PROVE  EntriesAreTrue'
<1>1. ASSUME NEW d \in Dir, cache'[d].held, d \notin stale' PROVE Faithful(cache[d], d)'
  <2>1. cache'[d] = cache[d] /\ Faithful(cache[d], d)
    BY <1>1, EntriesSaid
  <2>2. \A e : Faithful(e, d) => Faithful(e, d)'
    BY TruthIsStable
  <2> QED BY <2>1, <2>2 DEF Faithful
<1> QED BY <1>1 DEF EntriesAreTrue, Faithful

(* What a change makes untrue it also marks.                                   *)
LEMMA EnvironmentKeepsTruth ==
    ASSUME ScanTypes, Truth, EntriesAreTrue, Environment
    PROVE  Truth' /\ EntriesAreTrue'
<1>1. /\ UNCHANGED <<cache, scan>>
      /\ stale \subseteq stale' /\ (scan.pc # "idle" => moved \subseteq moved')
      /\ \A d \in Dir : size'[d] # size[d] =>
            Above[d] \cap Dir \subseteq stale' /\ (scan.pc # "idle" => d \in moved')
      /\ \A l \in Leaf : room'[l] # room[l] =>
            Above[l] \cap Dir \subseteq stale' /\ (scan.pc # "idle" => l \in moved')
  BY EnvironmentEffect
<1>2. ASSUME NEW d \in Dir, cache[d].held, d \notin stale' PROVE Faithful(cache[d], d)'
  <2>1. Faithful(cache[d], d)
    BY <1>1, <1>2, EntriesSaid
  <2>2. /\ \A c \in Under(d) \cap Dir : size'[c] = size[c]
        /\ \A l \in Under(d) \cap Leaf : room'[l] = room[l]
    BY <1>1, <1>2 DEF Under
  <2>3. \A e : Faithful(e, d) => Faithful(e, d)'
    BY <2>2, TruthIsStable
  <2>4. cache'[d] = cache[d]
    BY <1>1
  <2> QED BY <2>1, <2>3, <2>4 DEF Faithful
<1>3. EntriesAreTrue'
  BY <1>1, <1>2 DEF EntriesAreTrue, Faithful
<1>4. ASSUME Active, NEW d \in Dir, Quiet(d)' PROVE RecordIsTrue(d)'
  <2>1. scan.pc # "idle" /\ moved' \cap Under(d) = {} /\ Quiet(d)
    BY <1>1, <1>4 DEF Active, Quiet, Hits, Under
  <2>2. RecordIsTrue(d)
    BY <1>4, <2>1 DEF Truth
  <2>3. /\ \A c \in Under(d) \cap Dir : size'[c] = size[c]
        /\ \A l \in Under(d) \cap Leaf : room'[l] = room[l]
    BY <1>1, <2>1
  <2>4. /\ \A n \in Under(d) : Nominable(n)' = Nominable(n)
        /\ \A S \in SUBSET (Under(d) \cap Dir) :
              Total(OwnFiles', S) = Total(OwnFiles, S) /\ Total(OwnBytes', S) = Total(OwnBytes, S)
    BY <2>3, TruthIsStable
  <2>5. /\ Gathered(d)' = Gathered(d) /\ Seen(d)' = Seen(d)
        /\ Gathered(d) \in SUBSET (Under(d) \cap Dir) /\ Seen(d) \subseteq Under(d)
    BY <1>1, GatheredTyped DEF Gathered, Seen
  <2>6. /\ Total(OwnFiles, Gathered(d))' = Total(OwnFiles, Gathered(d))
        /\ Total(OwnBytes, Gathered(d))' = Total(OwnBytes, Gathered(d))
    BY <2>4, <2>5 DEF Total
  <2>7. {n \in (Artifact \cap Seen(d)) \ Lane : Nominable(n)}' = {n \in (Artifact \cap Seen(d)) \ Lane : Nominable(n)}
    BY <2>4, <2>5
  <2> QED BY <1>1, <2>2, <2>5, <2>6, <2>7 DEF RecordIsTrue
<1> QED BY <1>1, <1>3, <1>4 DEF Truth, Active

(* The walk records what is there.                                             *)
LEMMA WalkKeepsTruth ==
    ASSUME ScanTypes, Shape, Exact, Truth, EntriesAreTrue, NEW d \in Dir, Filter(d) \/ Visit(d) \/ List(d)
    PROVE  Truth' /\ EntriesAreTrue'
<1>1. /\ scan.pc = "walk" /\ scan.rolled = {} /\ UNCHANGED <<now, mtime, size, room, cache, moved, stale>>
      /\ Memos /\ WalkShape /\ RecordShape /\ \A c \in Dir : Quiet(c) => RecordIsTrue(c)
  BY DEF Filter, Visit, List, Walks, tree, Exact, Active, Shape, Truth, RollShape
<1>2. /\ scan.stage \in [Dir -> {"unseen", "found", "entered", "visited", "listed", "hit"}]
      /\ scan.record \in [Dir -> Entry]
  BY DEF ScanTypes, Scans
<1>3. EntriesAreTrue'
  BY <1>1, EntriesOfTheSameTree
<1>4. ASSUME scan'.rolled = {}, Hits \subseteq Hits', NEW c \in Dir, Quiet(c)',
             scan'.stage[c] = scan.stage[c] \/ scan'.stage[c] \in {"found", "entered", "hit"},
             scan'.record[c] = scan.record[c] \/ scan'.stage[c] = "hit"
      PROVE  RecordIsTrue(c)'
  <2>1. Quiet(c)
    BY <1>1, <1>4 DEF Quiet
  <2>2. RecordIsTrue(c)
    BY <1>1, <2>1
  <2>3. /\ Gathered(c)' = Gathered(c) /\ Seen(c)' = Seen(c) /\ \A n : Nominable(n)' = Nominable(n)
    BY <1>1, <1>4 DEF Gathered, Seen, Nominable
  <2>4. /\ Total(OwnFiles, Gathered(c))' = Total(OwnFiles, Gathered(c))
        /\ Total(OwnBytes, Gathered(c))' = Total(OwnBytes, Gathered(c))
    BY <1>1, <2>3 DEF OwnFiles, OwnBytes, FilesOf, BytesOf, LinkOf, Total
  <2>5. {n \in (Artifact \cap Seen(c)) \ Lane : Nominable(n)}' = {n \in (Artifact \cap Seen(c)) \ Lane : Nominable(n)}
    BY <2>3
  <2> QED BY <1>4, <2>2, <2>3, <2>4, <2>5 DEF RecordIsTrue
<1>5. CASE Filter(d)
  <2>1. scan.stage[d] = "found"
    BY <1>5 DEF Filter
  <2>2. /\ scan'.rolled = {} /\ Hits \subseteq Hits' /\ scan'.stage[d] \in {"entered", "hit"}
        /\ scan'.record[d] = scan.record[d] \/ scan'.stage[d] = "hit"
        /\ \A c \in Dir : c # d => scan'.stage[c] = scan.stage[c] /\ scan'.record[c] = scan.record[c]
    <3>1. CASE scan.cached /\ cache[d].held /\ CacheHit(cache[d], mtime[d], Listing(d))
      <4>1. FoldCachedStats(d, cache[d]) /\ cache[d] \in Entry
        BY <1>5, <3>1 DEF Filter, ScanTypes
      <4>2. /\ scan'.stage = [scan.stage EXCEPT ![d] = "hit"] /\ scan'.rolled = {}
            /\ scan'.record = [scan.record EXCEPT ![d] = cache[d]]
        BY <1>1, <4>1, HitEffect
      <4> QED BY <1>2, <4>2 DEF Hits
    <3>2. CASE ~(scan.cached /\ cache[d].held /\ CacheHit(cache[d], mtime[d], Listing(d)))
      <4>1. /\ scan'.stage = [scan.stage EXCEPT ![d] = "entered"] /\ scan'.rolled = {}
            /\ scan'.record = scan.record
        BY <1>1, <1>5, <3>2, EnterEffect
      <4> QED BY <1>2, <2>1, <4>1 DEF Hits
    <3> QED BY <3>1, <3>2
  <2>3. \A c \in Dir : Quiet(c)' => RecordIsTrue(c)'
    BY <1>4, <2>2
  <2> QED BY <1>3, <2>3 DEF Truth
<1>6. CASE Visit(d)
  <2>1. scan.stage[d] = "entered"
    BY <1>6 DEF Visit
  <2>2. PICK names \in {scan.memo[d].names, Listing(d)} :
          /\ names = (IF scan.memo[d].held THEN scan.memo[d].names ELSE Listing(d))
          /\ scan'.stage = [scan.stage EXCEPT ![d] = "visited"]
          /\ scan'.record = [scan.record EXCEPT ![d] =
                   [NoEntry EXCEPT !.held = TRUE, !.mtime = mtime[d],
                       !.names = names, !.dirs = 1, !.found = OwnCandidates(d, names)]]
          /\ scan'.record[d].found = OwnCandidates(d, names) /\ scan'.rolled = {}
    BY <1>1, <1>6, VisitEffect
  <2>3. /\ Hits' = Hits /\ scan'.stage[d] = "visited"
        /\ \A c \in Dir : c # d => scan'.stage[c] = scan.stage[c] /\ scan'.record[c] = scan.record[c]
    BY <1>2, <2>1, <2>2 DEF Hits
  <2>4. ASSUME Quiet(d)' PROVE RecordIsTrue(d)'
    <3>1. \A n \in Children(d) : n \notin moved
      <4>1. Children(d) \subseteq Under(d)
        BY ChildrenTyped
      <4> QED BY <1>1, <2>4, <4>1 DEF Quiet, Under
    <3>2. \A l \in Children(d) \cap Leaf : l \in names.leaves <=> room[l] > 0
      BY <1>1, <2>2, <3>1 DEF Memos, Listing
    <3>3. OwnCandidates(d, names) \ Lane = {n \in (Artifact \cap Children(d)) \ Lane : Nominable(n)}
      BY <3>2 DEF OwnCandidates, Nominable, Children
    <3>4. Seen(d)' = Children(d) /\ \A n : Nominable(n)' = Nominable(n)
      BY <1>1, <2>2 DEF Seen, Nominable
    <3>5. {n \in (Artifact \cap Seen(d)) \ Lane : Nominable(n)}' = {n \in (Artifact \cap Children(d)) \ Lane : Nominable(n)}
      BY <3>4
    <3> QED BY <2>2, <2>3, <3>3, <3>5 DEF RecordIsTrue
  <2>5. \A c \in Dir : Quiet(c)' => RecordIsTrue(c)'
    BY <1>4, <2>2, <2>3, <2>4
  <2> QED BY <1>3, <2>5 DEF Truth
<1>7. CASE List(d)
  <2>1. /\ scan'.record[d].files = Cardinality(FilesOf(d)) + LinkOf(d)
        /\ scan'.record[d].bytes = BytesOf(d) + LinkOf(d)
        /\ scan'.record[d].dirs = scan.record[d].dirs /\ scan'.record[d].found = scan.record[d].found
        /\ scan'.rolled = {}
    BY <1>1, <1>7, ListEffect
  <2>2. /\ Listed' = Listed \cup {d} /\ Hits' = Hits /\ scan.stage[d] = "visited" /\ scan.record[d].dirs = 1
        /\ \A c \in Dir : c # d =>
              scan'.record[c] = scan.record[c] /\ (scan'.stage[c] = scan.stage[c] \/ scan'.stage[c] = "found")
    <3>1. scan.stage[d] = "visited" /\ scan.record[d].dirs = 1
      BY <1>1, <1>7 DEF List, RecordShape
    <3> QED BY <1>7, <3>1, ListKeepsShape
  <2>3. ASSUME Quiet(d)' PROVE RecordIsTrue(d)'
    <3>1. RecordIsTrue(d)
      BY <1>1, <2>2, <2>3 DEF Quiet, Under
    <3>2. /\ Gathered(d)' = {d} /\ Seen(d)' = Seen(d) /\ \A n : Nominable(n)' = Nominable(n)
      BY <1>1, <2>1 DEF Gathered, Seen, Nominable
    <3>3. {n \in (Artifact \cap Seen(d)) \ Lane : Nominable(n)}' = {n \in (Artifact \cap Seen(d)) \ Lane : Nominable(n)}
      BY <3>2
    <3>4. /\ OwnFiles'[d] = Cardinality(FilesOf(d)) + LinkOf(d) /\ OwnBytes'[d] = BytesOf(d) + LinkOf(d)
      BY <1>1 DEF OwnFiles, OwnBytes, FilesOf, BytesOf, LinkOf, Total
    <3>5. OwnFiles'[d] \in Nat /\ OwnBytes'[d] \in Nat
      BY <3>4, CountsAreNat
    <3>6. Total(OwnFiles', {d}) = OwnFiles'[d] /\ Total(OwnBytes', {d}) = OwnBytes'[d]
      BY <3>5, TotalOfOne
    <3>7. Total(OwnFiles, Gathered(d))' = OwnFiles'[d] /\ Total(OwnBytes, Gathered(d))' = OwnBytes'[d]
      BY <3>2, <3>6 DEF Total
    <3>8. Cardinality(Gathered(d)') = 1
      BY <3>2, FS_Singleton
    <3>9. scan'.stage[d] = "listed"
      BY <2>2 DEF Listed
    <3> QED BY <2>1, <2>2, <3>1, <3>3, <3>4, <3>7, <3>8, <3>9 DEF RecordIsTrue
  <2>4. \A c \in Dir : Quiet(c)' => RecordIsTrue(c)'
    BY <1>4, <2>1, <2>2, <2>3
  <2> QED BY <1>3, <2>4 DEF Truth
<1> QED BY <1>5, <1>6, <1>7

(* A parent takes up the whole of a child, once.                               *)
LEMMA RollUpKeepsTruth ==
    ASSUME ScanTypes, Shape, Truth, EntriesAreTrue, NEW d \in Dir, RollUp(d)
    PROVE  Truth' /\ EntriesAreTrue'
<1> DEFINE p == Parent[d]
<1>1. /\ scan.pc = "rollup" /\ UNCHANGED <<size, room, cache, moved, stale>>
      /\ \A c \in Dir : Quiet(c) => RecordIsTrue(c)
  BY DEF RollUp, tree, Truth, Active
<1>2. /\ p \in Listed /\ p \in Dir /\ p # d /\ d \in Children(p)
      /\ d \in Walked /\ d \notin scan.rolled /\ Children(d) \cap Walked \subseteq scan.rolled
  BY WhatRollsUp
<1>3. /\ scan'.stage = scan.stage /\ scan'.rolled = scan.rolled \cup {d}
      /\ \A c \in Dir : c # p => scan'.record[c] = scan.record[c]
      /\ scan'.record[p].files = scan.record[p].files + scan.record[d].files
      /\ scan'.record[p].bytes = scan.record[p].bytes + scan.record[d].bytes
      /\ scan'.record[p].dirs = scan.record[p].dirs + scan.record[d].dirs
      /\ scan'.record[p].found = scan.record[p].found \cup scan.record[d].found
  BY <1>2, RollUpEffect
<1>4. EntriesAreTrue' /\ \A c \in Dir : Quiet(c)' = Quiet(c)
  BY <1>1, <1>3, EntriesOfTheSameTree DEF Quiet, Hits, Under
<1>5. \A S : Total(OwnFiles, S)' = Total(OwnFiles, S') /\ Total(OwnBytes, S)' = Total(OwnBytes, S')
  BY <1>1 DEF OwnFiles, OwnBytes, FilesOf, BytesOf, LinkOf, Total
<1>6. \A n : Nominable(n)' = Nominable(n)
  BY <1>1 DEF Nominable
<1>7. ASSUME NEW c \in Dir, c # p, Quiet(c) PROVE RecordIsTrue(c)'
  <2>1. d \notin Children(c)
    BY <1>2, <1>7 DEF Children
  <2>2. Gathered(c)' = Gathered(c) /\ Seen(c)' = Seen(c)
    BY <1>3, <2>1 DEF Gathered, Seen
  <2>3. {n \in (Artifact \cap Seen(c)) \ Lane : Nominable(n)}' = {n \in (Artifact \cap Seen(c)) \ Lane : Nominable(n)}
    BY <1>6, <2>2
  <2>4. RecordIsTrue(c)
    BY <1>1, <1>7
  <2>5. /\ Total(OwnFiles, Gathered(c))' = Total(OwnFiles, Gathered(c))
        /\ Total(OwnBytes, Gathered(c))' = Total(OwnBytes, Gathered(c))
    BY <1>5, <2>2
  <2> QED BY <1>3, <1>7, <2>2, <2>3, <2>4, <2>5 DEF RecordIsTrue
<1>8. ASSUME Quiet(p) PROVE RecordIsTrue(p)'
  <2> DEFINE U == Under(d) \cap Dir
  <2>1. Under(d) \subseteq Under(p) /\ p \notin Under(d) /\ d \in Under(d)
    BY <1>2, ChildrenTyped
  <2>2. Quiet(d)
    BY <1>8, <2>1 DEF Quiet
  <2>3. Faithful(scan.record[d], d)
    BY <1>1, <1>2, <2>2, WholeRecordIsFaithful DEF Active
  <2>4. RecordIsTrue(p) /\ scan.stage[p] = "listed"
    BY <1>1, <1>2, <1>8 DEF Listed
  <2>5. Gathered(p)' = Gathered(p) \cup U /\ Seen(p)' = Seen(p) \cup (Under(d) \ {d})
    BY <1>2, <1>3 DEF Gathered, Seen, Under, Children
  <2>6. Gathered(p) \cap U = {}
    <3>1. \A c \in Children(p) \cap scan.rolled : Under(c) \cap Under(d) = {}
      BY <1>2, SiblingsAreApart
    <3> QED BY <2>1, <3>1 DEF Gathered
  <2>7. IsFiniteSet(Gathered(p)) /\ IsFiniteSet(U) /\ Gathered(p) \subseteq Dir /\ U \subseteq Dir
    BY <1>2, GatheredTyped, DirsAreFinite
  <2>8. \A c \in Gathered(p) \cup U : OwnFiles[c] \in Nat /\ OwnBytes[c] \in Nat
    BY <2>7, OwnTyped
  <2> HIDE DEF U
  <2>9. /\ Total(OwnFiles, Gathered(p) \cup U) = Total(OwnFiles, Gathered(p)) + Total(OwnFiles, U)
        /\ Total(OwnBytes, Gathered(p) \cup U) = Total(OwnBytes, Gathered(p)) + Total(OwnBytes, U)
    BY <2>6, <2>7, <2>8, TotalOfUnion
  <2>10. Cardinality(Gathered(p) \cup U) = Cardinality(Gathered(p)) + Cardinality(U)
    BY <2>6, <2>7, DisjointParts
  <2>11. /\ scan.record[d].files = Total(OwnFiles, U) /\ scan.record[d].bytes = Total(OwnBytes, U)
         /\ scan.record[d].dirs = Cardinality(U) /\ scan.record[d].found \ Lane = FreshFound(d) \ Lane
    BY <2>3 DEF Faithful, FreshFiles, FreshBytes, U
  <2>12. /\ scan'.record[p].files = Total(OwnFiles, Gathered(p) \cup U)
         /\ scan'.record[p].bytes = Total(OwnBytes, Gathered(p) \cup U)
         /\ scan'.record[p].dirs = Cardinality(Gathered(p) \cup U)
    BY <1>3, <2>4, <2>9, <2>10, <2>11 DEF RecordIsTrue
  <2>13. scan'.record[p].found \ Lane = {n \in (Artifact \cap Seen(p)') \ Lane : Nominable(n)'}
    <3>1. scan'.record[p].found \ Lane
            = {n \in (Artifact \cap Seen(p)) \ Lane : Nominable(n)} \cup (FreshFound(d) \ Lane)
      BY <1>3, <2>4, <2>11 DEF RecordIsTrue
    <3>2. FreshFound(d) \ Lane = {n \in (Artifact \cap (Under(d) \ {d})) \ Lane : Nominable(n)}
      BY DEF FreshFound
    <3> QED BY <1>6, <2>5, <3>1, <3>2
  <2>14. /\ Total(OwnFiles, Gathered(p))' = Total(OwnFiles, Gathered(p) \cup U)
         /\ Total(OwnBytes, Gathered(p))' = Total(OwnBytes, Gathered(p) \cup U)
    BY <1>5, <2>5
  <2> QED BY <2>5, <2>12, <2>13, <2>14 DEF RecordIsTrue
<1>9. \A c \in Dir : Quiet(c)' => RecordIsTrue(c)'
  BY <1>4, <1>7, <1>8
<1> QED BY <1>4, <1>9 DEF Truth

(* What is stored has everything under it rolled up.                           *)
LEMMA StoreKeepsTruth ==
    ASSUME ScanTypes, Shape, Truth, EntriesAreTrue, Store
    PROVE  Truth' /\ EntriesAreTrue'
<1>1. /\ scan.pc = "rollup" /\ ToRollUp \subseteq {scan.root} /\ UNCHANGED <<size, room, moved>>
      /\ WalkShape /\ RecordShape /\ RollShape
      /\ \A d \in Dir : Quiet(d) => RecordIsTrue(d)
  BY DEF Store, tree, Shape, Truth, Active
<1>2. scan'.stage = scan.stage /\ scan'.rolled = scan.rolled /\ scan'.record = scan.record
  BY StoreEffect
<1>3. \/ UNCHANGED <<cache, stale>>
      \/ /\ cache' = [d \in Dir |-> IF d \in Listed THEN scan.record[d] ELSE cache[d]]
         /\ stale' = {d \in Dir : IF d \in Listed
                                   THEN (moved \cup (Hits \cap stale)) \cap Under(d) # {}
                                   ELSE d \in stale}
  BY DEF Store
<1>4. Hits \cap stale' = Hits \cap stale /\ Hits' = Hits
  BY <1>2, <1>3 DEF Hits, Listed, ScanTypes, TreeTypes
<1>5. \A d \in Dir : Quiet(d)' = Quiet(d)
  BY <1>1, <1>4 DEF Quiet, Under
<1>6. ASSUME NEW d \in Dir, Quiet(d) PROVE RecordIsTrue(d)'
  <2>1. RecordIsTrue(d)
    BY <1>1, <1>6
  <2>2. Gathered(d)' = Gathered(d) /\ Seen(d)' = Seen(d) /\ \A n : Nominable(n)' = Nominable(n)
    BY <1>1, <1>2 DEF Gathered, Seen, Nominable
  <2>3. /\ Total(OwnFiles, Gathered(d))' = Total(OwnFiles, Gathered(d))
        /\ Total(OwnBytes, Gathered(d))' = Total(OwnBytes, Gathered(d))
    BY <1>1, <2>2 DEF OwnFiles, OwnBytes, FilesOf, BytesOf, LinkOf, Total
  <2>4. {n \in (Artifact \cap Seen(d)) \ Lane : Nominable(n)}' = {n \in (Artifact \cap Seen(d)) \ Lane : Nominable(n)}
    BY <2>2
  <2> QED BY <1>2, <2>1, <2>2, <2>3, <2>4 DEF RecordIsTrue
<1>7. ASSUME NEW d \in Listed, Quiet(d) PROVE Faithful(scan.record[d], d)
  <2>1. d \in Dir /\ d \in Walked
    BY DEF Listed, Walked
  <2>2. ASSUME NEW c \in Children(d) \cap Walked, c \notin scan.rolled PROVE FALSE
    <3>1. c = scan.root /\ d \in Above[c] /\ c \in Dir
      BY <1>1, <2>1, <2>2, ChildrenTyped DEF ToRollUp, Walked, Listed, Hits
    <3>2. d \in scan.rolled \/ d = scan.root
      BY <1>1 DEF ToRollUp
    <3>3. c # d
      BY <2>1, ChildrenTyped
    <3> QED BY <1>1, <2>2, <3>1, <3>2, <3>3 DEF RollShape
  <2> QED BY <1>1, <1>7, <2>1, <2>2, WholeRecordIsFaithful DEF Active
<1>8. CASE UNCHANGED <<cache, stale>>
  <2>1. EntriesAreTrue'
    BY <1>1, <1>8, EntriesOfTheSameTree
  <2> QED BY <1>5, <1>6, <2>1 DEF Truth
<1>9. CASE /\ cache' = [d \in Dir |-> IF d \in Listed THEN scan.record[d] ELSE cache[d]]
           /\ stale' = {d \in Dir : IF d \in Listed
                                   THEN (moved \cup (Hits \cap stale)) \cap Under(d) # {}
                                   ELSE d \in stale}
  <2>1. ASSUME NEW d \in Dir, cache'[d].held, d \notin stale'
        PROVE  \E e : cache'[d] = e /\ Faithful(e, d)'
    <3>1. \A e : Faithful(e, d) => Faithful(e, d)'
      BY <1>1, TruthIsStable
    <3>2. CASE d \in Listed
      BY <1>7, <1>9, <2>1, <3>1, <3>2 DEF Quiet
    <3>3. CASE d \notin Listed
      BY <1>9, <2>1, <3>1, <3>3, EntriesSaid
    <3> QED BY <3>2, <3>3
  <2>2. EntriesAreTrue'
    BY <2>1 DEF EntriesAreTrue, Faithful
  <2> QED BY <1>5, <1>6, <2>2 DEF Truth
<1> QED BY <1>3, <1>8, <1>9

(* The truth of records and entries is an invariant.                           *)
LEMMA TruthHolds ==
    /\ ScanInit => Truth /\ EntriesAreTrue
    /\ ScanTypes /\ Shape /\ Exact /\ Truth /\ EntriesAreTrue /\ [ScanNext]_scanVars
          => Truth' /\ EntriesAreTrue'
<1>1. ScanInit => Truth /\ EntriesAreTrue
  BY DEF ScanInit, Truth, Active, NoScan, EntriesAreTrue, NoEntry
<1>2. ASSUME ScanTypes, Shape, Exact, Truth, EntriesAreTrue, [ScanNext]_scanVars
      PROVE  Truth' /\ EntriesAreTrue'
  <2> USE <1>2
  <2>1. ASSUME UNCHANGED <<size, room, cache, moved, stale>>, Active' => Active,
               scan'.stage = scan.stage, scan'.record = scan.record, scan'.rolled = scan.rolled
        PROVE  Truth' /\ EntriesAreTrue'
    <3>1. EntriesAreTrue'
      BY <2>1, EntriesOfTheSameTree
    <3>2. ASSUME Active, NEW d \in Dir, Quiet(d)' PROVE RecordIsTrue(d)'
      <4>1. Quiet(d)
        BY <2>1, <3>2 DEF Quiet, Hits, Under
      <4>2. RecordIsTrue(d)
        BY <3>2, <4>1 DEF Truth
      <4>3. Gathered(d)' = Gathered(d) /\ Seen(d)' = Seen(d) /\ \A n : Nominable(n)' = Nominable(n)
        BY <2>1 DEF Gathered, Seen, Nominable
      <4>4. /\ Total(OwnFiles, Gathered(d))' = Total(OwnFiles, Gathered(d))
            /\ Total(OwnBytes, Gathered(d))' = Total(OwnBytes, Gathered(d))
        BY <2>1, <4>3 DEF OwnFiles, OwnBytes, FilesOf, BytesOf, LinkOf, Total
      <4>5. {n \in (Artifact \cap Seen(d)) \ Lane : Nominable(n)}' = {n \in (Artifact \cap Seen(d)) \ Lane : Nominable(n)}
        BY <4>3
      <4> QED BY <2>1, <4>2, <4>3, <4>4, <4>5 DEF RecordIsTrue
    <3> QED BY <2>1, <3>1, <3>2 DEF Truth
  <2>2. ASSUME NEW root \in Root, NEW hours \in {0, Window}, Begin(root, hours)
        PROVE  Truth' /\ EntriesAreTrue'
    <3>1. scan'.stage = [d \in Dir |-> IF d = root THEN "entered" ELSE "unseen"]
      BY <2>2, BeginEffect
    <3>2. Truth'
      BY <3>1 DEF Truth, RecordIsTrue
    <3>3. /\ UNCHANGED <<size, room, stale>> /\ cache' \in {cache, [d \in Dir |-> NoEntry]}
          /\ ~NoEntry.held
      BY <2>2 DEF Begin, tree, NoEntry
    <3>4. \A d \in Dir : cache'[d].held => cache'[d] = cache[d]
      BY <3>3
    <3> QED BY <3>2, <3>3, <3>4, EntriesOfTheSameTree
  <2>3. CASE Finish
    BY <2>1, <2>3, FinishEffect DEF Finish, Walks, tree, Active
  <2>4. CASE Fence \/ MergeGlobalCaches \/ Size \/ End \/ Kill
    <3>1. ~Active' /\ UNCHANGED <<size, room, cache, stale>>
      BY <2>4, RestIsNotActive
    <3> QED BY <3>1, EntriesOfTheSameTree DEF Truth
  <2>5. CASE UNCHANGED scanVars
    BY <2>1, <2>5 DEF scanVars, tree, Active
  <2> QED BY <2>2, <2>3, <2>4, <2>5, EnvironmentKeepsTruth, WalkKeepsTruth, RollUpKeepsTruth,
             StoreKeepsTruth DEF ScanNext, Command
<1> QED BY <1>1, <1>2

------------------------------------------------------------------------------
(* The totals a scan reports. *)

(* A sum of ones counts the set.                                               *)
LEMMA TotalOfOnes ==
    ASSUME NEW f, NEW S, IsFiniteSet(S), \A x \in S : f[x] = 1
    PROVE  Total(f, S) = Cardinality(S)
<1>1. UNION {{x} \X (1 .. f[x]) : x \in S} = S \X {1}
  <2>1. 1 .. 1 = {1}
    OBVIOUS
  <2>2. UNION {{x} \X {1} : x \in S} = S \X {1}
    OBVIOUS
  <2>3. {{x} \X (1 .. f[x]) : x \in S} = {{x} \X {1} : x \in S}
    BY <2>1
  <2> QED BY <2>2, <2>3
<1>2. IsFiniteSet({1}) /\ Cardinality({1}) = 1
  BY FS_Singleton
<1>3. Cardinality(S \X {1}) = Cardinality(S) * 1 /\ Cardinality(S) \in Nat
  BY <1>2, FS_Product, FS_CardinalityType
<1> QED BY <1>1, <1>3 DEF Total

(* With a cache everything has been rolled up into the root.                   *)
LEMMA CachedTotals ==
    ASSUME ScanTypes, Shape, Counted, scan.pc = "scanned", scan.root \in Dir, scan.cached
    PROVE  LET root == scan.record[scan.root] IN
           /\ scan.files = root.files /\ scan.dirs = root.dirs
           /\ scan.bytes + Repeated = root.bytes /\ scan.nominated = root.found
<1> DEFINE r == scan.root
<1>1. /\ WalkShape /\ RecordShape /\ RollShape /\ Sums /\ ToRollUp \subseteq {r}
      /\ scan.stage \in [Dir -> {"unseen", "found", "entered", "visited", "listed", "hit"}]
  BY DEF Shape, Counted, Active, RollShape, ScanTypes, Scans
<1>2. r \in Outstanding /\ Outstanding \subseteq Dir
  BY <1>1 DEF Outstanding, RollShape
<1>3. ASSUME NEW d \in Outstanding \ {r}
      PROVE  /\ scan.record[d].files = 0 /\ scan.record[d].bytes = 0 /\ scan.record[d].dirs = 0
             /\ scan.record[d].found = {}
  <2>1. d \in Dir /\ d \notin Listed /\ d \notin Hits
    BY <1>1 DEF Outstanding, ToRollUp
  <2>2. scan.stage[d] = "unseen"
    BY <1>1, <2>1 DEF WalkShape, Listed, Hits
  <2> QED BY <1>1, <2>1, <2>2 DEF RecordShape
<1>4. \A d \in Dir : /\ FilesRecorded[d] = scan.record[d].files /\ FilesRecorded[d] \in Nat
                     /\ BytesRecorded[d] = scan.record[d].bytes /\ BytesRecorded[d] \in Nat
                     /\ DirsRecorded[d] = scan.record[d].dirs /\ DirsRecorded[d] \in Nat
  BY RecordedTyped
<1> HIDE DEF r
<1>5. \A f : f[r] \in Nat /\ (\A d \in Outstanding \ {r} : f[d] = 0) => Total(f, Outstanding) = f[r]
  <2> TAKE f
  <2> HAVE f[r] \in Nat /\ (\A d \in Outstanding \ {r} : f[d] = 0)
  <2>1. Total(f, Outstanding) = Total(f, {r})
    BY <1>2, TotalOfSupport
  <2> QED BY <2>1, TotalOfOne
<1>6. /\ Total(FilesRecorded, Outstanding) = scan.record[r].files
      /\ Total(BytesRecorded, Outstanding) = scan.record[r].bytes
      /\ Total(DirsRecorded, Outstanding) = scan.record[r].dirs
  BY <1>2, <1>3, <1>4, <1>5
<1>7. UNION {scan.record[d].found : d \in Outstanding} = scan.record[r].found
  BY <1>2, <1>3
<1> QED BY <1>1, <1>6, <1>7 DEF Sums, r

(* Without one every directory has been walked and stands for itself.          *)
LEMMA UncachedTotals ==
    ASSUME ScanTypes, Shape, Truth, Counted, scan.pc = "scanned", scan.root \in Dir, ~scan.cached,
           Quiet(scan.root)
    PROVE  /\ scan.files = FreshFiles(scan.root) /\ scan.dirs = Cardinality(Under(scan.root) \cap Dir)
           /\ scan.bytes + Repeated = FreshBytes(scan.root)
           /\ scan.nominated \ Lane = FreshFound(scan.root) \ Lane
<1> DEFINE r == scan.root
           U == Under(r) \cap Dir
<1>1. /\ WalkShape /\ RecordShape /\ Sums /\ scan.rolled = {} /\ Hits = {}
      /\ \A d \in Dir : Quiet(d) => RecordIsTrue(d)
      /\ scan.stage \in [Dir -> {"unseen", "found", "entered", "visited", "listed", "hit"}]
  BY DEF Shape, Counted, Active, RollShape, WalkShape, Truth, ScanTypes, Scans
<1>2. ASSUME NEW d \in Dir \ U
      PROVE  /\ scan.record[d].files = 0 /\ scan.record[d].bytes = 0 /\ scan.record[d].dirs = 0
             /\ scan.record[d].found = {}
  <2>1. scan.stage[d] = "unseen"
    BY <1>1, DirsLieInDirs DEF WalkShape, Under
  <2> QED BY <1>1, <2>1 DEF RecordShape
<1>3. ASSUME NEW d \in U
      PROVE  /\ scan.record[d].files = OwnFiles[d] /\ scan.record[d].bytes = OwnBytes[d]
             /\ scan.record[d].dirs = 1
             /\ scan.record[d].found \ Lane = {n \in (Artifact \cap Children(d)) \ Lane : Nominable(n)}
  <2>1. d \in Listed
    BY <1>1, WhatIsNotReplayedIsListed DEF Under
  <2>2. Under(d) \subseteq Under(r)
    BY AboveIsTransitive DEF Under
  <2>3. RecordIsTrue(d) /\ scan.stage[d] = "listed"
    BY <1>1, <2>1, <2>2 DEF Quiet, Listed
  <2>4. Gathered(d) = {d} /\ Seen(d) = Children(d)
    BY <1>1 DEF Gathered, Seen
  <2>5. Total(OwnFiles, {d}) = OwnFiles[d] /\ Total(OwnBytes, {d}) = OwnBytes[d] /\ Cardinality({d}) = 1
    BY OwnTyped, TotalOfOne, FS_Singleton
  <2> QED BY <2>3, <2>4, <2>5 DEF RecordIsTrue
<1>4. \A d \in Dir : /\ FilesRecorded[d] = scan.record[d].files
                     /\ BytesRecorded[d] = scan.record[d].bytes
                     /\ DirsRecorded[d] = scan.record[d].dirs
  BY RecordedTyped
<1>5. Outstanding = Dir /\ U \subseteq Dir /\ IsFiniteSet(U)
  BY <1>1, DirsAreFinite DEF Outstanding
<1>6. scan.nominated \ Lane = FreshFound(r) \ Lane
  <2>1. scan.nominated = UNION {scan.record[d].found : d \in Dir}
    BY <1>1, <1>5 DEF Sums
  <2>2. \A n : n \in scan.nominated \ Lane <=> \E d \in U : n \in (Artifact \cap Children(d)) \ Lane /\ Nominable(n)
    BY <1>2, <1>3, <2>1
  <2>3. \A n \in Artifact : (\E d \in U : n \in Children(d)) <=> n \in Under(r) \ {r}
    <3> TAKE n \in Artifact
    <3>1. n \in Node
      BY ScanAssumption
    <3>2. ASSUME NEW d \in U, n \in Children(d) PROVE n \in Under(r) \ {r}
      <4>1. Under(n) \subseteq Under(d) /\ n \in Under(n) /\ d \notin Under(n) /\ Under(d) \subseteq Under(r)
        BY <3>2, ChildrenTyped, AboveIsTransitive DEF Under
      <4>2. n # r
        BY <4>1
      <4> QED BY <4>1, <4>2
    <3>3. ASSUME n \in Under(r) \ {r} PROVE \E d \in U : n \in Children(d)
      <4>1. Parent[n] # Top /\ r \in Above[Parent[n]]
        BY <3>1, <3>3, AboveParent DEF Under
      <4>2. Parent[n] \in Dir /\ Parent[n] \in Node
        BY <3>1, <4>1, ParentTyped
      <4> QED BY <3>1, <4>1, <4>2 DEF Under, Children
    <3> QED BY <3>2, <3>3
  <2> HIDE DEF U
  <2> QED BY <2>2, <2>3 DEF FreshFound
<1> HIDE DEF r, U
<1>7. \A f, g : (\A d \in U : f[d] = g[d]) /\ (\A d \in Dir \ U : f[d] = 0) => Total(f, Dir) = Total(g, U)
  <2> TAKE f, g
  <2> HAVE (\A d \in U : f[d] = g[d]) /\ (\A d \in Dir \ U : f[d] = 0)
  <2>1. Total(f, Dir) = Total(f, U)
    BY <1>5, TotalOfSupport
  <2> QED BY <2>1, TotalOfSame
<1>8. /\ Total(FilesRecorded, Dir) = Total(OwnFiles, U) /\ Total(BytesRecorded, Dir) = Total(OwnBytes, U)
  BY <1>2, <1>3, <1>4, <1>5, <1>7
<1>9. Total(DirsRecorded, Dir) = Cardinality(U)
  <2>1. Total(DirsRecorded, Dir) = Total(DirsRecorded, U)
    BY <1>2, <1>4, <1>5, TotalOfSupport
  <2>2. \A d \in U : DirsRecorded[d] = 1
    BY <1>3, <1>4, <1>5
  <2> QED BY <1>5, <2>1, <2>2, TotalOfOnes
<1> QED BY <1>1, <1>5, <1>6, <1>8, <1>9 DEF Sums, FreshFiles, FreshBytes, r, U

(* What the cache keeps and replays, and the totals a scan reports, are those  *)
(* of the tree, unless it was overtaken or changed meanwhile (fs.rs,           *)
(* scan_cache.rs).                                                             *)
THEOREM TheCacheIsTrue == ScanSpec => []CacheIsTrue
<1>1. ASSUME ScanTypes, Shape, Truth, Counted, EntriesAreTrue PROVE TotalsAgree
  <2> SUFFICES ASSUME scan.pc = "scanned", scan.root \in Dir
               PROVE  /\ scan.cached =>
                            /\ scan.files = scan.record[scan.root].files /\ scan.dirs = scan.record[scan.root].dirs
                            /\ scan.bytes + Repeated = scan.record[scan.root].bytes
                            /\ scan.nominated = scan.record[scan.root].found
                      /\ Quiet(scan.root) =>
                            /\ scan.files = FreshFiles(scan.root)
                            /\ scan.dirs = Cardinality(Under(scan.root) \cap Dir)
                            /\ scan.bytes + Repeated = FreshBytes(scan.root)
                            /\ scan.nominated \ Lane = FreshFound(scan.root) \ Lane
    BY DEF TotalsAgree, Quiet
  <2>1. CASE scan.cached
    <3>1. /\ scan.files = scan.record[scan.root].files /\ scan.dirs = scan.record[scan.root].dirs
          /\ scan.bytes + Repeated = scan.record[scan.root].bytes
          /\ scan.nominated = scan.record[scan.root].found
      BY <1>1, <2>1, CachedTotals
    <3>2. scan.root \in Walked /\ Children(scan.root) \cap Walked \subseteq scan.rolled
      <4>1. WalkShape /\ ToRollUp \subseteq {scan.root}
        BY <1>1, <2>1 DEF Shape, Active, RollShape
      <4>2. scan.root \notin Children(scan.root)
        BY ChildrenTyped
      <4> QED BY <4>1, <4>2 DEF WalkShape, Walked, Listed, Hits, ToRollUp
    <3>3. Quiet(scan.root) => Faithful(scan.record[scan.root], scan.root)
      BY <1>1, <3>2, WholeRecordIsFaithful DEF Active
    <3> QED BY <3>1, <3>3 DEF Faithful
  <2>2. CASE ~scan.cached
    BY <1>1, <2>2, UncachedTotals
  <2> QED BY <2>1, <2>2
<1>2. ScanTypes /\ Shape /\ Truth /\ Counted /\ EntriesAreTrue => CacheIsTrue
  BY <1>1 DEF CacheIsTrue
<1> QED BY <1>2, ScanTypesHold, ShapeHolds, ExactHolds, TruthHolds, CountedHolds, PTL DEF ScanSpec
=============================================================================

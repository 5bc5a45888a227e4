----------------------------- MODULE ToolChecks -----------------------------
(***************************************************************************)
(* Bounded checks of the answers of the MCP tools: plans of up to three    *)
(* items, one of which may lie inside another, over every combination of   *)
(* kinds, fences and reversibilities of two of them.                       *)
(***************************************************************************)
LOCAL INSTANCE Integers
LOCAL INSTANCE FiniteSets
LOCAL INSTANCE SequencesExt

CONSTANT Absent
LOCAL Tools == INSTANCE McpTools

LOCAL Item(path, kind, bytes, rev, fenced, dot) ==
    [path |-> path, kind |-> kind, bytes |-> bytes, reversibility |-> rev, fenced |-> fenced,
     dotfile |-> dot]
LOCAL Paths == {<<"a">>, <<"a", "t">>, <<"b">>}
LOCAL Items ==
    {Item(p, k, n, "reversible", FALSE, FALSE) : p \in Paths, k \in {"dir", "github"}, n \in 0..2}
LOCAL Judged ==
    {Item(<<"a">>, "dir", 1, r, f, d) :
        r \in {"reversible", "compensatable", "irreversible", "unknown"}, f \in BOOLEAN, d \in BOOLEAN}
LOCAL Distinct(s) == \A i, j \in DOMAIN s : s[i].path = s[j].path => i = j
LOCAL Plan(v, s) == [version |-> v, items |-> s]
LOCAL Plans == {Plan(1, s) : s \in {t \in UNION {[1..n -> Items] : n \in 0..2} : Distinct(t)}}
LOCAL JudgedPlans == {Plan(v, s) : v \in {1, 2}, s \in UNION {[1..n -> Judged] : n \in 0..2}}

\* The dry run foresees every item as the real run treats it, but for an item
\* that is there and lies inside another: the preview deletes it and counts its
\* bytes again, the run leaves it to the outer one.
LOCAL RunOutcome(plan, i, present) ==
    LET item == plan.items[i] IN
    IF i \notin Tools!partition_nested_items(plan) THEN Tools!Outcome("SkippedMissing", 0)
    ELSE LET known == Tools!classify_nonmutating_outcome(item, item.path \in present)
         IN  IF known = Absent THEN Tools!Outcome("Deleted", item.bytes) ELSE known
ASSUME DryRunForesees ==
    \A plan \in Plans, present \in SUBSET Paths :
        LET preview == Tools!delete_dry_run(plan, plan, present) IN
        /\ preview.total_items = Len(plan.items)
        /\ \A i \in DOMAIN plan.items :
              preview.preview_items[i] = RunOutcome(plan, i, present)
                <=> \/ i \in Tools!partition_nested_items(plan)
                    \/ plan.items[i].kind = "dir" /\ plan.items[i].path \notin present

\* A plan that is not admitted has no preview, whatever the file has become since.
ASSUME NothingUnadmittedIsPreviewed ==
    \A plan \in JudgedPlans :
        (Tools!delete_dry_run(plan, Plan(1, <<>>), Paths) = Absent)
            <=> plan.version = 2 \/ \E i \in DOMAIN plan.items : plan.items[i].fenced

\* A plan called valid is one the deletion admits, if its version is known; one
\* it admits is called invalid only for an irreversible item.
ASSUME ValidIsAdmitted ==
    \A plan \in JudgedPlans, homeKnown \in BOOLEAN :
        LET verdict == Tools!plan_validate(plan, homeKnown) IN
        /\ verdict.valid /\ plan.version = 1 => Tools!admit(plan)
        /\ Tools!admit(plan) /\ ~verdict.valid =>
              \E i \in DOMAIN plan.items : plan.items[i].reversibility = "irreversible"
        /\ verdict.os_directory_protection <=> \A i \in DOMAIN plan.items : ~plan.items[i].fenced
        /\ ~homeKnown => verdict.no_dotfiles_in_home /\ verdict.warnings # {}

\* Whatever it is cut to, an inspection shows the largest items, the earlier of
\* equals first, and the totals of all.
ASSUME LargestAreShown ==
    \A plan \in Plans, n \in -1..2 :
        LET seen == Tools!plan_inspect(plan, n) IN
        /\ Len(seen.top) = (IF n < 0 THEN 0 ELSE Tools!Least(n, Len(plan.items)))
        /\ seen.total_bytes = Tools!plan_inspect(plan, 0).total_bytes
        /\ \A i, j \in DOMAIN plan.items : \A k \in DOMAIN seen.top :
              /\ seen.top[k] = plan.items[j]
              /\ \/ plan.items[i].bytes > plan.items[j].bytes
                 \/ plan.items[i].bytes = plan.items[j].bytes /\ i < j
              => \E above \in 1..(k - 1) : seen.top[above] = plan.items[i]

\* The receipt's total is of all results, though only the first are shown.
ASSUME TotalsAreUncut ==
    \A results \in [1..2 -> {Tools!Outcome("Deleted", b) : b \in 0..2}], n \in -1..3 :
        LET parsed == Tools!receipt_parse(results, n) IN
        /\ parsed.total_bytes_freed = results[1].bytes + results[2].bytes
        /\ \A k \in DOMAIN parsed.results : parsed.results[k] = results[k]

\* A call the guidance names is accepted, but for the rebuild of a plan that
\* failed: that one needs a new audit, which needs clear_artifacts.  (No call
\* ends in AUDIT_NEEDED.)
ASSUME GuidanceIsAccepted ==
    {<<s, c>> \in Tools!WorkflowState \X DOMAIN Tools!Asked :
        c \in Tools!next_step_guidance(s) /\ ~Tools!Accepted(c, s)}
      = {<<"PLAN_VALIDATION_FAILED", "plan_build">>, <<"AUDIT_NEEDED", "audit_scan">>}

\* From every state a failure leads back to an audit, and nothing but the work
\* itself leads to a plan, an approval or a deletion.
ASSUME WorkIsNotSkipped ==
    /\ Cardinality(Tools!WorkflowState) = 18
    /\ \A s \in Tools!WorkflowState :
          Tools!can_transition_to(s, "AUDIT_FAILED") /\ Tools!can_transition_to("AUDIT_FAILED", "AUDIT_NEEDED")
    /\ \A s \in Tools!WorkflowState : Tools!can_transition_to(s, "PLAN_APPROVED") => s = "PLAN_READY"
    /\ \A s \in Tools!WorkflowState :
          Tools!can_transition_to(s, "DELETE_COMPLETE") => s = "DELETE_IN_PROGRESS"
    /\ \A s \in Tools!WorkflowState : ~Tools!can_transition_to(s, "UNSTARTED")

\* A stale program on PATH is never run while one lies beside the server, and a
\* directory above is looked into in a test layout only.
ASSUME NearestProgramRuns ==
    \A override \in {Absent, "pinned"}, beside \in {Absent, "beside"}, above \in {Absent, "above"},
       onPath \in {Absent, "stale"}, inDeps \in BOOLEAN :
        LET run == Tools!resolve_oclnr_path(override, beside, inDeps, above, onPath) IN
        /\ run = "stale" => override = Absent /\ beside = Absent /\ (inDeps => above = Absent)
        /\ run = "above" => inDeps /\ beside = Absent
        /\ run = Absent => onPath = Absent

\* Shares stay within 0 and 100 even if more is free than the disk holds, and a
\* command ended by a signal is never a success.
ASSUME BoundariesHold ==
    /\ \A total, available \in 0..5 : Tools!disk_percent_used(total, available) \in 0..100
    /\ \A at \in 0..2, code \in 0..1, signal \in BOOLEAN :
          LET answer == Tools!run_command_with_timeout([at |-> at, code |-> code, signal |-> signal], 1) IN
          /\ (answer = Absent) <=> at = 2
          /\ answer # Absent /\ signal => answer.status # 0
    /\ \A confirm \in BOOLEAN, receipt \in {Absent, "whole"} :
          Tools!plan_rollback(confirm, receipt, <<"s">>) # Absent => confirm /\ receipt = "whole"

\* The legacy lines that are neither objects nor events are dropped, the order of
\* the others is kept; a document is never taken apart.
ASSUME LinesAreSorted ==
    \A lines \in [1..3 -> {"object", "event", "noise"}] :
        LET log == Tools!parse_jsonocel_output([document |-> FALSE, lines |-> lines]) IN
        Len(log.objects) + Len(log.events) = Cardinality({i \in 1..3 : lines[i] # "noise"})
=============================================================================

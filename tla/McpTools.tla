------------------------------ MODULE McpTools ------------------------------
(***************************************************************************)
(* What the MCP tools that change nothing answer (mcp/server.rs): the      *)
(* inspection, validation and dry run of a plan, the parsing of receipts,  *)
(* the guidance and the table of transitions (mcp/state.rs), and how the   *)
(* server finds and reads the program it runs (mcp/subprocess.rs).         *)
(*                                                                         *)
(* A plan is its version and a sequence of items: the path (a sequence of  *)
(* names), the kind, the planned bytes, the reversibility, and whether the *)
(* path is fenced (is_macos_os_dir) or names a dotfile of the home         *)
(* directory.                                                              *)
(***************************************************************************)
EXTENDS Integers, FiniteSets, SequencesExt

CONSTANT Absent     \* no such file, directory or answer

SumOf(s, Op(_)) == FoldLeft(LAMBDA sum, x : sum + Op(x), 0, s)
Least(a, b) == IF a < b THEN a ELSE b

\* The largest first, equals in the order of the plan, cut to n; n below 0 is 0.
\* A document that is no plan is shown as an empty one.
plan_inspect(plan, n) ==
    LET items == IF plan = Absent THEN <<>> ELSE plan.items
        ranked == SortSeq([i \in DOMAIN items |-> [at |-> i, item |-> items[i]]],
                          LAMBDA a, b : \/ a.item.bytes > b.item.bytes
                                        \/ a.item.bytes = b.item.bytes /\ a.at < b.at)
    IN  [total_items |-> Len(items), total_bytes |-> SumOf(items, LAMBDA i : i.bytes),
         top |-> SubSeq([k \in DOMAIN ranked |-> ranked[k].item], 1,
                        IF n < 0 THEN 0 ELSE Least(n, Len(ranked)))]

Issue(severity, kind, i) == [severity |-> severity, kind |-> kind, item |-> i]
compute_safety_issues(plan, homeKnown) ==
    LET Of(test(_), severity, kind) ==
            {Issue(severity, kind, i) : i \in {j \in DOMAIN plan.items : test(plan.items[j])}}
    IN  Of(LAMBDA x : x.fenced, "critical", "protected_os_path")
        \cup Of(LAMBDA x : homeKnown /\ x.dotfile, "warning", "dotfile_in_home")
        \cup Of(LAMBDA x : x.reversibility = "irreversible", "critical", "irreversible_item")
        \cup Of(LAMBDA x : x.reversibility = "unknown", "info", "unknown_reversibility")
        \cup (IF homeKnown THEN {} ELSE {Issue("warning", "home_directory_unknown", 0)})

plan_validate(plan, homeKnown) ==
    LET issues == compute_safety_issues(plan, homeKnown)
        critical == {i \in issues : i.severity = "critical"}
        Kind(k) == \E i \in issues : i.kind = k
    IN  [valid |-> critical = {}, issues |-> critical, warnings |-> issues \ critical,
         os_directory_protection |-> ~Kind("protected_os_path"),
         no_dotfiles_in_home |-> ~Kind("dotfile_in_home"),
         max_reclaim_respected |-> TRUE, audit_integrity_ok |-> TRUE]

\* DeletionPlanAdjudicator: what delete execute, dry or not, admits.
admit(plan) == plan.version = 1 /\ \A i \in DOMAIN plan.items : ~plan.items[i].fenced

Outcome(status, bytes) == [status |-> status, bytes |-> bytes]
classify_nonmutating_outcome(item, exists) ==
    IF item.kind = "github" THEN Outcome("Failed", 0)
    ELSE IF ~exists THEN Outcome("SkippedMissing", 0) ELSE Absent

\* The dry run of the command only admits and prints; the preview is made of the
\* plan file as it is read after it.
delete_dry_run(admitted, plan, present) ==
    LET preview == [i \in DOMAIN plan.items |->
            LET item == plan.items[i]
                known == classify_nonmutating_outcome(item, item.path \in present)
            IN  IF known = Absent THEN Outcome("Deleted", item.bytes) ELSE known]
        With(status) == {i \in DOMAIN preview : preview[i].status = status}
    IN  IF ~admit(admitted) THEN Absent
        ELSE [total_items |-> Len(plan.items), total_bytes |-> SumOf(plan.items, LAMBDA i : i.bytes),
              items_by_status |-> [s \in {preview[i].status : i \in DOMAIN preview} |->
                                     Cardinality(With(s))],
              preview_items |-> preview]

\* What the real run starts from: an item inside another is not deleted itself.
partition_nested_items(plan) ==
    {i \in DOMAIN plan.items : ~\E j \in DOMAIN plan.items :
        IsStrictPrefix(plan.items[j].path, plan.items[i].path)}

receipt_parse(results, n) ==
    [total_items |-> Len(results), total_bytes_freed |-> SumOf(results, LAMBDA r : r.bytes),
     results |-> SubSeq(results, 1, IF n < 0 THEN 0 ELSE Least(n, Len(results)))]

\* A rollback restores nothing: it lists the snapshots, for a receipt that parses.
plan_rollback(confirm, receipt, snapshots) ==
    IF ~confirm \/ receipt = Absent THEN Absent ELSE [restored |-> FALSE, available |-> snapshots]

\* Shares of the disk, rounded to the nearest percent.
disk_percent_used(total, available) ==
    LET used == IF available > total THEN 0 ELSE total - available
    IN  IF total = 0 THEN 0 ELSE (200 * used + total) \div (2 * total)

-----------------------------------------------------------------------------
(* The table of transitions, and what the guidance tells to call. *)

Chain(path) == {<<path[i], path[i + 1]>> : i \in 1..(Len(path) - 1)}
Failures == {"AUDIT_FAILED", "PLAN_VALIDATION_FAILED", "DELETE_FAILED", "CLEANUP_FAILED"}
WorkPath == <<"UNSTARTED", "AUDIT_NEEDED", "AUDIT_IN_PROGRESS", "AUDIT_COMPLETE", "PLAN_NEEDED",
              "PLAN_IN_PROGRESS", "PLAN_READY", "PLAN_APPROVED", "DELETE_NEEDED",
              "DELETE_IN_PROGRESS", "DELETE_COMPLETE", "VERIFICATION_IN_PROGRESS",
              "RECEIPT_READY", "CLEANUP_COMPLETE", "AUDIT_NEEDED">>
WorkflowState == ToSet(WorkPath) \cup Failures
Legal == Chain(WorkPath)
         \cup {<<"DELETE_FAILED", "AUDIT_NEEDED">>, <<"AUDIT_FAILED", "AUDIT_NEEDED">>,
               <<"PLAN_READY", "PLAN_IN_PROGRESS">>, <<"PLAN_VALIDATION_FAILED", "PLAN_IN_PROGRESS">>}

can_transition_to(state, next) == <<state, next>> \in Legal \/ next \in Failures

next_step_guidance(state) ==
    CASE state \in {"UNSTARTED", "AUDIT_NEEDED", "AUDIT_FAILED"} -> {"audit_scan"}
      [] state \in {"AUDIT_COMPLETE", "PLAN_VALIDATION_FAILED"} -> {"plan_build"}
      [] state = "PLAN_READY" -> {"plan_validate", "plan_approve"}
      [] state = "PLAN_APPROVED" -> {"delete_dry_run", "delete_execute"}
      [] state = "DELETE_COMPLETE" -> {"receipt_verify"}
      [] state = "CLEANUP_COMPLETE" -> {"clear_artifacts"}
      [] state = "CLEANUP_FAILED" -> {"plan_rollback"}
      [] state = "DELETE_FAILED" -> {}
      [] OTHER -> {"query_workflow_state"}

\* The transitions the handlers ask for, in order, the last being where the call ends.
Asked ==
    [audit_scan |-> <<"AUDIT_NEEDED", "AUDIT_IN_PROGRESS", "AUDIT_COMPLETE">>,
     plan_build |-> <<"PLAN_NEEDED", "PLAN_IN_PROGRESS", "PLAN_READY">>]
Accepted(call, state) == LET path == <<state>> \o Asked[call] IN
    \A i \in 1..(Len(path) - 1) : can_transition_to(path[i], path[i + 1])

-----------------------------------------------------------------------------
(* The program the server runs, and what it prints. *)

\* The first that is a file of: the one named by OCLNR_BIN, the one beside the
\* server, in a test layout the one above it, whatever PATH finds.
resolve_oclnr_path(override, beside, inDeps, above, onPath) ==
    LET choices == SelectSeq(<<override, beside, IF inDeps THEN above ELSE Absent>>,
                             LAMBDA p : p # Absent)
    IN  IF choices = <<>> THEN onPath ELSE Head(choices)

\* One document with objects is taken as it is; else the lines that are objects
\* or events by their own field, the rest being dropped.
parse_jsonocel_output(output) ==
    IF output.document THEN output.log
    ELSE [objects |-> SelectSeq(output.lines, LAMBDA l : l = "object"),
          events |-> SelectSeq(output.lines, LAMBDA l : l = "event")]

\* A child that exits before the deadline answers with its code, -1 if a signal
\* ended it; one that does not is killed and awaited.
run_command_with_timeout(exit, deadline) ==
    IF exit.at > deadline THEN Absent
    ELSE [status |-> IF exit.signal THEN -1 ELSE exit.code]
=============================================================================

------------------------------ MODULE OcelLog ------------------------------
(***************************************************************************)
(* The OCEL 2.0 event logs the program writes as evidence (disk audits,    *)
(* tool roots, snapshots, Time Machine exclusions, autoclean runs), the    *)
(* adjudicator `ocel validate` and `doctor` read them back with, the       *)
(* summary, and what the MCP server takes out of an audit log.             *)
(*                                                                         *)
(* A log is a schema (for each event and object type, the declared type of *)
(* each attribute) with a sequence of events and one of objects.  An item  *)
(* has an id, a type, attributes, and the ids of the objects it relates    *)
(* to.  A value is its variant and what it stands for.                     *)
(***************************************************************************)
EXTENDS Integers, FiniteSets, SequencesExt

CONSTANTS Safe(_),       \* a path with separators, dots, colons and blanks flattened
          Within(_, _),  \* Within(p, r): path p lies below root r
          None           \* an optional value that is absent

-----------------------------------------------------------------------------
(* Values. *)

Value(variant, x) == [is |-> variant, of |-> x]
\* Arrays are kept as their JSON text; an absent value is null.
value_to_ocel(json, x) ==
  CASE json \in {"string", "instant"} -> Value("String", x)
    [] json = "array" -> Value("String", "its text")
    [] json = "integer" -> Value("Integer", x)
    [] json = "float" -> Value("Float", x)
    [] json = "null" -> Value("Null", None)
Text(x) == value_to_ocel("string", x)
Number(n) == value_to_ocel("integer", n)
Optional(json, x) == value_to_ocel(IF x = None THEN "null" ELSE json, x)
Instant == value_to_ocel("instant", "created")

\* Written to a file and read again, an RFC 3339 text has become an instant.
Reread(v) == IF v.is = "String" /\ v.of = Instant.of THEN Value("Time", "created") ELSE v

val_matches_type(v, declared) ==
  CASE declared = "string" -> v.is = "String"
    [] declared = "integer" -> v.is = "Integer"
    [] declared = "float" -> v.is \in {"Float", "Integer"}
    [] declared = "array" -> v.is = "String"
    [] OTHER -> TRUE

Declare(declared, names) == [a \in names |-> declared]
Texts(names) == Declare("string", names)
Counts(names) == Declare("integer", names)

-----------------------------------------------------------------------------
(* The parts of the builders. *)

Element(id, type, attrs, rels) == [id |-> id, type |-> type, attrs |-> attrs, rels |-> rels]
stable_object_id(prefix, path) == <<prefix, Safe(path)>>
AuditId == <<"audit", "now">>
EventId(name, n) == <<"event", name, n>>
Each(s, Op(_, _)) == [i \in DOMAIN s |-> Op(s[i], i)]

AuditStarted == Element(EventId("audit-started", 0), "disk_audit_started",
                     [tool |-> Text("tool")], <<AuditId>>)

\* -- Tool roots -------------------------------------------------------------
ToolRootTimes == {"last_accessed_unix", "last_modified_unix", "metadata_changed_unix",
                  "newest_descendant_modified_unix"}

ToolRootSchema ==
  [disk_audit |-> [created_at |-> "time"],
   tool_root |-> Texts({"path", "category", "human", "newest_descendant_path",
                        "recommendation", "rationale"})
                 @@ Counts({"bytes", "files", "dirs"} \cup ToolRootTimes)]
ToolRootEventSchema ==
  [disk_audit_started |-> [tool |-> "string"],
   tool_root_observed |-> Texts({"path", "category", "recommendation", "rationale"})
                          @@ Counts({"bytes", "files", "dirs"}),
   tool_root_review_proposed |-> Texts({"path", "recommendation", "rationale"})]

ToolRootObject(root, i) ==
  Element(stable_object_id("tool-root", root.path), "tool_root",
       [a \in {"category", "human", "recommendation", "rationale"} |-> Text(a)]
       @@ [path |-> Text(root.path), newest_descendant_path |-> Optional("string", root.time)]
       @@ [a \in {"bytes", "files", "dirs"} |-> Number(root.bytes)]
       @@ [a \in ToolRootTimes |-> Optional("integer", root.time)],
       <<AuditId>>)

ToolRootObserved(root, i) ==
  Element(EventId("tool-root-observed", i), "tool_root_observed",
       [a \in {"category", "recommendation", "rationale"} |-> Text(a)]
       @@ [path |-> Text(root.path)]
       @@ [a \in {"bytes", "files", "dirs"} |-> Number(root.bytes)],
       <<AuditId, stable_object_id("tool-root", root.path)>>)

ToolRootReview(root, i) ==
  Element(EventId("tool-root-review-proposed", i), "tool_root_review_proposed",
       [path |-> Text(root.path), recommendation |-> Text("r"), rationale |-> Text("r")],
       <<AuditId, stable_object_id("tool-root", root.path)>>)

build_tool_roots_ocel(roots) ==
  LET ofRoot(r, i) == <<ToolRootObserved(r, i)>>
                      \o (IF r.review THEN <<ToolRootReview(r, i)>> ELSE <<>>)
  IN  [otypes |-> ToolRootSchema, etypes |-> ToolRootEventSchema,
       objects |-> <<Element(AuditId, "disk_audit", [created_at |-> Instant], <<>>)>>
                   \o Each(roots, ToolRootObject),
       events |-> <<AuditStarted>> \o FlattenSeq(Each(roots, ofRoot))]

\* -- The disk audit ---------------------------------------------------------
Seen == {"files_seen", "dirs_seen", "bytes_seen", "projects_seen", "candidates_seen",
         "pruned_dirs", "errors"}

AuditSchema ==
  [disk_audit |-> [created_at |-> "time"] @@ Counts(Seen),
   scan_root |-> Texts({"path"}),
   filesystem_object |-> Texts({"path", "kind"}),
   artifact_candidate |-> Texts({"path", "reason"}) @@ Counts({"bytes"}),
   tool_root |-> Texts({"path", "category", "human"}) @@ Counts({"bytes", "files", "dirs"})]
AuditEventSchema ==
  [disk_audit_started |-> Texts({"tool"}),
   scan_root_started |-> Texts({"path"}),
   filesystem_object_observed |-> Texts({"path", "kind"}),
   artifact_candidate_proposed |-> Texts({"path", "reason"}),
   tool_root_observed |-> Texts({"path", "category"}) @@ Counts({"bytes"})]

ScanRootObject(r, i) == Element(stable_object_id("scan-root", r), "scan_root",
                             [path |-> Text(r)], <<AuditId>>)
ScanRootStarted(r, i) == Element(EventId("scan-root-started", i), "scan_root_started",
                              [path |-> Text(r)], <<AuditId, stable_object_id("scan-root", r)>>)

\* The scan root a candidate was found under: the first that contains it.
candidate_root_rel(roots, path) ==
  LET under == SelectSeq(roots, LAMBDA r : Within(path, r))
  IN  stable_object_id("scan-root", IF under = <<>> THEN "/" ELSE Head(under))

\* A candidate is two objects; its size is there only if it was measured.
CandidateObjects(c, sizes) ==
  LET fs == stable_object_id("fs-obj", c.path)
  IN  <<Element(fs, "filesystem_object", [path |-> Text(c.path), kind |-> Text(c.kind)], <<AuditId>>),
        Element(stable_object_id("candidate", c.path), "artifact_candidate",
             [path |-> Text(c.path), reason |-> Text(c.reason)]
             @@ (IF c.path \in DOMAIN sizes THEN [bytes |-> Number(sizes[c.path])] ELSE <<>>),
             <<fs>>)>>

CandidateEvents(roots, c, i) ==
  LET fs == stable_object_id("fs-obj", c.path)
  IN  <<Element(EventId("fs-observed", i), "filesystem_object_observed",
             [path |-> Text(c.path), kind |-> Text(c.kind)], <<AuditId, fs>>),
        Element(EventId("candidate-proposed", i), "artifact_candidate_proposed",
             [path |-> Text(c.path), reason |-> Text(c.reason)],
             <<AuditId, stable_object_id("candidate", c.path), fs,
               candidate_root_rel(roots, c.path)>>)>>

\* A tool root in an audit log carries its totals only.
AuditToolRoot(root, i) ==
  Element(stable_object_id("tool-root", root.path), "tool_root",
       [path |-> Text(root.path), category |-> Text("c"), human |-> Text("h")]
       @@ [a \in {"bytes", "files", "dirs"} |-> Number(root.bytes)], <<AuditId>>)
AuditToolRootObserved(root, i) ==
  Element(EventId("tool-root-observed", i), "tool_root_observed",
       [path |-> Text(root.path), category |-> Text("c"), bytes |-> Number(root.bytes)],
       <<AuditId, stable_object_id("tool-root", root.path)>>)

build_disk_audit_ocel_with_sizes(roots, candidates, toolRoots, seen, sizes) ==
  LET objects(c, i) == CandidateObjects(c, sizes)
      events(c, i) == CandidateEvents(roots, c, i)
  IN  [otypes |-> AuditSchema, etypes |-> AuditEventSchema,
       objects |-> <<Element(AuditId, "disk_audit",
                          [created_at |-> Instant] @@ [a \in Seen |-> Number(seen)], <<>>)>>
                   \o Each(roots, ScanRootObject)
                   \o FlattenSeq(Each(candidates, objects))
                   \o Each(toolRoots, AuditToolRoot),
       events |-> <<AuditStarted>> \o Each(roots, ScanRootStarted)
                  \o FlattenSeq(Each(candidates, events))
                  \o Each(toolRoots, AuditToolRootObserved)]

\* -- Snapshots and exclusions: one object, one event ------------------------
StateSchema == [snapshot_state |-> Texts({"volume"}) @@ Counts({"snapshot_count"})
                                   @@ Declare("array", {"snapshots"})]
StateObject(snapshots) ==
  Element(<<"snapshot-state", "now">>, "snapshot_state",
       [volume |-> Text("/"), snapshot_count |-> Number(Len(snapshots)),
        snapshots |-> value_to_ocel("array", snapshots)], <<>>)
OneEvent(otypes, object, type, counts, texts) ==
  [otypes |-> otypes, objects |-> <<object>>,
   etypes |-> type :> (Counts(DOMAIN counts) @@ Texts(texts)),
   events |-> <<Element(EventId(type, 0), type,
                     [a \in DOMAIN counts |-> Number(counts[a])] @@ [a \in texts |-> Text(a)],
                     <<object.id>>)>>]

build_snapshot_audit_ocel(snapshots) ==
  OneEvent(StateSchema, StateObject(snapshots), "snapshot_state_observed",
           [snapshot_count |-> Len(snapshots)], {"volume"})
build_snapshot_thin_ocel(requested, before, after, thinned) ==
  OneEvent(StateSchema, StateObject(after), "snapshot_thin_requested",
           [requested_bytes |-> requested, snapshots_before_count |-> Len(before),
            snapshots_after_count |-> Len(after), thinned_count |-> Len(thinned)], {"volume"})
build_snapshot_delete_ocel(before, after, deleted) ==
  OneEvent(StateSchema, StateObject(after), "snapshot_delete_requested",
           [snapshots_before_count |-> Len(before), snapshots_after_count |-> Len(after),
            deleted_count |-> Len(deleted)], {"volume"})
build_exclusion_plan_ocel(candidates) ==
  LET attrs == [script_path |-> Text("script"), candidate_count |-> Number(candidates)]
  IN  OneEvent([tm_exclusion_plan |-> Texts({"script_path"}) @@ Counts({"candidate_count"})],
               Element(<<"tm-exclusion-plan", "now">>, "tm_exclusion_plan", attrs, <<>>),
               "tm_exclusion_plan_written", [candidate_count |-> candidates], {"script_path"})

\* -- One autoclean run --------------------------------------------------------
\* What the run is known by: how it ended, at which stage it failed ("" if it
\* did not), and which files it made.
Artifacts == {"deletion_plan", "delete_receipt", "snapshot_state"}
RunId == <<"autoclean-run", "run">>

RunSchema == [autoclean_run |-> Texts({"run_id", "trigger", "outcome"})
                                @@ Declare("float", {"max_reclaim_gb"}),
              deletion_plan |-> Texts({"path"}), delete_receipt |-> Texts({"path"}),
              snapshot_state |-> Texts({"receipt_path"})]
RunEventSchema ==
  [autoclean_run_started |-> Texts({"run_id", "trigger"}) @@ Declare("float", {"max_reclaim_gb"}),
   autoclean_stage_outcome |-> Texts({"stage", "status"}),
   autoclean_run_completed |-> Texts({"outcome", "stage_failed"})
                               @@ Counts({"items_approved", "planned_bytes", "deferred_items"})]

\* The objects: the run, and the files it made.
RunObjects(facts) ==
  LET made == SelectSeq(<<"deletion_plan", "delete_receipt", "snapshot_state">>,
                        LAMBDA a : a \in facts.made)
      artifact(a, i) == Element(<<a, "run">>, a,
                             [n \in {IF a = "snapshot_state" THEN "receipt_path" ELSE "path"}
                                |-> Text(a)], <<RunId>>)
  IN  <<Element(RunId, "autoclean_run",
             [run_id |-> Text("run"), trigger |-> Text("scheduled"),
              outcome |-> Text(facts.outcome), max_reclaim_gb |-> value_to_ocel("float", 1)], <<>>)>>
      \o Each(made, artifact)

\* How each stage went, told from the outcome and the files alone: approval ran
\* only in a run that completed or failed at the deletion.
StageStatus(facts, stage) ==
  LET reached ==
        CASE stage = "plan_build"     -> TRUE
          [] stage = "plan_approve"   -> facts.outcome = "completed" \/ facts.stage_failed = "delete_execute"
          [] stage = "delete_execute" -> "delete_receipt" \in facts.made
          [] stage = "snapshot_thin"  -> "snapshot_state" \in facts.made
  IN  IF stage = facts.stage_failed THEN "failed"
      ELSE IF reached THEN "ok" ELSE "not_attempted"

StageObjects(facts, stage) ==
  LET of == CASE stage \in {"plan_build", "plan_approve"} -> <<"deletion_plan">>
              [] stage = "delete_execute" -> <<"deletion_plan", "delete_receipt">>
              [] stage = "snapshot_thin" -> <<"snapshot_state">>
      id(a, i) == <<a, "run">>
  IN  <<RunId>> \o Each(SelectSeq(of, LAMBDA a : a \in facts.made), id)

Stages == <<"plan_build", "plan_approve", "delete_execute", "snapshot_thin">>

build_autoclean_run_ocel(facts) ==
  LET stage(name, i) == Element(EventId("autoclean-stage", i), "autoclean_stage_outcome",
                             [stage |-> Text(name), status |-> Text(StageStatus(facts, name))],
                             StageObjects(facts, name))
  IN  [otypes |-> RunSchema, etypes |-> RunEventSchema, objects |-> RunObjects(facts),
       events |->
         <<Element(EventId("autoclean-started", 0), "autoclean_run_started",
                [run_id |-> Text("run"), trigger |-> Text("scheduled"),
                 max_reclaim_gb |-> value_to_ocel("float", 1)], <<RunId>>)>>
         \o Each(Stages, stage)
         \o <<Element(EventId("autoclean-completed", 0), "autoclean_run_completed",
                   [outcome |-> Text(facts.outcome), stage_failed |-> Text(facts.stage_failed)]
                   @@ [a \in {"items_approved", "planned_bytes", "deferred_items"} |-> Number(0)],
                   <<RunId>>)>>]

-----------------------------------------------------------------------------
(* Reading a log. *)

RereadItem(item) == [item EXCEPT !.attrs = [a \in DOMAIN @ |-> Reread(@[a])]]
RereadLog(log) == [log EXCEPT !.objects = [i \in DOMAIN @ |-> RereadItem(@[i])],
                              !.events = [i \in DOMAIN @ |-> RereadItem(@[i])]]

Ids(log) == {log.objects[i].id : i \in DOMAIN log.objects}
\* Of two objects with one id the later one counts.
ObjectType(log, id) ==
  LET last == CHOOSE i \in DOMAIN log.objects :
                /\ log.objects[i].id = id
                /\ \A j \in DOMAIN log.objects : log.objects[j].id = id => j <= i
  IN  log.objects[last].type

FitsSchema(item, schema) ==
  /\ item.type \in DOMAIN schema
  /\ \A a \in DOMAIN item.attrs : /\ a \in DOMAIN schema[item.type]
                                  /\ val_matches_type(item.attrs[a], schema[item.type][a])

Refers(item, log) == ToSet(item.rels) \subseteq Ids(log)
TypesRelated(item, log) == {ObjectType(log, id) : id \in ToSet(item.rels) \cap Ids(log)}

\* What an event of some types must relate to.
Required(type) ==
  CASE type \in {"artifact_deleted", "artifact_delete_skipped", "artifact_delete_refused",
                 "artifact_delete_failed"} ->
         {"delete_receipt", "deletion_plan", "artifact_candidate", "filesystem_object"}
    [] type = "artifact_candidate_proposed" -> {"disk_audit", "scan_root", "filesystem_object"}
    [] type = "tool_root_review_proposed" -> {"disk_audit", "tool_root"}
    [] OTHER -> {}

admit(log) ==
  /\ \A e \in ToSet(log.events) : /\ FitsSchema(e, log.etypes) /\ Refers(e, log)
                                  /\ Required(e.type) \subseteq TypesRelated(e, log)
  /\ \A o \in ToSet(log.objects) : FitsSchema(o, log.otypes) /\ Refers(o, log)

OfType(items, type) == SelectSeq(items, LAMBDA x : x.type = type)

\* Counts by type; and the totals of each audit, an attribute of another
\* variant than expected reading as empty.
summarize_ocel_log(log) ==
  LET count(items) == [t \in {items[i].type : i \in DOMAIN items} |-> Len(OfType(items, t))]
      stats(o, i) == [created_at |-> IF "created_at" \in DOMAIN o.attrs
                                        /\ o.attrs["created_at"].is = "String"
                                     THEN o.attrs["created_at"].of ELSE "",
                      seen |-> [a \in Seen |-> IF a \in DOMAIN o.attrs
                                                  /\ o.attrs[a].is = "Integer"
                                               THEN o.attrs[a].of ELSE 0]]
  IN  [events |-> count(log.events), objects |-> count(log.objects),
       audits |-> Each(OfType(log.objects, "disk_audit"), stats)]

-----------------------------------------------------------------------------
(* What the MCP server takes from an audit log: the JSON itself, unvalidated. *)

KindOf(log, id) ==
  LET of == SelectSeq(log.objects, LAMBDA o : o.type = "filesystem_object" /\ o.id = id)
  IN  IF of = <<>> THEN "file" ELSE Last(of).attrs["kind"].of

artifact_candidates_from_ocel(log) ==
  LET read(o, i) == [path |-> o.attrs["path"].of, reason |-> o.attrs["reason"].of,
                     kind |-> KindOf(log, Head(o.rels)),
                     bytes |-> IF "bytes" \in DOMAIN o.attrs THEN o.attrs["bytes"].of ELSE 0]
  IN  Each(OfType(log.objects, "artifact_candidate"), read)

\* The largest first; one without a recorded size is left out, not ranked last.
largest_candidates(log, n) ==
  LET sized == SelectSeq(artifact_candidates_from_ocel(log), LAMBDA c : c.bytes > 0)
      ranked == SortSeq(sized, LAMBDA c, d : c.bytes > d.bytes)
  IN  SubSeq(ranked, 1, IF n < Len(ranked) THEN n ELSE Len(ranked))

summarize_disk_audit_ocel(log) ==
  LET audit == Head(OfType(log.objects, "disk_audit"))
  IN  [seen |-> [a \in {"dirs_seen", "files_seen", "bytes_seen"} |-> audit.attrs[a].of],
       total_candidates |-> Len(OfType(log.objects, "artifact_candidate")),
       largest |-> largest_candidates(log, 10)]

\* `audit_parse`: the total is of all candidates, the list is cut.
audit_parse(log, reason, n) ==
  LET all == SelectSeq(artifact_candidates_from_ocel(log),
                       LAMBDA c : reason = None \/ c.reason = reason)
      ranked == SortSeq(all, LAMBDA c, d : c.bytes > d.bytes)
  IN  [candidates |-> SubSeq(ranked, 1, IF n < Len(all) THEN n ELSE Len(all)),
       total_candidates |-> Len(all),
       total_bytes |-> FoldLeft(LAMBDA sum, c : sum + c.bytes, 0, all)]
=============================================================================

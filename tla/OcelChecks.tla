----------------------------- MODULE OcelChecks -----------------------------
(***************************************************************************)
(* Bounded checks of the event logs: every log the builders make is        *)
(* re-read, adjudicated and taken apart again.                             *)
(* Two scan roots ("/w" contains both candidates, "/w/b" only one), two    *)
(* candidates whose flattened names differ and a third whose name flattens *)
(* to that of the first, sizes measured or not, and tool roots with and    *)
(* without times.                                                          *)
(***************************************************************************)
LOCAL INSTANCE Integers
LOCAL INSTANCE SequencesExt

LOCAL SafeDef(p) == IF p = "/w/a.b" THEN "/w/a_b" ELSE p
LOCAL WithinDef(p, r) == r = "/w" \/ p = "/w/b"
LOCAL Log == INSTANCE OcelLog WITH Safe <- SafeDef, Within <- WithinDef, None <- "none"

LOCAL Written(log) == Log!RereadLog(log)

LOCAL RootLists == {<<"/w">>, <<"/w", "/w/b">>, <<"/w/b", "/w">>}
LOCAL Candidates == {[path |-> p, reason |-> r, kind |-> k] :
                       p \in {"/w/a_b", "/w/a.b", "/w/b"}, r \in {"r1"}, k \in {"file", "directory"}}
LOCAL CandidateLists == {s \in {<<c, d>> : c, d \in Candidates} : s[1].path # s[2].path}
                        \cup {<<>>}
LOCAL Sizes == {<<>>} \cup UNION {[P -> {1, 2}] : P \in {{"/w/b"}, {"/w/a_b", "/w/b"}}}
LOCAL ToolRoots(times) == {<<>>} \cup {<<[path |-> "/w/a_b", bytes |-> 1, time |-> t, review |-> v]>> :
                                         t \in times, v \in BOOLEAN}
LOCAL Audits == {Log!build_disk_audit_ocel_with_sizes(rs, cs, ts, 3, sz) :
                   rs \in RootLists, cs \in CandidateLists, ts \in ToolRoots({"none", "then"}), sz \in Sizes}

\* Every audit log the builder makes is admitted when it is read again.
ASSUME AuditLogsAreAdmitted == \A log \in Audits : Log!admit(Written(log))

\* A tool-root log is admitted exactly if every time in it is known: an absent
\* one is null, and null matches no declared type.
ASSUME ToolRootLogsNeedTimes ==
  \A roots \in ToolRoots({"none", "then"}) :
    Log!admit(Written(Log!build_tool_roots_ocel(roots)))
      <=> \A i \in DOMAIN roots : roots[i].time # "none"

\* The snapshot and exclusion logs are admitted.
ASSUME StateLogsAreAdmitted ==
  \A before \in {<<>>, <<"s1">>, <<"s1", "s2">>} : \A n \in 0 .. Len(before) :
    LET after == SubSeq(before, n + 1, Len(before))
        gone == SubSeq(before, 1, n)
    IN  \A log \in {Log!build_snapshot_audit_ocel(before),
                    Log!build_snapshot_thin_ocel(5, before, after, gone),
                    Log!build_snapshot_delete_ocel(before, after, gone),
                    Log!build_exclusion_plan_ocel(n)} : Log!admit(Written(log))

\* Facts an autoclean run can end with.
LOCAL RunFacts ==
  {[outcome |-> "failed", stage_failed |-> "plan_build", made |-> {}],
   [outcome |-> "failed", stage_failed |-> "plan_approve", made |-> {"deletion_plan"}],
   [outcome |-> "failed", stage_failed |-> "delete_execute", made |-> {"deletion_plan"}]}
  \cup {[outcome |-> o, stage_failed |-> "", made |-> {"deletion_plan"}] :
          o \in {"nothing_to_do", "refused", "skipped"}}
  \cup {[outcome |-> "completed", stage_failed |-> "",
         made |-> {"deletion_plan", "delete_receipt"} \cup m] : m \in {{}, {"snapshot_state"}}}

\* The log of every run is admitted, and without an object some event relates
\* to it is refused.
ASSUME RunLogsAreAdmitted ==
  \A facts \in RunFacts :
    LET log == Log!build_autoclean_run_ocel(facts)
        without(k) == [log EXCEPT !.objects = RemoveAt(@, k)]
    IN  /\ Log!admit(Written(log))
        /\ \A k \in DOMAIN log.objects : ~Log!admit(Written(without(k)))

\* A run's log calls a stage ok only if every earlier stage up to the deletion
\* is ok in it too, and a failed stage is the last one attempted.
ASSUME StagesAreOrdered ==
  \A facts \in RunFacts :
    LET status(i) == Log!StageStatus(facts, Log!Stages[i])
    IN  \A i, j \in 1 .. 4 : i < j /\ status(j) # "not_attempted" => status(i) = "ok"

\* What the MCP server reads from an audit log is what the audit wrote: the same
\* candidates in the same order, with the sizes that were measured; the kind too,
\* unless the names of two candidates flatten to one id.
ASSUME CandidatesSurvive ==
  \A rs \in RootLists, cs \in CandidateLists, sz \in Sizes :
    LET log == Written(Log!build_disk_audit_ocel_with_sizes(rs, cs, <<>>, 3, sz))
        read == Log!artifact_candidates_from_ocel(log)
    IN  /\ Len(read) = Len(cs)
        /\ \A i \in DOMAIN cs :
             /\ read[i].path = cs[i].path /\ read[i].reason = cs[i].reason
             /\ read[i].bytes = IF cs[i].path \in DOMAIN sz THEN sz[cs[i].path] ELSE 0
             /\ \/ read[i].kind = cs[i].kind
                \/ \E j \in DOMAIN cs : j # i /\ SafeDef(cs[j].path) = SafeDef(cs[i].path)

\* The ranking keeps the largest, whatever it is cut to, and the total is not cut.
ASSUME LargestComeFirst ==
  \A cs \in CandidateLists, sz \in Sizes, n \in 0 .. 2 :
    LET log == Written(Log!build_disk_audit_ocel_with_sizes(<<"/w">>, cs, <<>>, 3, sz))
        top == Log!largest_candidates(log, n)
        parsed == Log!audit_parse(log, "none", n)
        sized == {i \in DOMAIN cs : cs[i].path \in DOMAIN sz}
    IN  /\ \A i \in sized :
             \/ \E k \in DOMAIN top : top[k].path = cs[i].path
             \/ /\ Len(top) = n
                /\ \A k \in DOMAIN top : top[k].bytes >= sz[cs[i].path]
        /\ parsed.total_candidates = Len(cs)
        /\ Log!summarize_disk_audit_ocel(log).total_candidates = Len(cs)
        /\ n = 2 => parsed.total_bytes
                      = FoldLeft(LAMBDA sum, c : sum + c.bytes, 0, parsed.candidates)

\* The summary counts every item once; the time of an audit is lost in a log
\* that was read from a file.
ASSUME SummaryCounts ==
  \A log \in Audits :
    LET s == Log!summarize_ocel_log(Written(log))
    IN  /\ s.objects["disk_audit"] = 1 /\ s.audits[1].seen["errors"] = 3
        /\ s.audits[1].created_at = ""
        /\ Log!summarize_ocel_log(log).audits[1].created_at # ""
=============================================================================

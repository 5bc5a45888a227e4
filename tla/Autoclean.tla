------------------------------- MODULE Autoclean -------------------------------
(***************************************************************************)
(* Unattended runs of autoclean (src/src/nouns/autoclean.rs): each builds, *)
(* narrows, caps, approves and executes a plan of its own through          *)
(* subprocesses.  Runs share autoclean.log, and a run names its files by   *)
(* the second it started in, so two runs of one second share those too.    *)
(* A file is written in one step here; PlanApproval takes the steps of a   *)
(* write apart.                                                            *)
(***************************************************************************)
EXTENDS Integers, Sequences, FiniteSetsExt

CONSTANTS
    Run,            \* the runs launchd, a monitor or a user starts
    Narrowing,      \* those started with --builds-only --exclude-live-cwds
    Item,           \* what plan build may nominate
    Bytes,          \* Bytes[i]: the size the plan records
    Unsure,         \* the items classified Unknown or Irreversible
    BuildDir,       \* the regenerable build directories
    Cap,            \* Cap[r]: --max-reclaim-gb
    MaxClock        \* bound: the seconds in which runs start

ASSUME AutocleanAssumption ==
    /\ Narrowing \subseteq Run
    /\ Unsure \subseteq Item /\ BuildDir \subseteq Item
    /\ Bytes \in [Item -> Nat]
    /\ Cap \in [Run -> Nat]
    /\ MaxClock \in Nat \ {0}

VARIABLES
    clock,      \* the wall clock, in seconds
    busy,       \* the items a live working directory touches, or recently modified
    planFile,   \* {ts}-plan.json of each second
    records,    \* autoclean.log, as summarize_log groups it
    evidence,   \* the outcome in {ts}-autoclean-run.jsonocel
    pc,         \* how far each run is
    tag,        \* its ts; 0 before it starts
    memory,     \* the plan it holds
    handed,     \* history: the items its delete execute was given
    spared,     \* history: what was busy when it narrowed its plan
    said,       \* history: the deciding line it wrote
    overlapped  \* history: some run started while another was under way

shared == <<planFile, records, evidence>>
vars == <<clock, busy, shared, pc, tag, memory, handed, spared, said, overlapped>>

Second == 1..MaxClock
Approval == [given : BOOLEAN, of : SUBSET Item]
NoApproval == [given |-> FALSE, of |-> {}]
Plan == [items : SUBSET Item, approval : Approval]
NoPlan == [items |-> {}, approval |-> NoApproval]
PlanFile == [exists : BOOLEAN, plan : Plan]

(* The ranks outcome_rank gives the lines that decide an outcome, and the      *)
(* lines it passes over.                                                       *)
Decides == [done |-> 1, nothing |-> 1, SKIPPED |-> 2, REFUSED |-> 3, FAILED |-> 4]
Chatter == {"narrowed", "trimmed", "dropped", "freed", "released"}
Line == DOMAIN Decides \cup Chatter
Outcome == DOMAIN Decides

Stages == {"build", "read", "narrow", "cap", "drop", "veto", "approve", "execute",
           "freed", "done", "release"}

Init ==
    /\ clock = 1
    /\ busy = {}
    /\ planFile = [t \in Second |-> [exists |-> FALSE, plan |-> NoPlan]]
    /\ records = <<>>
    /\ evidence = [t \in Second |-> "none"]
    /\ pc = [r \in Run |-> "idle"]
    /\ tag = [r \in Run |-> 0]
    /\ memory = [r \in Run |-> NoPlan]
    /\ handed = [r \in Run |-> {}]
    /\ spared = [r \in Run |-> {}]
    /\ said = [r \in Run |-> "none"]
    /\ overlapped = FALSE

WithItems(p, S) == [p EXCEPT !.items = S]
Running(r) == pc[r] \in Stages
Goto(r, l) == pc' = [pc EXCEPT ![r] = l]
WritePlan(r, p) == planFile' = [planFile EXCEPT ![tag[r]] = [exists |-> TRUE, plan |-> p]]

------------------------------------------------------------------------------
(* summarize_log, one line at a time.  A record is the tag, the line that      *)
(* decided its outcome, and that outcome; "open" is a record no deciding line  *)
(* has reached, which counts as Ok.                                            *)
Record == [tag : Second, outcome : Outcome \cup {"open"}]
RankOf(o) == IF o = "open" THEN 0 ELSE Decides[o]

LastHas(rs, t) == rs # <<>> /\ rs[Len(rs)].tag = t

(* Not the code: the first line of a tag decides. *)
GroupedByFirst(rs, t, line) ==
    IF LastHas(rs, t) THEN rs
    ELSE Append(rs, [tag |-> t, outcome |-> IF line \in Chatter THEN "open" ELSE line])

Grouped(rs, t, line) ==
    IF ~LastHas(rs, t)
    THEN Append(rs, [tag |-> t, outcome |-> IF line \in Chatter THEN "open" ELSE line])
    ELSE IF line \in Outcome /\ RankOf(rs[Len(rs)].outcome) < Decides[line]
    THEN [rs EXCEPT ![Len(rs)].outcome = line]
    ELSE rs

Say(r, line) ==
    /\ records' = Grouped(records, tag[r], line)
    /\ said' = IF line \in Outcome THEN [said EXCEPT ![r] = line] ELSE said

(* append_log and what follows it: if the line cannot be written, the error    *)
(* ends the run there.                                                         *)
SayThen(r, line, l) ==
    \/ Say(r, line) /\ Goto(r, l)
    \/ UNCHANGED <<records, said>> /\ Goto(r, "dead")

(* emit_run_ocel: a write that fails is only warned about.                     *)
Emit(r, line) ==
    \/ evidence' = [evidence EXCEPT ![tag[r]] = line]
    \/ UNCHANGED evidence

(* A terminal outcome: the evidence, then the line.                            *)
EndWith(r, line) == Emit(r, line) /\ SayThen(r, line, "ended")

Quiet == UNCHANGED <<records, evidence, said>>

------------------------------------------------------------------------------
(* run(): the files of the run are named by the second it starts in.          *)
Start(r) ==
    /\ pc[r] = "idle"
    /\ tag' = [tag EXCEPT ![r] = clock]
    /\ Goto(r, "build")
    /\ overlapped' = (overlapped \/ \E q \in Run : Running(q))
    /\ UNCHANGED <<clock, busy, shared, memory, handed, spared, said>>

(* plan build nominates what it finds and writes the plan, fails, or exits    *)
(* successfully with the plan dumped because the volume is full.              *)
Build(r) ==
    /\ pc[r] = "build"
    /\ \/ \E S \in SUBSET Item : WritePlan(r, [items |-> S, approval |-> NoApproval])
          /\ Goto(r, "read") /\ Quiet
       \/ Goto(r, "read") /\ Quiet /\ UNCHANGED planFile
       \/ EndWith(r, "FAILED") /\ UNCHANGED planFile
    /\ UNCHANGED <<clock, busy, tag, memory, handed, spared, overlapped>>

(* The plan is read back; without a file the run ends, and says nothing.       *)
Read(r) ==
    /\ pc[r] = "read"
    /\ IF planFile[tag[r]].exists
       THEN /\ memory' = [memory EXCEPT ![r] = planFile[tag[r]].plan]
            /\ Goto(r, IF r \in Narrowing THEN "narrow" ELSE "cap")
       ELSE Goto(r, "dead") /\ UNCHANGED memory
    /\ UNCHANGED <<clock, busy, shared, tag, handed, spared, said, overlapped>>

Narrowed(p) == WithItems(p, (p.items \cap BuildDir) \ busy)

(* Not the code: narrowing the plan in memory only. *)
NarrowUnsaved(r) ==
    /\ pc[r] = "narrow"
    /\ memory' = [memory EXCEPT ![r] = Narrowed(@)]
    /\ spared' = [spared EXCEPT ![r] = busy]
    /\ SayThen(r, "narrowed", "cap")
    /\ UNCHANGED <<clock, busy, planFile, evidence, tag, handed, overlapped>>

(* narrow_plan_items keeps the build directories that nobody uses, and the     *)
(* plan is written back, approval and all; if the live working directories     *)
(* cannot be read the run refuses, if the file cannot be written it dies.      *)
Narrow(r) ==
    /\ pc[r] = "narrow"
    /\ \/ /\ memory' = [memory EXCEPT ![r] = Narrowed(@)]
          /\ spared' = [spared EXCEPT ![r] = busy]
          /\ WritePlan(r, Narrowed(memory[r])) /\ UNCHANGED evidence
          /\ SayThen(r, "narrowed", "cap")
       \/ EndWith(r, "REFUSED") /\ UNCHANGED <<memory, planFile, spared>>
    /\ UNCHANGED <<clock, busy, tag, handed, overlapped>>

------------------------------------------------------------------------------
Total(S) == MapThenSumSet(LAMBDA i : Bytes[i], S)

(* What trim_plan_items_to_cap can keep of S: it goes through the items        *)
(* largest first and keeps each that fits in what the kept ones left.  Of      *)
(* items of equal size the first in the file are kept.                         *)
Fitting(S, c) ==
    {K \in SUBSET S :
        /\ Total(K) <= c
        /\ \A i \in S \ K : Total({k \in K : Bytes[k] >= Bytes[i]}) + Bytes[i] > c}

(* Not the code: the trimmed plan stays in memory. *)
CapUnsaved(r) ==
    /\ pc[r] = "cap"
    /\ \E K \in Fitting(memory[r].items, Cap[r]) :
          memory' = [memory EXCEPT ![r] = WithItems(@, K)]
    /\ SayThen(r, "trimmed", "drop")
    /\ UNCHANGED <<clock, busy, planFile, evidence, tag, handed, spared, overlapped>>

(* An empty plan ends the run.  One over the cap is cut to it and written      *)
(* back; if nothing fits, the run refuses.                                     *)
FitToCap(r) ==
    LET items == memory[r].items
        fits == Total(items) <= Cap[r] IN
    /\ pc[r] = "cap"
    /\ \/ items = {} /\ EndWith(r, "nothing") /\ UNCHANGED <<memory, planFile>>
       \/ items # {} /\ fits /\ Goto(r, "drop") /\ Quiet /\ UNCHANGED <<memory, planFile>>
       \/ /\ items # {} /\ ~fits
          /\ \E K \in Fitting(items, Cap[r]) \ {{}} :
                /\ memory' = [memory EXCEPT ![r] = WithItems(@, K)]
                /\ WritePlan(r, WithItems(memory[r], K))
          /\ UNCHANGED evidence
          /\ SayThen(r, "trimmed", "drop")
       \/ /\ items # {} /\ ~fits /\ {} \in Fitting(items, Cap[r])
          /\ EndWith(r, "REFUSED") /\ UNCHANGED <<memory, planFile>>
    /\ UNCHANGED <<clock, busy, tag, handed, spared, overlapped>>

ZeroByteUnsure(S) == {i \in S \cap Unsure : Bytes[i] = 0}

(* Zero-byte unsure items leave the plan in memory; the file keeps them.       *)
DropZeroByte(r) ==
    LET zeros == ZeroByteUnsure(memory[r].items) IN
    /\ pc[r] = "drop"
    /\ memory' = [memory EXCEPT ![r] = WithItems(@, @.items \ zeros)]
    /\ IF zeros = {} THEN Goto(r, "veto") /\ UNCHANGED <<records, said>>
                     ELSE SayThen(r, "dropped", "veto")
    /\ UNCHANGED <<clock, busy, planFile, evidence, tag, handed, spared, overlapped>>

(* Any unsure item with bytes makes the run skip.                              *)
Veto(r) ==
    /\ pc[r] = "veto"
    /\ IF memory[r].items \cap Unsure # {} THEN EndWith(r, "SKIPPED")
       ELSE Goto(r, "approve") /\ Quiet
    /\ UNCHANGED <<clock, busy, planFile, tag, memory, handed, spared, overlapped>>

------------------------------------------------------------------------------
Signed(p) == [p EXCEPT !.approval = [given |-> TRUE, of |-> p.items]]

(* Not the code: plan approve without its fence on unsure items. *)
ApproveAny(r) ==
    /\ pc[r] = "approve"
    /\ \/ /\ planFile[tag[r]].exists
          /\ WritePlan(r, Signed(planFile[tag[r]].plan))
          /\ Goto(r, "execute") /\ Quiet
       \/ EndWith(r, "FAILED") /\ UNCHANGED planFile
    /\ UNCHANGED <<clock, busy, tag, memory, handed, spared, overlapped>>

(* plan approve works on the file: it refuses any unsure item, whatever its    *)
(* size, and otherwise signs the items; it may also fail for other reasons.    *)
Approve(r) ==
    LET f == planFile[tag[r]] IN
    /\ pc[r] = "approve"
    /\ \/ /\ f.exists /\ f.plan.items \cap Unsure = {}
          /\ WritePlan(r, Signed(f.plan))
          /\ Goto(r, "execute") /\ Quiet
       \/ EndWith(r, "FAILED") /\ UNCHANGED planFile
    /\ UNCHANGED <<clock, busy, tag, memory, handed, spared, overlapped>>

(* delete execute takes the file if its approval is for its items, and removes *)
(* what it can; it exits with 0 when items failed.                             *)
Execute(r) ==
    LET p == planFile[tag[r]].plan IN
    /\ pc[r] = "execute"
    /\ \/ /\ p.approval = [given |-> TRUE, of |-> p.items]
          /\ handed' = [handed EXCEPT ![r] = p.items]
          /\ \/ Goto(r, "freed") /\ Quiet
             \/ EndWith(r, "FAILED")
       \/ EndWith(r, "FAILED") /\ UNCHANGED handed
    /\ UNCHANGED <<clock, busy, planFile, tag, memory, spared, overlapped>>

(* The measured reclaim is logged if delete execute printed one.               *)
LogFreed(r) ==
    /\ pc[r] = "freed"
    /\ \/ SayThen(r, "freed", "done")
       \/ Goto(r, "done") /\ UNCHANGED <<records, said>>
    /\ UNCHANGED <<clock, busy, planFile, evidence, tag, memory, handed, spared, overlapped>>

(* receipt verify runs, and whatever it exits with the run is done.            *)
Done(r) ==
    /\ pc[r] = "done"
    /\ SayThen(r, "done", "release")
    /\ UNCHANGED <<clock, busy, planFile, evidence, tag, memory, handed, spared, overlapped>>

(* The snapshot line, if there is one, and last the evidence.                  *)
Release(r) ==
    /\ pc[r] = "release"
    /\ \/ Say(r, "released") /\ Goto(r, "ended") /\ Emit(r, "done")
       \/ Goto(r, "ended") /\ Emit(r, "done") /\ UNCHANGED <<records, said>>
       \/ Goto(r, "dead") /\ Quiet
    /\ UNCHANGED <<clock, busy, planFile, tag, memory, handed, spared, overlapped>>

Kill(r) ==
    /\ Running(r)
    /\ Goto(r, "dead")
    /\ UNCHANGED <<clock, busy, shared, tag, memory, handed, spared, said, overlapped>>

Tick ==
    /\ clock < MaxClock
    /\ clock' = clock + 1
    /\ UNCHANGED <<busy, shared, pc, tag, memory, handed, spared, said, overlapped>>

(* The user goes to work in a directory, or leaves it.                         *)
Work ==
    /\ \E i \in BuildDir : busy' = IF i \in busy THEN busy \ {i} ELSE busy \cup {i}
    /\ UNCHANGED <<clock, shared, pc, tag, memory, handed, spared, said, overlapped>>

Step(r) ==
    \/ Build(r) \/ Read(r) \/ Narrow(r) \/ FitToCap(r) \/ DropZeroByte(r) \/ Veto(r)
    \/ Approve(r) \/ Execute(r) \/ LogFreed(r) \/ Done(r) \/ Release(r)

Next == Tick \/ Work \/ \E r \in Run : Start(r) \/ Step(r) \/ Kill(r)

Spec == Init /\ [][Next]_vars

------------------------------------------------------------------------------
TypeOK ==
    /\ clock \in Second /\ busy \in SUBSET BuildDir
    /\ planFile \in [Second -> PlanFile]
    /\ records \in Seq(Record)
    /\ evidence \in [Second -> Outcome \cup {"none"}]
    /\ pc \in [Run -> Stages \cup {"idle", "ended", "dead"}]
    /\ tag \in [Run -> 0..MaxClock]
    /\ memory \in [Run -> Plan]
    /\ handed \in [Run -> SUBSET Item] /\ spared \in [Run -> SUBSET BuildDir]
    /\ said \in [Run -> Outcome \cup {"none"}]
    /\ overlapped \in BOOLEAN

(* A run that shares its second, hence its files, with no other.               *)
Alone(r) == \A q \in Run \ {r} : tag[q] # tag[r]

(* No run, however it interleaves with others on the same files, deletes an    *)
(* item of unknown or irreversible reversibility.                              *)
NothingUnsure == \A r \in Run : handed[r] \cap Unsure = {}

(* --max-reclaim-gb is a budget: what a run with files of its own sets about   *)
(* deleting fits it.                                                           *)
CapIsBudget ==
    \A r \in Run : Alone(r) /\ handed[r] # {} => Total(handed[r]) <= Cap[r]

(* A pressure run with files of its own deletes build directories only, and    *)
(* none that was in use when it looked.                                        *)
LiveWorkSpared ==
    \A r \in Narrowing : Alone(r) => handed[r] \subseteq BuildDir \ spared[r]

(* However runs interleave in the log, autoclean status shows a failure for    *)
(* every tag of which a run failed.                                            *)
FailureIsShown ==
    \A r \in Run : said[r] = "FAILED" =>
        \E k \in DOMAIN records : records[k] = [tag |-> tag[r], outcome |-> "FAILED"]

(* When runs do not overlap and none share a second, autoclean status lists a  *)
(* run once, with the outcome of its deciding line.                            *)
RunsAreListedOnce ==
    (~overlapped /\ \A r \in Run : Alone(r) \/ tag[r] = 0) =>
        \A r \in Run : said[r] # "none" =>
            \E k \in DOMAIN records :
                /\ records[k] = [tag |-> tag[r], outcome |-> said[r]]
                /\ \A j \in DOMAIN records : records[j].tag = tag[r] => j = k

(* autoclean status, which reads the shared log backwards into runs, is honest *)
(* about them: it hides no failure, and misplaces nothing when runs keep apart. *)
StandingIsHonest == FailureIsShown /\ RunsAreListedOnce

================================================================================

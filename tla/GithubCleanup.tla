---------------------------- MODULE GithubCleanup ----------------------------
(***************************************************************************)
(* The GitHub cleanup of src/src/nouns/github.rs: github plan asks the gh  *)
(* program for the repositories and their parts, one call after another,   *)
(* and writes the candidates to a plan file; github delete reads the file  *)
(* and removes its items one gh call at a time, with no approval and no    *)
(* second look.  GitHub changes meanwhile, and a call may fail before or   *)
(* after it took effect.                                                   *)
(***************************************************************************)
EXTENDS Naturals, Sequences

CONSTANTS
    Repo,       \* repositories
    Part,       \* their branches, runs, releases, assets, caches, issues, PRs
    KindOf,     \* what each part is
    Of,         \* the repository of each part, and the release of an asset
    Odd,        \* the things whose gh error text always holds "404" or "not found"
    LocalItem,  \* a path on this machine, in a plan of another command
    Deleter,    \* the github delete processes
    Outset,     \* what GitHub may hold at first
    MaxChanges  \* bound: how often GitHub changes on its own

Thing == Repo \cup Part
Kinds == <<"run", "branch", "release", "cache", "issue", "pr">>
PartKind == {"run", "branch", "release", "asset", "cache", "issue", "pr"}

(* due and held are what the rules below ask of the kind:                   *)
(*   repository  due: empty              held: archived                     *)
(*   branch      due: nothing unmerged   held: protected                    *)
(*   run         due: completed          release  due: draft                *)
(*   asset       due: over the size      issue, PR  due: open  held: kept   *)
(* old: its date is before the threshold.                                   *)
State == [there : BOOLEAN, old : BOOLEAN, due : BOOLEAN, held : BOOLEAN]

ASSUME GithubAssumption ==
    /\ KindOf \in [Part -> PartKind] /\ Of \in [Part -> Thing]
    /\ Repo \cap Part = {} /\ LocalItem \notin Thing /\ "none" \notin Repo
    /\ \A p \in Part : IF KindOf[p] = "asset" THEN Of[p] \in Part /\ KindOf[Of[p]] = "release"
                       ELSE Of[p] \in Repo
    /\ Odd \subseteq Thing /\ MaxChanges \in Nat /\ Outset \subseteq [Thing -> State]

VARIABLES
    remote,     \* GitHub: each thing's state
    default,    \* each repository's default branch
    scan,       \* github plan: where it stands and what it has collected
    plan,       \* the plan file
    run,        \* each github delete: where it stands, its items, its results
    changes,    \* changes so far
    took,       \* history: the things each run's calls removed or closed
    touched     \* history: the things that changed in other hands

vars == <<remote, default, scan, plan, run, changes, took, touched>>

Kind(t) == IF t \in Repo THEN "repo" ELSE KindOf[t]
PartsOf(t) == {p \in Part : Of[p] = t \/ (KindOf[p] = "asset" /\ Of[Of[p]] = t)}
There(k, r) == {p \in Part : KindOf[p] = k /\ Of[p] = r /\ remote[p].there}

NoScan == [at |-> "idle", listed |-> {}, repo |-> "none", main |-> LocalItem,
           kinds |-> <<>>, branches |-> {}, items |-> {}]
NoRun == [at |-> "ready", left |-> {}, results |-> {}]

Init ==
    /\ remote \in Outset
    /\ default \in {d \in [Repo -> Part] : \A r \in Repo : d[r] \in There("branch", r)}
    /\ scan = NoScan
    /\ plan \in {[file |-> FALSE, items |-> {}], [file |-> TRUE, items |-> {LocalItem}]}
    /\ run = [d \in Deleter |-> NoRun]
    /\ changes = 0 /\ took = [d \in Deleter |-> {}] /\ touched = {}

-----------------------------------------------------------------------------
(* The rules (is_repo_stale_or_empty ... is_pr_stale). *)
Stale(k, s) ==
    CASE k = "repo"    -> s.due \/ (~s.held /\ s.old)
      [] k = "run"     -> s.due /\ s.old
      [] k = "branch"  -> s.due
      [] k = "release" -> s.due \/ s.old
      [] k = "asset"   -> s.due
      [] k = "cache"   -> s.old
      [] OTHER         -> s.due /\ ~s.held /\ s.old

Rest == UNCHANGED <<remote, default, run, changes, took, touched>>

(* gh repo list; when it fails the plan is written all the same, empty. *)
ListRepositories ==
    /\ scan.at = "idle"
    /\ \/ scan' = [NoScan EXCEPT !.at = "repos", !.main = LocalItem,
                   !.listed = {<<r, remote[r], default[r]>> : r \in {x \in Repo : remote[x].there}}]
       \/ scan' = [NoScan EXCEPT !.at = "repos"]
    /\ UNCHANGED plan /\ Rest

(* Not the code: a stale repository is looked into as well. *)
ExamineEveryRepository ==
    /\ scan.at = "repos"
    /\ \E e \in scan.listed :
         scan' = [scan EXCEPT !.listed = @ \ {e}, !.at = "parts", !.repo = e[1], !.main = e[3],
                              !.kinds = Kinds,
                              !.items = @ \cup {x \in {e[1]} : Stale("repo", e[2])}]
    /\ UNCHANGED plan /\ Rest

(* A stale repository is an item by itself, as it was listed; the others    *)
(* are looked into.                                                         *)
ExamineRepository ==
    /\ scan.at = "repos"
    /\ \E e \in scan.listed :
         IF Stale("repo", e[2])
         THEN scan' = [scan EXCEPT !.listed = @ \ {e}, !.items = @ \cup {e[1]}]
         ELSE scan' = [scan EXCEPT !.listed = @ \ {e}, !.at = "parts", !.repo = e[1],
                                   !.main = e[3], !.kinds = Kinds]
    /\ UNCHANGED plan /\ Rest

(* Not the code: the repository is not put away. *)
NextKindKeeping(s) ==
    IF s.kinds = <<>> THEN [s EXCEPT !.at = "repos"] ELSE [s EXCEPT !.at = "parts"]

NextKind(s) ==
    IF s.kinds = <<>> THEN [s EXCEPT !.at = "repos", !.repo = "none", !.main = LocalItem]
    ELSE [s EXCEPT !.at = "parts"]

(* One listing: its candidates, or a warning and none. *)
StaleParts(k, r) ==
    {p \in There(k, r) : Stale(k, remote[p])} \cup
    IF k # "release" THEN {}
    ELSE {a \in Part : /\ KindOf[a] = "asset" /\ remote[a].there /\ remote[a].due
                       /\ Of[a] \in There("release", r) /\ ~Stale("release", remote[Of[a]])}

ListParts ==
    /\ scan.at = "parts" /\ Head(scan.kinds) # "branch"
    /\ \E found \in {{}, StaleParts(Head(scan.kinds), scan.repo)} :
         scan' = NextKind([scan EXCEPT !.kinds = Tail(@), !.items = @ \cup found])
    /\ UNCHANGED plan /\ Rest

(* The branches are listed, and then compared with the default branch the   *)
(* repository was listed with, one call each.                               *)
ListBranches ==
    /\ scan.at = "parts" /\ Head(scan.kinds) = "branch"
    /\ \E found \in {{}, {b \in There("branch", scan.repo) : ~remote[b].held} \ {scan.main}} :
         scan' = [scan EXCEPT !.kinds = Tail(@), !.branches = found, !.at = "branches"]
    /\ UNCHANGED plan /\ Rest

CompareBranch ==
    /\ scan.at = "branches"
    /\ IF scan.branches = {} THEN scan' = NextKind(scan)
       ELSE \E b \in scan.branches :
              \E found \in {{}, {x \in {b} : remote[x].there /\ Stale("branch", remote[x])}} :
                scan' = [scan EXCEPT !.branches = @ \ {b}, !.items = @ \cup found]
    /\ UNCHANGED plan /\ Rest

(* The plan replaces the file whatever it holds; a failed write spoils it.  *)
WritePlan ==
    /\ scan.at = "repos" /\ scan.listed = {}
    /\ plan' \in {[file |-> TRUE, items |-> scan.items], [file |-> FALSE, items |-> {}]}
    /\ scan' = [NoScan EXCEPT !.at = "over"]
    /\ Rest

-----------------------------------------------------------------------------
(* execute_delete_plan_helper. *)
Still == UNCHANGED <<default, scan, plan, changes, touched>>

Load(d) ==
    /\ run[d].at = "ready" /\ plan.file
    /\ run' = [run EXCEPT ![d] = [NoRun EXCEPT !.at = "items", !.left = plan.items]]
    /\ UNCHANGED <<remote, took>> /\ Still

Report(d, t, status, bytes) ==
    run' = [run EXCEPT ![d].left = @ \ {t},
                       ![d].results = @ \cup {[of |-> t, status |-> status, freed |-> bytes]}]

(* Not asked for, or no GitHub item: no call is made. *)
PassOver(d) ==
    /\ run[d].at = "items"
    /\ \E t \in run[d].left :
         \/ Report(d, t, "Refused", FALSE)
         \/ t = LocalItem /\ Report(d, t, "SkippedMissing", FALSE)
    /\ UNCHANGED <<remote, took>> /\ Still

(* What GitHub does of a delete or close: a repository takes its parts with *)
(* it and a release its assets; an issue or PR is closed and stays.         *)
Removes(t) == IF Kind(t) \in {"issue", "pr"} THEN {t} ELSE {t} \cup PartsOf(t)
Without(t) ==
    [x \in Thing |->
        IF x \notin Removes(t) THEN remote[x]
        ELSE IF Kind(t) \in {"issue", "pr"} THEN [remote[x] EXCEPT !.due = FALSE]
        ELSE [remote[x] EXCEPT !.there = FALSE]]
Deletable(t) ==
    remote[t].there /\ ~(Kind(t) = "branch" /\ (remote[t].held \/ default[Of[t]] = t))

(* The bytes are credited for the two kinds that have a size. *)
Sized(t) == Kind(t) \in {"cache", "asset"}

(* An error is read by its text. *)
ErrorStatus(t, absent) == IF absent \/ t \in Odd THEN "SkippedMissing" ELSE "Failed"

(* Not the code: the item is done, with no result, when the call fails. *)
AnsweredOrDropped(d, t, status) ==
    IF status = "Deleted" THEN Report(d, t, status, Sized(t))
    ELSE run' = [run EXCEPT ![d].left = @ \ {t}]

Answered(d, t, status) == Report(d, t, status, status = "Deleted" /\ Sized(t))

Delete(d) ==
    /\ run[d].at = "items"
    /\ \E t \in run[d].left \cap Thing :
         \/ /\ Deletable(t)
            /\ remote' = Without(t)
            /\ took' = [took EXCEPT ![d] = @ \cup {x \in Removes(t) : remote[x].there}]
            /\ \E status \in {"Deleted", ErrorStatus(t, FALSE)} : Answered(d, t, status)
         \/ /\ \E absent \in {FALSE, ~remote[t].there} : Answered(d, t, ErrorStatus(t, absent))
            /\ UNCHANGED <<remote, took>>
    /\ Still

(* The receipt is written once, after the last item. *)
WriteReceipt(d) ==
    /\ run[d].at = "items" /\ run[d].left = {}
    /\ \E l \in {"ended", "lost"} :
         run' = [run EXCEPT ![d].at = l, ![d].results = IF l = "ended" THEN @ ELSE {}]
    /\ UNCHANGED <<remote, took>> /\ Still

Kill(d) ==
    /\ run[d].at = "items"
    /\ run' = [run EXCEPT ![d] = [NoRun EXCEPT !.at = "lost"]]
    /\ UNCHANGED <<remote, took>> /\ Still

-----------------------------------------------------------------------------
(* GitHub in other hands. *)
Fresh == [there |-> TRUE, old |-> FALSE, due |-> FALSE, held |-> FALSE]

(* Somebody works on a thing, lets it go, protects it, removes it with what *)
(* it contains, or makes it again under its name.                           *)
Change ==
    /\ changes < MaxChanges
    /\ changes' = changes + 1
    /\ \E t \in Thing :
         /\ t \in Part => remote[Of[t]].there
         /\ \/ /\ remote[t].there
               /\ remote' \in {[remote EXCEPT ![t].old = FALSE, ![t].due = FALSE],
                              [remote EXCEPT ![t].old = TRUE, ![t].due = TRUE],
                              [remote EXCEPT ![t].held = TRUE]}
               /\ touched' = touched \cup {t}
            \/ /\ Deletable(t) /\ Kind(t) \notin {"issue", "pr"}
               /\ remote' = Without(t) /\ touched' = touched \cup Removes(t)
            \/ /\ ~remote[t].there /\ Kind(t) \in {"repo", "branch", "release"}
               /\ remote' = [remote EXCEPT ![t] = Fresh] /\ touched' = touched \cup {t}
    /\ remote' # remote
    /\ UNCHANGED <<default, scan, plan, run, took>>

SwitchDefault ==
    /\ changes < MaxChanges
    /\ changes' = changes + 1
    /\ \E r \in Repo : \E b \in There("branch", r) \ {default[r]} :
         /\ default' = [default EXCEPT ![r] = b]
         /\ touched' = touched \cup {r}
    /\ UNCHANGED <<remote, scan, plan, run, took>>

Plan == ListRepositories \/ ExamineRepository \/ ListParts \/ ListBranches \/ CompareBranch \/ WritePlan
Execute(d) == Load(d) \/ PassOver(d) \/ Delete(d) \/ WriteReceipt(d) \/ Kill(d)
Next == Plan \/ (\E d \in Deleter : Execute(d)) \/ Change \/ SwitchDefault

Spec == Init /\ [][Next]_vars

-----------------------------------------------------------------------------
Status == {"Deleted", "Failed", "SkippedMissing", "Refused"}
Item == Thing \cup {LocalItem}

(* Every variable is of its type; between repositories the scan holds      *)
(* nothing of the last one, and only a run in its loop has items left.     *)
TypeOK ==
    /\ remote \in [Thing -> State] /\ default \in [Repo -> Part]
    /\ scan.at \in {"idle", "repos", "parts", "branches", "over"}
    /\ scan.items \subseteq Thing /\ scan.branches \subseteq Part
    /\ scan.repo \in Repo \cup {"none"} /\ scan.main \in Part \cup {LocalItem}
    /\ scan.at \in {"parts", "branches"} <=> scan.repo # "none"
    /\ scan.branches # {} => scan.at = "branches"
    /\ plan.file \in BOOLEAN /\ plan.items \subseteq Item
    /\ \A d \in Deleter :
         /\ run[d].at \in {"ready", "items", "ended", "lost"} /\ run[d].left \subseteq Item
         /\ \A x \in run[d].results : x.of \in Item /\ x.status \in Status /\ x.freed \in BOOLEAN
         /\ run[d].left # {} => run[d].at = "items"
    /\ changes \in 0 .. MaxChanges /\ took \in [Deleter -> SUBSET Thing] /\ touched \subseteq Thing

Untouched(t) == t \notin touched /\ \A d \in Deleter : t \notin took[d]

(* A plan, put together from a dozen calls any of which may fail, holds    *)
(* nothing that the rules spare: while nobody else touches a planned thing *)
(* it is stale, and a planned branch is neither protected nor the default  *)
(* one.  Nothing is planned twice, by itself and with what contains it.    *)
PlanIsJustified ==
    \A t \in plan.items \cap Thing :
        Untouched(t) =>
            /\ Stale(Kind(t), remote[t])
            /\ t \in Part =>
                 /\ Of[t] \notin plan.items
                 /\ Of[t] \in Part => Of[Of[t]] \notin plan.items
            /\ Kind(t) = "branch" =>
                 ~remote[t].held /\ (Of[t] \notin touched => default[Of[t]] # t)

Results(d) == IF run[d].at = "ended" THEN run[d].results ELSE {}

(* What the calls of a run removed, those that took effect and then failed  *)
(* among them, is in its receipt, under its own name or that of what        *)
(* contains it, and not as skipped; except where the text of gh misleads.   *)
NothingUnreported ==
    \A d \in Deleter : run[d].at = "ended" =>
        \A t \in took[d] : \E x \in Results(d) :
            /\ x.of \in Thing /\ t \in Removes(x.of)
            /\ x.status \in {"Deleted", "Failed"} \/ x.of \in Odd

(* What a receipt says of an item that nobody else touched is so: Deleted   *)
(* things are gone, or closed; skipped ones are gone.  Two runs of one plan *)
(* never credit the bytes of a thing twice, and none credits what its own   *)
(* calls did not remove.                                                    *)
EntriesAreTrue ==
    \A d \in Deleter : \A x \in Results(d) :
        /\ x.status = "Deleted" /\ x.of \notin touched =>
             IF Kind(x.of) \in {"issue", "pr"} THEN ~remote[x.of].due ELSE ~remote[x.of].there
        /\ x.status = "SkippedMissing" /\ x.of \notin touched \cup Odd \cup {LocalItem} => ~remote[x.of].there
        /\ x.freed => /\ x.of \in took[d]
                      /\ \A e \in Deleter \ {d} : \A y \in Results(e) : y.of = x.of => ~y.freed

(* The receipt of a run is the whole truth about it, and nothing else.      *)
ReceiptIsTrue == EntriesAreTrue /\ NothingUnreported
================================================================================

----------------------------- MODULE Worktrees -----------------------------
(***************************************************************************)
(* The standing report of git worktrees: `tools git-worktrees` finds the   *)
(* repositories below its roots, and for each one asks git a list of       *)
(* separate questions (which worktrees, which default branch, which        *)
(* stashes, how many objects; then, for all worktrees at once, whether the *)
(* directory is there, whether it is clean, whether its branch is merged)  *)
(* from which it says which worktrees could go.  The person whose          *)
(* worktrees they are keeps working between any two of the questions, and  *)
(* any question may fail.                                                  *)
(***************************************************************************)
EXTENDS Integers, FiniteSets, Sequences

CONSTANTS MainRepo,    \* main repositories
          Bare,        \* those without a main worktree
          Linked,      \* linked worktrees
          Home,        \* Home[w]: the repository w belongs to
          OnDefault,   \* linked worktrees that check out the default branch
          Found,       \* the checkouts below the roots, in walk order
          Objects,     \* Objects[r]: what `git count-objects -v` counts in r
          Standing,    \* Standing[w]: what w may be when the report starts
          NoFact,      \* a fact that could not be established
          LooseLimit, PackLimit,  \* git's own thresholds for gc
          MaxActs      \* bound: steps of the user while the report is made

ASSUME WorktreesAssumption ==
  /\ Bare \subseteq MainRepo /\ OnDefault \subseteq Linked
  /\ IsFiniteSet(Linked) /\ Linked \cap MainRepo = {}
  /\ Home \in [Linked -> MainRepo]
  /\ Found \in Seq(MainRepo \cup Linked)
  /\ Objects \in [MainRepo -> [loose : Nat, packable : Nat, packs : Nat, garbage : Nat]]
  /\ LooseLimit \in Nat /\ PackLimit \in Nat /\ MaxActs \in Nat
  /\ NoFact \notin BOOLEAN

Ref == {"local", "origin"}          \* the default branch, here and at the remote
Shown == {"tracked", "untracked"}   \* what `git status` can show

\* A linked worktree: is its directory there, is it locked, what is
\* uncommitted in it, is a branch checked out, which refs contain that branch,
\* how many stashes name it, and has a detached HEAD commits of its own.
Tree == [exists : BOOLEAN, locked : BOOLEAN, files : SUBSET Shown, branch : BOOLEAN,
         refs : SUBSET Ref, stashes : Nat, adrift : BOOLEAN]
ASSUME StandingAssumption == Standing \in [Linked -> SUBSET Tree]

Class == {"Main", "Locked", "Prunable", "Unknown", "Dirty", "Detached", "Unmerged", "MergedClean"}

VARIABLES tree,     \* tree[w]: what w really is
          unasked,  \* the checkouts not yet asked for their repository
          todo,     \* the repositories found and still to inspect, in order
          step,     \* the question the inspection of Head(todo) is at
          answers,  \* what git answered about the repository
          row,      \* row[w]: the facts gathered about worktree w so far
          report,   \* the standing of each repository inspected
          summary,  \* the totals over the standings counted so far
          held,     \* held[w]: w held unsaved work ever since its repository was listed
          moved,    \* moved[w]: what the user did in w since then
          acts      \* the user's steps so far

reportVars == <<tree, unasked, todo, step, answers, row, report, summary, held, moved, acts>>
inspection == <<unasked, todo, step, answers, row, report, summary>>

-----------------------------------------------------------------------------
(* The questions and the verdict. *)

Common(c) == IF c \in MainRepo THEN c ELSE Home[c]
Listed(seq) == {seq[i] : i \in DOMAIN seq}

\* Mutant: each checkout is taken for a repository of its own.
AddEachCheckout(c) == Append(todo, Common(c))

\* The main repository of a checkout is taken up once.
AddRepository(c) == IF Common(c) \in Listed(todo) THEN todo ELSE Append(todo, Common(c))

\* What git says of w in `git worktree list --porcelain`: a worktree that is
\* gone is prunable unless it is locked.
parse_worktree_porcelain(w) ==
  [branch |-> tree[w].branch, locked |-> tree[w].locked,
   prunable |-> ~tree[w].exists /\ ~tree[w].locked]

Unasked == [at |-> "exists", exists |-> FALSE, status |-> NoFact, merged |-> NoFact,
            left |-> {}, sure |-> TRUE]
Nothing == [listed |-> FALSE, list |-> <<>>, refs |-> {}, stash |-> NoFact, signals |-> {}, errors |-> 0]

gc_signals(c) ==
  {s \in {"garbage", "loose", "packable", "packs"} :
     CASE s = "garbage"  -> c.garbage > 0
       [] s = "loose"    -> c.loose > LooseLimit
       [] s = "packable" -> c.packable > 0
       [] s = "packs"    -> c.packs > PackLimit}

\* Stash subjects name the branch they were taken on.
count_stash_refs(w) ==
  IF answers.stash = NoFact THEN NoFact
  ELSE IF answers.list[w].branch THEN answers.stash[w] ELSE 0

\* The first check that fails decides; only the last one reclaims.
classify_worktree(w, status, merged) ==
  LET listed == answers.list[w]
      stashes == count_stash_refs(w)
  IN  IF listed.locked THEN "Locked"
      ELSE IF listed.prunable THEN "Prunable"
      ELSE IF ~row[w].exists \/ status = NoFact THEN "Unknown"
      ELSE IF status # {} THEN "Dirty"
      ELSE IF ~listed.branch THEN "Detached"
      ELSE IF answers.refs = {} \/ w \in OnDefault \/ merged = NoFact THEN "Unknown"
      ELSE IF merged = FALSE THEN "Unmerged"
      ELSE IF stashes = NoFact THEN "Unknown"
      ELSE IF stashes > 0 THEN "Dirty"
      ELSE "MergedClean"

is_reclaimable(class) == class \in {"Prunable", "MergedClean"}

\* What one standing adds to the totals, row by row.
NoSummary == [repos |-> 0, linked |-> 0, reclaimable |-> 0, signalled |-> 0,
              tally |-> [c \in Class |-> 0]]
Rows(s, classes) == {w \in DOMAIN s.rows : s.rows[w] \in classes}
summarize(total, s) ==
  [repos |-> total.repos + 1,
   linked |-> total.linked + Cardinality(Rows(s, Class \ {"Main"})),
   reclaimable |-> total.reclaimable + Cardinality({w \in DOMAIN s.rows : is_reclaimable(s.rows[w])}),
   signalled |-> total.signalled + (IF s.signals = {} THEN 0 ELSE 1),
   tally |-> [c \in Class |->
                total.tally[c] + (IF c = "Main" THEN 0 ELSE Cardinality(Rows(s, {c})))]]

-----------------------------------------------------------------------------
(* What would be lost with a worktree: changes, stashes of its branch, and   *)
(* commits that no default branch contains.                                  *)
HoldsWork(t) == \/ t.files # {}
                \/ t.stashes > 0
                \/ t.branch /\ t.refs = {}
                \/ ~t.branch /\ t.adrift

ReportInit ==
  /\ tree \in [Linked -> UNION {Standing[w] : w \in Linked}]
  /\ \A w \in Linked : tree[w] \in Standing[w]
  /\ unasked = Found /\ todo = <<>> /\ step = "discover"
  /\ answers = Nothing
  /\ row = [w \in Linked |-> Unasked]
  /\ report = <<>> /\ summary = NoSummary
  /\ held = [w \in Linked |-> FALSE] /\ moved = [w \in Linked |-> <<>>]
  /\ acts = 0

Current == Head(todo)
Inspecting(s) == step = s /\ todo # <<>>

\* `git rev-parse --git-common-dir` in one checkout after the other; one that
\* does not answer is skipped.
Discover ==
  /\ step = "discover" /\ unasked # <<>>
  /\ todo' = AddRepository(Head(unasked)) \/ todo' = todo
  /\ unasked' = Tail(unasked)
  /\ UNCHANGED <<tree, step, answers, row, report, summary, held, moved, acts>>

Discovered ==
  /\ step = "discover" /\ unasked = <<>>
  /\ step' = "list"
  /\ UNCHANGED <<tree, unasked, todo, answers, row, report, summary, held, moved, acts>>

\* `git worktree list --porcelain`, or no rows at all.
ListWorktrees ==
  /\ Inspecting("list")
  /\ LET linked == {w \in Linked : Home[w] = Current}
     IN  \/ answers' = [Nothing EXCEPT !.listed = TRUE,
                                      !.list = [w \in linked |-> parse_worktree_porcelain(w)]]
         \/ answers' = [Nothing EXCEPT !.errors = 1]
  /\ held' = [w \in Linked |-> Home[w] = Current /\ HoldsWork(tree[w])]
  /\ step' = "default"
  /\ UNCHANGED <<tree, unasked, todo, row, report, summary, moved, acts>>

\* The default branch and those of its two refs that exist; a query that fails
\* reads as a ref that does not.
ResolveDefaultBranch ==
  /\ Inspecting("default")
  /\ \E refs \in {Ref, {"local"}, {}} :
       answers' = [answers EXCEPT !.refs = refs,
                                  !.errors = @ + (IF refs = {} THEN 1 ELSE 0)]
  /\ step' = "stash"
  /\ UNCHANGED <<tree, unasked, todo, row, report, summary, held, moved, acts>>

\* `git stash list`, for the whole repository.
ListStashes ==
  /\ Inspecting("stash")
  /\ \/ answers' = [answers EXCEPT !.stash = [w \in Linked |-> tree[w].stashes]]
     \/ answers' = [answers EXCEPT !.errors = @ + 1]
  /\ step' = "objects"
  /\ UNCHANGED <<tree, unasked, todo, row, report, summary, held, moved, acts>>

\* `git count-objects -v`: no answer, or half of one, gives no signal.
CountObjects ==
  /\ Inspecting("objects")
  /\ \/ answers' = [answers EXCEPT !.signals = gc_signals(Objects[Current])]
     \/ answers' = [answers EXCEPT !.errors = @ + 1]
  /\ step' = "rows"
  /\ UNCHANGED <<tree, unasked, todo, row, report, summary, held, moved, acts>>

\* The rows are made in parallel: one worktree's question at a time.
Asks(w, at) == /\ Inspecting("rows") /\ w \in DOMAIN answers.list
               /\ row[w].at = at
               /\ UNCHANGED <<tree, unasked, todo, step, answers, report, summary, held, moved, acts>>

SeeDirectory(w) ==
  /\ Asks(w, "exists")
  /\ row' = [row EXCEPT ![w].exists = tree[w].exists, ![w].at = "status"]

\* `git status` in the worktree, unless it is gone or prunable.
\* The refs to compare with are known by then.
AskStatus(w) ==
  /\ Asks(w, "status")
  /\ \E status \in {NoFact} \cup
         (IF row[w].exists /\ ~answers.list[w].prunable /\ tree[w].exists
          THEN {tree[w].files} ELSE {}) :
       row' = [row EXCEPT ![w].status = status, ![w].at = "merged",
                          ![w].left = IF answers.list[w].branch THEN answers.refs ELSE {}]

\* `git merge-base --is-ancestor`, once for each ref until one says yes, the
\* local one first.
AskMerged(w) ==
  /\ Asks(w, "merged") /\ row[w].left # {}
  /\ LET r == IF "local" \in row[w].left THEN "local" ELSE "origin"
     IN  \/ /\ r \in tree[w].refs
            /\ row' = [row EXCEPT ![w].merged = TRUE, ![w].left = {}]
         \/ /\ r \notin tree[w].refs
            /\ row' = [row EXCEPT ![w].left = @ \ {r}]
         \/ row' = [row EXCEPT ![w].left = @ \ {r}, ![w].sure = FALSE]

\* Mutant: a merge check that failed counts as merged.
MergedIfUnsure(w) == row[w].merged = TRUE \/ ~row[w].sure

\* The facts become a verdict.
merged_into(w) == IF row[w].merged = TRUE THEN TRUE
                  ELSE IF ~row[w].sure \/ answers.refs = {} \/ ~answers.list[w].branch
                  THEN NoFact ELSE FALSE

Classify(w) ==
  /\ Asks(w, "merged") /\ row[w].left = {}
  /\ row' = [row EXCEPT ![w].at = classify_worktree(w, row[w].status, merged_into(w))]

\* The inspection goes on to the next repository.
NextRepository ==
  /\ todo' = Tail(todo) /\ step' = "list"
  /\ answers' = Nothing /\ row' = [w \in Linked |-> Unasked]
  /\ held' = [w \in Linked |-> FALSE] /\ moved' = [w \in Linked |-> <<>>]
  /\ UNCHANGED <<tree, unasked, summary, acts>>

\* Mutant: the standing is closed while rows are being made.
FinishEarly ==
  /\ Inspecting("rows")
  /\ report' = Append(report,
       [repo |-> Current, signals |-> answers.signals, errors |-> answers.errors,
        rows |-> [w \in DOMAIN answers.list |-> row[w].at]])
  /\ NextRepository

\* All rows are there: the repository's standing joins the report.
FinishRepository ==
  /\ Inspecting("rows")
  /\ \A w \in DOMAIN answers.list : row[w].at \in Class
  /\ report' = Append(report,
       [repo |-> Current, signals |-> answers.signals, errors |-> answers.errors,
        rows |-> [w \in (DOMAIN answers.list) \cup
                        (IF answers.listed /\ Current \notin Bare THEN {Current} ELSE {})
                    |-> IF w \in MainRepo THEN "Main" ELSE row[w].at]])
  /\ NextRepository

\* When all repositories are inspected their standings are added up, one by one.
Summarize ==
  /\ step = "list" /\ todo = <<>> /\ summary.repos < Len(report)
  /\ summary' = summarize(summary, report[summary.repos + 1])
  /\ UNCHANGED <<tree, unasked, todo, step, answers, row, report, held, moved, acts>>

-----------------------------------------------------------------------------
(* The user at work, in the worktrees of the repository being inspected: a   *)
(* change made before its worktrees are listed is another initial state.     *)

Works(w, name, after) ==
  /\ step \notin {"discover", "list"} /\ Home[w] = Current /\ acts < MaxActs
  /\ tree[w].exists
  /\ tree' = [tree EXCEPT ![w] = after]
  /\ held' = [held EXCEPT ![w] = @ /\ HoldsWork(after)]
  /\ moved' = [moved EXCEPT ![w] = Append(@, name)]
  /\ acts' = acts + 1
  /\ UNCHANGED inspection

Edit(w) == \E f \in Shown \ tree[w].files :
             Works(w, "edit", [tree[w] EXCEPT !.files = @ \cup {f}])

Commit(w) == /\ tree[w].files # {}
             /\ Works(w, "commit", [tree[w] EXCEPT !.files = {},
                            !.refs = IF ~tree[w].branch THEN @
                                     ELSE IF w \in OnDefault THEN {"local"} ELSE {},
                            !.adrift = @ \/ ~tree[w].branch])

Stash(w) == /\ "tracked" \in tree[w].files /\ tree[w].branch
            /\ Works(w, "stash", [tree[w] EXCEPT !.files = @ \ {"tracked"}, !.stashes = @ + 1])

Pop(w) == /\ tree[w].stashes > 0 /\ tree[w].branch
          /\ Works(w, "pop", [tree[w] EXCEPT !.files = @ \cup {"tracked"}, !.stashes = @ - 1])

Merge(w) == \E r \in Ref \ tree[w].refs :
              Works(w, "merge", [tree[w] EXCEPT !.refs = @ \cup {r}])

Detach(w) == /\ tree[w].branch
             /\ Works(w, "detach", [tree[w] EXCEPT !.branch = FALSE])

Lock(w) == Works(w, "lock", [tree[w] EXCEPT !.locked = ~@])

RemoveTree(w) == Works(w, "remove", [tree[w] EXCEPT !.exists = FALSE, !.files = {}])

User(w) == \/ Edit(w) \/ Commit(w) \/ Stash(w) \/ Pop(w)
           \/ Merge(w) \/ Detach(w) \/ Lock(w) \/ RemoveTree(w)

ReportNext ==
  \/ Discover \/ Discovered
  \/ ListWorktrees \/ ResolveDefaultBranch \/ ListStashes \/ CountObjects
  \/ \E w \in Linked : SeeDirectory(w) \/ AskStatus(w) \/ AskMerged(w) \/ Classify(w)
  \/ FinishRepository
  \/ Summarize
  \/ \E w \in Linked : User(w)

ReportSpec == ReportInit /\ [][ReportNext]_reportVars

-----------------------------------------------------------------------------
(* Properties. *)

Lists == UNION {[S -> [branch : BOOLEAN, locked : BOOLEAN, prunable : BOOLEAN]] : S \in SUBSET Linked}
Signals == SUBSET {"garbage", "loose", "packable", "packs"}
Answers == [listed : BOOLEAN, list : Lists, refs : SUBSET Ref,
            stash : {NoFact} \cup [Linked -> Nat], signals : Signals, errors : Nat]
Facts == [at : {"exists", "status", "merged"} \cup Class, exists : BOOLEAN,
          status : {NoFact} \cup SUBSET Shown, merged : {NoFact, TRUE},
          left : SUBSET Ref, sure : BOOLEAN]
ReportTypeOK ==
  /\ tree \in [Linked -> Tree]
  /\ unasked \in Seq(MainRepo \cup Linked) /\ todo \in Seq(MainRepo)
  /\ step \in {"discover", "list", "default", "stash", "objects", "rows"}
  /\ answers \in Answers
  /\ row \in [Linked -> Facts]
  /\ held \in [Linked -> BOOLEAN]
  /\ \A i \in DOMAIN report : /\ report[i].repo \in MainRepo
                             /\ \A w \in DOMAIN report[i].rows : report[i].rows[w] \in Class
  /\ acts \in 0 .. MaxActs

\* The questions are asked one after another while the user works.  Their order
\* is such that a worktree which held unsaved work all the time is not called
\* merged and clean unless the user did at least two things in it meanwhile, or
\* stashed (the stashes are listed before the status is asked): a commit made
\* after the listing turns a dirty tree into an unmerged branch, and a branch
\* is asked about after its tree.
OneStepIsSeen ==
  \A w \in Linked :
    row[w].at = "MergedClean" /\ held[w] => Len(moved[w]) > 1 \/ moved[w] = <<"stash">>

\* However many checkouts of a repository lie below the roots, and whichever of
\* them answer, it is reported once; the totals of the standings counted so far
\* (in the end, of all) count each linked worktree of the rows in one class,
\* never a main one, and call reclaimable exactly the two reclaimable classes.
TotalsAgree ==
  LET tally == summary.tally
      counted == UNION {DOMAIN report[i].rows : i \in 1 .. summary.repos}
  IN  /\ \A i, j \in DOMAIN report : report[i].repo = report[j].repo => i = j
      /\ summary.repos <= Len(report)
      /\ summary.linked = Cardinality(counted \cap Linked)
      /\ summary.linked = tally["Locked"] + tally["Prunable"] + tally["Unknown"]
                          + tally["Dirty"] + tally["Detached"] + tally["Unmerged"]
                          + tally["MergedClean"]
      /\ summary.reclaimable = tally["Prunable"] + tally["MergedClean"]
      /\ tally["Main"] = 0
=============================================================================

-------------------------- MODULE RepositoryProofs --------------------------
(***************************************************************************)
(* Proofs about the two components that look at git repositories:          *)
(* GithubCleanup (resources on the hosting service, whose specification is *)
(* Spec) and Worktrees (the standing report, ReportSpec).  They hold for   *)
(* any repositories, parts and worktrees, any number of deletions at once  *)
(* and any number of steps of other people meanwhile.                      *)
(***************************************************************************)
EXTENDS GithubCleanup, Worktrees, FiniteSetTheorems, SequenceTheorems, TLAPS


-----------------------------------------------------------------------------
(* The scan is a walk over repositories and, in each, over what is left of *)
(* Kinds.                                                                  *)
Suffixes ==
    {Kinds, <<"branch", "release", "cache", "issue", "pr">>, <<"release", "cache", "issue", "pr">>,
     <<"cache", "issue", "pr">>, <<"issue", "pr">>, <<"pr">>, <<>>}
Listings == Repo \X State \X Part
ScanType ==
    [at : {"idle", "repos", "parts", "branches", "over"}, listed : SUBSET Listings,
     repo : Repo \cup {"none"}, main : Part \cup {LocalItem}, kinds : Suffixes,
     branches : SUBSET Part, items : SUBSET Thing]
Result == [of : Item, status : Status, freed : BOOLEAN]
RunType == [at : {"ready", "items", "ended", "lost"}, left : SUBSET Item, results : SUBSET Result]

Types ==
    /\ remote \in [Thing -> State] /\ default \in [Repo -> Part]
    /\ scan \in ScanType
    /\ plan \in [file : BOOLEAN, items : SUBSET Item]
    /\ run \in [Deleter -> RunType]
    /\ changes \in 0 .. MaxChanges /\ took \in [Deleter -> SUBSET Thing] /\ touched \subseteq Thing

(* What a stage of the scan, or of a deletion, holds.                      *)
Stages ==
    /\ scan.at \in {"parts", "branches"} <=> scan.repo # "none"
    /\ scan.branches # {} => scan.at = "branches"
    /\ scan.at = "parts" => scan.kinds # <<>>
    /\ \A d \in Deleter : run[d].left # {} => run[d].at = "items"

TInv == Types /\ Stages

LEMMA PlansTyped ==
    ASSUME NEW S \in SUBSET Item, NEW there \in BOOLEAN
    PROVE  [file |-> there, items |-> S] \in [file : BOOLEAN, items : SUBSET Item]
OBVIOUS

LEMMA KindsGo ==
    ASSUME NEW k \in Suffixes, k # <<>>
    PROVE  /\ Tail(k) \in Suffixes
           /\ \A i \in DOMAIN Tail(k) : Tail(k)[i] = "release" => Head(k) # "release"
           /\ \A i \in DOMAIN Tail(k) : Tail(k)[i] = "release" => \E j \in DOMAIN k : k[j] = "release"
           /\ Head(k) \in {"run", "branch", "release", "cache", "issue", "pr"}
           /\ Head(k) = "release" => \E j \in DOMAIN k : k[j] = "release"
<1> USE DEF Suffixes, Kinds
<1>1. CASE k = Kinds
  BY <1>1
<1>2. CASE k = <<"branch", "release", "cache", "issue", "pr">>
  BY <1>2
<1>3. CASE k = <<"release", "cache", "issue", "pr">>
  BY <1>3
<1>4. CASE k = <<"cache", "issue", "pr">>
  BY <1>4
<1>5. CASE k = <<"issue", "pr">>
  BY <1>5
<1>6. CASE k = <<"pr">>
  BY <1>6
<1> QED BY <1>1, <1>2, <1>3, <1>4, <1>5, <1>6

LEMMA RecordsTyped ==
    /\ NoScan \in ScanType /\ NoRun \in RunType
    /\ NoScan.at = "idle" /\ NoScan.listed = {} /\ NoScan.repo = "none" /\ NoScan.main = LocalItem
    /\ NoScan.kinds = <<>> /\ NoScan.branches = {} /\ NoScan.items = {}
    /\ NoRun.at = "ready" /\ NoRun.left = {} /\ NoRun.results = {}
BY DEF NoScan, ScanType, Suffixes, NoRun, RunType

LEMMA PartsAreParts ==
    /\ \A k, r : There(k, r) \subseteq Part
    /\ \A k, r : StaleParts(k, r) \subseteq Part
    /\ \A t : PartsOf(t) \subseteq Part
    /\ \A t \in Thing : t \in Removes(t) /\ Removes(t) \subseteq Thing
    /\ \A p \in Part : KindOf[p] \in PartKind /\ Of[p] \in Thing /\ Kind(p) = KindOf[p]
    /\ \A r \in Repo : Kind(r) = "repo"
    /\ Part \subseteq Thing /\ Repo \subseteq Thing /\ Thing \subseteq Item
BY GithubAssumption DEF There, StaleParts, PartsOf, Removes, Thing, Kind, Item

LEMMA WithoutTyped ==
    ASSUME remote \in [Thing -> State], NEW t \in Thing
    PROVE  /\ Without(t) \in [Thing -> State]
           /\ \A x \in Thing :
                /\ x \notin Removes(t) => Without(t)[x] = remote[x]
                /\ Without(t)[x].there => remote[x].there
                /\ x \in Removes(t) /\ Kind(t) \notin {"issue", "pr"} =>
                      Without(t)[x] = [remote[x] EXCEPT !.there = FALSE]
                /\ x \in Removes(t) /\ Kind(t) \in {"issue", "pr"} =>
                      Without(t)[x] = [remote[x] EXCEPT !.due = FALSE]
BY DEF Without, State

-----------------------------------------------------------------------------
LEMMA InitTypes == Init => TInv
<1> SUFFICES ASSUME Init PROVE TInv
  OBVIOUS
<1>1. remote \in [Thing -> State] /\ default \in [Repo -> Part]
  BY GithubAssumption DEF Init
<1>3. plan \in [file : BOOLEAN, items : SUBSET Item]
  <2>1. {LocalItem} \in SUBSET Item /\ {} \in SUBSET Item
    BY DEF Item
  <2>2. plan = [file |-> FALSE, items |-> {}] \/ plan = [file |-> TRUE, items |-> {LocalItem}]
    BY DEF Init
  <2> QED BY <2>1, <2>2, PlansTyped
<1>4. run \in [Deleter -> RunType] /\ took \in [Deleter -> SUBSET Thing]
  BY RecordsTyped DEF Init
<1>5. changes \in 0 .. MaxChanges /\ touched \subseteq Thing /\ scan \in ScanType
  BY GithubAssumption, RecordsTyped DEF Init
<1>2. Stages
  BY RecordsTyped DEF Init, Stages
<1> QED BY <1>1, <1>2, <1>3, <1>4, <1>5 DEF TInv, Types

(* What each step of the plan makes of the scan.                           *)
LEMMA PlanKeepsTypes ==
    ASSUME TInv, Plan
    PROVE  TInv'
<1> USE DEF TInv, Types
<1>0. UNCHANGED <<remote, default, run, changes, took, touched>>
  BY DEF Plan, Rest, ListRepositories, ExamineRepository, ListParts, ListBranches, CompareBranch, WritePlan
<1>s. SUFFICES /\ scan' \in ScanType /\ plan' \in [file : BOOLEAN, items : SUBSET Item]
               /\ scan'.at \in {"parts", "branches"} <=> scan'.repo # "none"
               /\ scan'.branches # {} => scan'.at = "branches"
               /\ scan'.at = "parts" => scan'.kinds # <<>>
  BY <1>0 DEF Stages
<1>k. ASSUME NEW s \in ScanType, s.branches = {}, s.repo # "none"
      PROVE  /\ NextKind(s) \in ScanType
             /\ NextKind(s).at \in {"parts", "branches"} <=> NextKind(s).repo # "none"
             /\ NextKind(s).branches = {}
             /\ NextKind(s).at = "parts" => NextKind(s).kinds # <<>>
  BY <1>k DEF NextKind, ScanType
<1>1. CASE ListRepositories
  <2> DEFINE L == {<<r, remote[r], default[r]>> : r \in {x \in Repo : remote[x].there}}
  <2>1. L \subseteq Listings
    BY PartsAreParts DEF Listings
  <2> HIDE DEF L
  <2>2. scan' \in {[NoScan EXCEPT !.at = "repos", !.main = LocalItem, !.listed = L],
                   [NoScan EXCEPT !.at = "repos"]}
    BY <1>1 DEF ListRepositories, L
  <2> QED BY <1>1, <2>1, <2>2 DEF ListRepositories, NoScan, ScanType, Suffixes
<1>2. CASE ExamineRepository
  <2>1. PICK e \in scan.listed :
           IF Stale("repo", e[2])
           THEN scan' = [scan EXCEPT !.listed = @ \ {e}, !.items = @ \cup {e[1]}]
           ELSE scan' = [scan EXCEPT !.listed = @ \ {e}, !.at = "parts", !.repo = e[1],
                                     !.main = e[3], !.kinds = Kinds]
    BY <1>2 DEF ExamineRepository
  <2>2. e[1] \in Repo /\ e[1] \in Thing /\ e[3] \in Part /\ e[1] # "none"
    BY GithubAssumption, PartsAreParts DEF ScanType, Listings
  <2>3. Kinds \in Suffixes /\ Kinds # <<>>
    BY DEF Suffixes, Kinds
  <2>4. scan.repo = "none" /\ scan.branches = {} /\ scan.at = "repos"
    BY <1>2 DEF ExamineRepository, Stages
  <2> DEFINE L == scan.listed \ {e}
             I == scan.items \cup {e[1]}
  <2>7. L \in SUBSET Listings /\ I \in SUBSET Thing
    BY <2>2 DEF ScanType
  <2> HIDE DEF L, I
  <2>5. CASE Stale("repo", e[2])
    <3>1. scan' = [scan EXCEPT !.listed = L, !.items = I]
      BY <2>1, <2>5 DEF L, I
    <3>2. /\ scan' \in ScanType
          /\ scan'.at = scan.at /\ scan'.repo = scan.repo /\ scan'.branches = scan.branches
      BY <2>7, <3>1 DEF ScanType
    <3> QED BY <1>2, <2>4, <3>2 DEF ExamineRepository
  <2>6. CASE ~Stale("repo", e[2])
    <3>1. scan' = [scan EXCEPT !.listed = L, !.at = "parts", !.repo = e[1],
                               !.main = e[3], !.kinds = Kinds]
      BY <2>1, <2>6 DEF L
    <3>2. /\ scan' \in ScanType /\ scan'.at = "parts" /\ scan'.repo = e[1]
          /\ scan'.kinds = Kinds /\ scan'.branches = scan.branches
      BY <2>2, <2>3, <2>7, <3>1 DEF ScanType
    <3> QED BY <1>2, <2>2, <2>3, <2>4, <3>2 DEF ExamineRepository
  <2> QED BY <2>5, <2>6
<1>3. CASE ListParts
  <2>1. PICK found \in {{}, StaleParts(Head(scan.kinds), scan.repo)} :
           scan' = NextKind([scan EXCEPT !.kinds = Tail(@), !.items = @ \cup found])
    BY <1>3 DEF ListParts
  <2> DEFINE s == [scan EXCEPT !.kinds = Tail(@), !.items = @ \cup found]
  <2>2. found \subseteq Thing
    BY PartsAreParts
  <2>3. scan.kinds \in Suffixes /\ scan.kinds # <<>> /\ scan.branches = {} /\ scan.repo # "none"
    BY <1>3 DEF ListParts, Stages, ScanType
  <2>4. s \in ScanType /\ s.branches = {} /\ s.repo # "none"
    BY <2>2, <2>3, KindsGo DEF ScanType
  <2> HIDE DEF s
  <2> QED BY <1>3, <1>k, <2>1, <2>4 DEF ListParts, s
<1>4. CASE ListBranches
  <2>1. PICK found \in {{}, {b \in There("branch", scan.repo) : ~remote[b].held} \ {scan.main}} :
           scan' = [scan EXCEPT !.kinds = Tail(@), !.branches = found, !.at = "branches"]
    BY <1>4 DEF ListBranches
  <2>2. found \subseteq Part
    BY PartsAreParts
  <2>3. scan.kinds \in Suffixes /\ scan.kinds # <<>> /\ scan.repo # "none"
    BY <1>4 DEF ListBranches, Stages, ScanType
  <2> QED BY <1>4, <2>1, <2>2, <2>3, KindsGo DEF ListBranches, ScanType
<1>5. CASE CompareBranch
  <2>1. scan.repo # "none" /\ scan.at = "branches"
    BY <1>5 DEF CompareBranch, Stages
  <2>2. CASE scan.branches = {}
    BY <1>5, <1>k, <2>1, <2>2 DEF CompareBranch
  <2>3. CASE scan.branches # {}
    <3>1. PICK b \in scan.branches : \E found \in SUBSET {b} :
             scan' = [scan EXCEPT !.branches = @ \ {b}, !.items = @ \cup found]
      BY <1>5, <2>3 DEF CompareBranch
    <3>2. b \in Thing
      BY PartsAreParts DEF ScanType
    <3>3. PICK found \in SUBSET {b} : scan' = [scan EXCEPT !.branches = @ \ {b}, !.items = @ \cup found]
      BY <3>1
    <3>4. scan' \in ScanType
      BY <3>2, <3>3 DEF ScanType
    <3>5. scan'.at = scan.at /\ scan'.repo = scan.repo
      BY <3>3 DEF ScanType
    <3> QED BY <1>5, <2>1, <3>4, <3>5 DEF CompareBranch
  <2> QED BY <2>2, <2>3
<1>6. CASE WritePlan
  <2>1. scan' = [NoScan EXCEPT !.at = "over"]
    BY <1>6 DEF WritePlan
  <2>2. scan' \in ScanType /\ scan'.at = "over" /\ scan'.repo = "none" /\ scan'.branches = {}
    BY <2>1 DEF NoScan, ScanType, Suffixes
  <2>3. plan' \in [file : BOOLEAN, items : SUBSET Item]
    <3>1. scan.items \in SUBSET Item /\ {} \in SUBSET Item
      BY PartsAreParts DEF ScanType
    <3>2. \/ plan' = [file |-> TRUE, items |-> scan.items]
          \/ plan' = [file |-> FALSE, items |-> {}]
      BY <1>6 DEF WritePlan
    <3> QED BY <3>1, <3>2, PlansTyped
  <2> QED BY <2>2, <2>3
<1> QED BY <1>1, <1>2, <1>3, <1>4, <1>5, <1>6 DEF Plan

(* A result is added, and its item is done.                                *)
LEMMA ReportIs ==
    ASSUME Types, NEW d \in Deleter, NEW t \in Item, NEW status \in Status, NEW bytes \in BOOLEAN,
           Report(d, t, status, bytes)
    PROVE  /\ run' \in [Deleter -> RunType] /\ run'[d].at = run[d].at
           /\ run'[d].left = run[d].left \ {t}
           /\ run'[d].results = run[d].results \cup {[of |-> t, status |-> status, freed |-> bytes]}
           /\ \A e \in Deleter \ {d} : run'[e] = run[e]
<1>1. [of |-> t, status |-> status, freed |-> bytes] \in Result
  BY DEF Result
<1> QED BY <1>1 DEF Report, Types, RunType

LEMMA ExecuteKeepsTypes ==
    ASSUME TInv, NEW d \in Deleter, Execute(d)
    PROVE  TInv'
<1> USE DEF TInv
<1>1. CASE Load(d)
  BY <1>1, RecordsTyped DEF Load, Still, Types, RunType, NoRun, Stages
<1>2. CASE PassOver(d)
  <2>1. PICK t \in Item, status \in Status : Report(d, t, status, FALSE)
    BY <1>2 DEF PassOver, Types, RunType, Status
  <2>2. /\ run' \in [Deleter -> RunType] /\ run'[d].at = "items"
        /\ \A e \in Deleter \ {d} : run'[e] = run[e]
    BY <1>2, <2>1, ReportIs DEF PassOver
  <2> QED BY <1>2, <2>2 DEF PassOver, Still, Types, Stages
<1>3. CASE Delete(d)
  <2>1. PICK t \in Thing, status \in Status :
           /\ Answered(d, t, status)
           /\ \/ UNCHANGED <<remote, took>>
              \/ /\ remote' = Without(t)
                 /\ took' = [took EXCEPT ![d] = @ \cup {x \in Removes(t) : remote[x].there}]
    BY <1>3 DEF Delete, ErrorStatus, Status
  <2>2. Report(d, t, status, status = "Deleted" /\ Sized(t)) /\ (status = "Deleted" /\ Sized(t)) \in BOOLEAN
    BY <2>1 DEF Answered, Sized
  <2>3. /\ run' \in [Deleter -> RunType] /\ run'[d].at = "items"
        /\ \A e \in Deleter \ {d} : run'[e] = run[e]
    BY <1>3, <2>2, ReportIs, PartsAreParts DEF Delete
  <2>4. remote' \in [Thing -> State] /\ took' \in [Deleter -> SUBSET Thing]
    BY <2>1, WithoutTyped, PartsAreParts DEF Types
  <2> QED BY <1>3, <2>3, <2>4 DEF Delete, Still, Types, Stages
<1>4. CASE WriteReceipt(d)
  <2>1. PICK l \in {"ended", "lost"} :
           run' = [run EXCEPT ![d].at = l, ![d].results = IF l = "ended" THEN @ ELSE {}]
    BY <1>4 DEF WriteReceipt
  <2> DEFINE c == [run[d] EXCEPT !.at = l, !.results = IF l = "ended" THEN @ ELSE {}]
  <2>3. c \in RunType /\ c.left = {}
    BY <1>4 DEF WriteReceipt, Types, RunType
  <2>4. run' = [run EXCEPT ![d] = c]
    BY <2>1
  <2> HIDE DEF c
  <2>2. /\ run' \in [Deleter -> RunType] /\ run'[d].left = {}
        /\ \A e \in Deleter \ {d} : run'[e] = run[e]
    BY <2>3, <2>4 DEF Types
  <2> QED BY <1>4, <2>2 DEF WriteReceipt, Still, Types, Stages
<1>5. CASE Kill(d)
  BY <1>5, RecordsTyped DEF Kill, Still, Types, RunType, NoRun, Stages
<1> QED BY <1>1, <1>2, <1>3, <1>4, <1>5 DEF Execute

LEMMA OthersKeepTypes ==
    ASSUME TInv, Change \/ SwitchDefault \/ UNCHANGED vars
    PROVE  TInv'
<1> USE DEF TInv
<1>1. CASE Change
  <2>1. PICK t \in Thing :
           \/ remote' \in {[remote EXCEPT ![t].old = FALSE, ![t].due = FALSE],
                           [remote EXCEPT ![t].old = TRUE, ![t].due = TRUE],
                           [remote EXCEPT ![t].held = TRUE]} /\ touched' = touched \cup {t}
           \/ remote' = Without(t) /\ touched' = touched \cup Removes(t)
           \/ remote' = [remote EXCEPT ![t] = Fresh] /\ touched' = touched \cup {t}
    BY <1>1 DEF Change
  <2>2. remote' \in [Thing -> State] /\ touched' \subseteq Thing
    <3>1. Fresh \in State /\ remote \in [Thing -> State]
      BY DEF Fresh, State, Types
    <3>2. remote[t] \in State /\ t \in Thing
      BY <3>1
    <3>3. remote' \in [Thing -> State]
      <4>1. CASE remote' \in {[remote EXCEPT ![t].old = FALSE, ![t].due = FALSE],
                               [remote EXCEPT ![t].old = TRUE, ![t].due = TRUE],
                               [remote EXCEPT ![t].held = TRUE]}
        <5>1. PICK s \in {[remote[t] EXCEPT !.old = FALSE, !.due = FALSE],
                          [remote[t] EXCEPT !.old = TRUE, !.due = TRUE],
                          [remote[t] EXCEPT !.held = TRUE]} : remote' = [remote EXCEPT ![t] = s]
          BY <4>1
        <5>2. s \in State
          BY <3>2 DEF State
        <5> QED BY <3>1, <5>1, <5>2
      <4>2. CASE remote' = Without(t) \/ remote' = [remote EXCEPT ![t] = Fresh]
        BY <3>1, <4>2, WithoutTyped
      <4> QED BY <2>1, <4>1, <4>2
    <3>4. touched' \subseteq Thing
      BY <2>1, PartsAreParts DEF Types
    <3> QED BY <3>3, <3>4
  <2>3. changes' \in 0 .. MaxChanges
    BY <1>1, GithubAssumption DEF Change, Types
  <2> QED BY <1>1, <2>2, <2>3 DEF Change, Types, Stages
<1>2. CASE SwitchDefault
  <2>1. changes' \in 0 .. MaxChanges
    BY <1>2, GithubAssumption DEF SwitchDefault, Types
  <2>2. default' \in [Repo -> Part] /\ touched' \subseteq Thing
    BY <1>2, PartsAreParts DEF SwitchDefault, Types
  <2> QED BY <1>2, <2>1, <2>2 DEF SwitchDefault, Types, Stages
<1>3. CASE UNCHANGED vars
  BY <1>3 DEF vars, Types, Stages
<1> QED BY <1>1, <1>2, <1>3

LEMMA NextKeepsTypes ==
    ASSUME TInv, [Next]_vars
    PROVE  TInv'
BY PlanKeepsTypes, ExecuteKeepsTypes, OthersKeepTypes DEF Next

(* Type correctness of the plan, the deletions and GitHub.                 *)
THEOREM TypeCorrect == Spec => []TypeOK
<1>1. TInv => TypeOK
  BY DEF TInv, Types, Stages, ScanType, RunType, Result, TypeOK
<1> QED BY <1>1, InitTypes, NextKeepsTypes, PTL DEF Spec

-----------------------------------------------------------------------------
(* What nobody else changed and no run of ours removed is as it was; and a *)
(* thing never loses that somebody touched it.                             *)
LEMMA UntouchedStays ==
    ASSUME TInv, [Next]_vars
    PROVE  /\ touched \subseteq touched' /\ \A d \in Deleter : took[d] \subseteq took'[d]
           /\ \A t \in Thing : Untouched(t)' => Untouched(t) /\ remote'[t] = remote[t]
           /\ \A r \in Repo : r \notin touched' => default'[r] = default[r]
<1> USE DEF TInv, Types
<1>1. CASE UNCHANGED <<remote, default, took, touched>>
  BY <1>1 DEF Untouched
<1>2. ASSUME NEW d \in Deleter, Delete(d)
      PROVE  /\ touched \subseteq touched' /\ \A e \in Deleter : took[e] \subseteq took'[e]
             /\ \A t \in Thing : Untouched(t)' => Untouched(t) /\ remote'[t] = remote[t]
             /\ \A r \in Repo : r \notin touched' => default'[r] = default[r]
  <2>1. UNCHANGED <<touched, default>>
    BY <1>2 DEF Delete, Still
  <2>2. CASE UNCHANGED <<remote, took>>
    BY <2>1, <2>2, <1>1
  <2>3. CASE ~UNCHANGED <<remote, took>>
    <3>1. PICK t \in Thing :
             /\ remote[t].there /\ remote' = Without(t)
             /\ took' = [took EXCEPT ![d] = @ \cup {x \in Removes(t) : remote[x].there}]
      BY <1>2, <2>3 DEF Delete, Deletable
    <3>2. \A e \in Deleter : took[e] \subseteq took'[e]
      BY <3>1
    <3>3. ASSUME NEW x \in Thing, Untouched(x)' PROVE remote'[x] = remote[x]
      <4>1. x \notin Removes(t) \/ ~remote[x].there
        BY <3>1, <3>3 DEF Untouched
      <4>2. CASE x \notin Removes(t)
        BY <3>1, <4>2, WithoutTyped
      <4>3. CASE x \in Removes(t) /\ ~remote[x].there
        <5>1. Kind(t) \notin {"issue", "pr"}
          BY <3>1, <4>3 DEF Removes
        <5>2. remote'[x] = [remote[x] EXCEPT !.there = FALSE] /\ remote[x] \in State
          BY <3>1, <4>3, <5>1, WithoutTyped
        <5> QED BY <4>3, <5>2 DEF State
      <4> QED BY <4>1, <4>2, <4>3
    <3> QED BY <2>1, <3>2, <3>3 DEF Untouched
  <2> QED BY <2>2, <2>3
<1>3. CASE Change
  <2>1. PICK t \in Thing :
           \/ touched' = touched \cup {t} /\ \E s : remote' = [remote EXCEPT ![t] = s]
           \/ remote' = Without(t) /\ touched' = touched \cup Removes(t)
    BY <1>3 DEF Change
  <2>2. UNCHANGED <<took, default>>
    BY <1>3 DEF Change
  <2>3. \A x \in Thing : x \notin touched' => remote'[x] = remote[x]
    <3>1. CASE remote' = Without(t) /\ touched' = touched \cup Removes(t)
      BY <3>1, WithoutTyped
    <3>2. CASE touched' = touched \cup {t} /\ \E s : remote' = [remote EXCEPT ![t] = s]
      BY <3>2
    <3> QED BY <2>1, <3>1, <3>2
  <2> QED BY <2>1, <2>2, <2>3 DEF Untouched
<1>4. CASE SwitchDefault
  BY <1>4 DEF SwitchDefault, Untouched
<1>5. UNCHANGED <<remote, default, took, touched>> \/ (\E d \in Deleter : Delete(d)) \/ Change \/ SwitchDefault
  BY DEF Next, Plan, Rest, ListRepositories, ExamineRepository, ListParts, ListBranches, CompareBranch,
         WritePlan, Execute, Load, PassOver, WriteReceipt, Kill, Still, vars
<1> QED BY <1>1, <1>2, <1>3, <1>4, <1>5

(* What a plan, or the collection it will be, holds is stale, and protected *)
(* by no rule; and it holds nothing together with what contains it.         *)
Justified(S) ==
    \A t \in S \cap Thing : Untouched(t) =>
        /\ Stale(Kind(t), remote[t])
        /\ Kind(t) = "branch" => ~remote[t].held /\ (Of[t] \notin touched => default[Of[t]] # t)
Separate(S) ==
    \A p \in S \cap Part : Of[p] \notin S /\ (Of[p] \in Part => Of[Of[p]] \notin S)

(* What the scan has read still holds of what nobody touched since.         *)
ListingHolds ==
    /\ \A e \in scan.listed : /\ Untouched(e[1]) => remote[e[1]] = e[2]
                              /\ e[1] \notin touched => default[e[1]] = e[3]
    /\ scan.repo \in Repo /\ scan.repo \notin touched => default[scan.repo] = scan.main
    /\ \A b \in scan.branches : /\ KindOf[b] = "branch" /\ Of[b] = scan.repo /\ b # scan.main
                                /\ Untouched(b) => ~remote[b].held

(* The scan takes the repositories one after another, each once, and its    *)
(* releases once: of a repository it has not finished it has collected      *)
(* parts only, of one it has not begun nothing.                             *)
RepoOf(p) == IF KindOf[p] = "asset" THEN Of[Of[p]] ELSE Of[p]
Ahead == {e[1] : e \in scan.listed}
ReleasesAhead == \E i \in DOMAIN scan.kinds : scan.kinds[i] = "release"
InOrder ==
    /\ \A e, f \in scan.listed : e[1] = f[1] => e = f
    /\ scan.repo \notin Ahead
    /\ \A r \in scan.items \cap Repo : r \notin Ahead /\ r # scan.repo
    /\ \A p \in scan.items \cap Part :
          /\ RepoOf(p) \notin Ahead
          /\ RepoOf(p) = scan.repo /\ ReleasesAhead => KindOf[p] \notin {"release", "asset"}

Careful ==
    /\ ListingHolds /\ InOrder
    /\ Justified(scan.items) /\ Separate(scan.items)
    /\ Justified(plan.items) /\ Separate(plan.items)

GInv == TInv /\ Careful

(* What was justified stays so until it is touched. *)
LEMMA JustifiedStays ==
    ASSUME TInv, [Next]_vars, NEW S, Justified(S)
    PROVE  Justified(S)'
<1> SUFFICES ASSUME NEW t \in S \cap Thing, Untouched(t)'
             PROVE  /\ Stale(Kind(t), remote'[t])
                    /\ Kind(t) = "branch" =>
                          ~remote'[t].held /\ (Of[t] \notin touched' => default'[Of[t]] # t)
  BY DEF Justified
<1>1. Untouched(t) /\ remote'[t] = remote[t]
  BY UntouchedStays
<1>2. Kind(t) = "branch" => Of[t] \in Repo
  BY GithubAssumption DEF Kind, Thing
<1>3. Kind(t) = "branch" /\ Of[t] \notin touched' => Of[t] \notin touched /\ default'[Of[t]] = default[Of[t]]
  BY <1>2, UntouchedStays
<1> QED BY <1>1, <1>3 DEF Justified

LEMMA ListingStays ==
    ASSUME TInv, [Next]_vars, ListingHolds, UNCHANGED scan
    PROVE  ListingHolds'
<1>1. \A e \in scan.listed : e[1] \in Repo /\ e[1] \in Thing
  BY PartsAreParts DEF TInv, Types, ScanType, Listings
<1>2. scan.branches \subseteq Thing
  BY PartsAreParts DEF TInv, Types, ScanType
<1> QED BY <1>1, <1>2, UntouchedStays DEF ListingHolds

(* One listing finds parts of the repository, of the kind it asks for: of   *)
(* releases also the assets, but not those of a release it finds.           *)
LEMMA FoundIs ==
    ASSUME TInv, NEW k \in {"run", "release", "cache", "issue", "pr"}, NEW r \in Repo,
           NEW p \in StaleParts(k, r)
    PROVE  /\ p \in Part /\ RepoOf(p) = r /\ KindOf[p] # "branch" /\ Stale(Kind(p), remote[p])
           /\ KindOf[p] \in {"release", "asset"} => k = "release"
           /\ Of[p] \notin StaleParts(k, r)
<1>1. CASE p \in There(k, r) /\ Stale(k, remote[p])
  <2>1. p \in Part /\ KindOf[p] = k /\ Of[p] = r /\ Kind(p) = k
    BY <1>1, PartsAreParts DEF There
  <2>2. Of[p] \notin Part
    BY <2>1, GithubAssumption
  <2> QED BY <1>1, <2>1, <2>2, PartsAreParts DEF RepoOf
<1>2. CASE /\ p \in Part /\ k = "release" /\ KindOf[p] = "asset" /\ remote[p].due
           /\ Of[p] \in There("release", r) /\ ~Stale("release", remote[Of[p]])
  <2>1. Of[p] \in Part /\ KindOf[Of[p]] = "release" /\ Of[Of[p]] = r /\ Kind(p) = "asset"
    BY <1>2, PartsAreParts DEF There
  <2>2. Stale("asset", remote[p])
    BY <1>2 DEF Stale
  <2>3. Of[p] \notin StaleParts(k, r)
    BY <1>2, <2>1 DEF StaleParts
  <2> QED BY <1>2, <2>1, <2>2, <2>3 DEF RepoOf
<1> QED BY <1>1, <1>2 DEF StaleParts

(* A step of the plan leaves the world as it is. *)
LEMMA PlanWatches ==
    ASSUME Plan
    PROVE  /\ UNCHANGED <<remote, default, took, touched>>
           /\ \A t : Untouched(t)' = Untouched(t)
BY DEF Plan, Rest, ListRepositories, ExamineRepository, ListParts, ListBranches, CompareBranch,
       WritePlan, Untouched

(* A scan that has found nothing and has nothing before it. *)
LEMMA EmptyScans ==
    ASSUME scan.items = {}, scan.listed = {}, scan.branches = {}, scan.repo = "none"
    PROVE  ListingHolds /\ InOrder /\ Justified(scan.items) /\ Separate(scan.items)
BY GithubAssumption DEF ListingHolds, InOrder, Ahead, Justified, Separate

LEMMA ListRepositoriesIsCareful ==
    ASSUME GInv, ListRepositories
    PROVE  Careful'
<1>w. UNCHANGED <<remote, default, took, touched>> /\ \A t : Untouched(t)' = Untouched(t)
  BY PlanWatches DEF Plan
<1> DEFINE L == {<<r, remote[r], default[r]>> : r \in {x \in Repo : remote[x].there}}
<1>1. \A e \in L : remote[e[1]] = e[2] /\ default[e[1]] = e[3] /\ e = <<e[1], remote[e[1]], default[e[1]]>>
  OBVIOUS
<1> HIDE DEF L
<1>2. \/ scan' = [NoScan EXCEPT !.at = "repos", !.main = LocalItem, !.listed = L]
      \/ scan' = [NoScan EXCEPT !.at = "repos"]
  BY DEF ListRepositories, L
<1>3. /\ scan'.items = {} /\ scan'.branches = {} /\ scan'.repo = "none" /\ scan'.listed \in {L, {}}
      /\ scan'.kinds = <<>>
  BY <1>2 DEF NoScan
<1>4. ListingHolds'
  BY <1>1, <1>3, <1>w, GithubAssumption DEF ListingHolds
<1>5. InOrder'
  <2>1. "none" \notin {e[1] : e \in scan'.listed}
    <3>1. \A e \in L : e[1] \in Repo
      BY DEF L
    <3> QED BY <1>3, <3>1, GithubAssumption
  <2>2. \A e, f \in scan'.listed : e[1] = f[1] => e = f
    BY <1>1, <1>3
  <2> QED BY <1>3, <2>1, <2>2 DEF InOrder, Ahead
<1>6. Justified(scan.items)' /\ Separate(scan.items)'
  BY <1>3 DEF Justified, Separate
<1>7. plan' = plan
  BY DEF ListRepositories
<1> QED BY <1>4, <1>5, <1>6, <1>7, <1>w DEF GInv, Careful, Justified, Separate

LEMMA ExamineRepositoryIsCareful ==
    ASSUME GInv, ExamineRepository
    PROVE  Careful'
<1> USE DEF GInv, Careful
<1>w. UNCHANGED <<remote, default, took, touched>> /\ \A t : Untouched(t)' = Untouched(t)
  BY PlanWatches DEF Plan
<1>1. PICK e \in scan.listed :
         IF Stale("repo", e[2])
         THEN scan' = [scan EXCEPT !.listed = @ \ {e}, !.items = @ \cup {e[1]}]
         ELSE scan' = [scan EXCEPT !.listed = @ \ {e}, !.at = "parts", !.repo = e[1],
                                   !.main = e[3], !.kinds = Kinds]
  BY DEF ExamineRepository
<1>2. e[1] \in Repo /\ e[1] \notin Part /\ e[1] \in Thing /\ Kind(e[1]) = "repo"
  BY GithubAssumption, PartsAreParts DEF TInv, Types, ScanType, Listings
<1>3. scan.repo = "none" /\ scan.branches = {} /\ scan \in ScanType /\ plan' = plan
  BY DEF ExamineRepository, TInv, Stages, Types
<1>4. \A f \in scan.listed \ {e} : f[1] # e[1]
  BY DEF InOrder
<1>5. "none" # e[1] /\ e[1] \in Ahead
  BY <1>2, GithubAssumption DEF Ahead
<1>8. ListingHolds
  OBVIOUS
<1>9. (Untouched(e[1]) => remote[e[1]] = e[2]) /\ (e[1] \notin touched => default[e[1]] = e[3])
  BY <1>8 DEF ListingHolds
<1>6. CASE Stale("repo", e[2])
  <2>1. /\ scan'.listed = scan.listed \ {e} /\ scan'.items = scan.items \cup {e[1]}
        /\ scan'.repo = "none" /\ scan'.branches = {} /\ scan'.kinds = scan.kinds
        /\ scan'.main = scan.main
    BY <1>1, <1>3, <1>6 DEF ScanType
  <2>2. ListingHolds'
    BY <1>w, <2>1, GithubAssumption DEF ListingHolds
  <2>3. InOrder'
    BY <1>2, <1>3, <1>4, <1>5, <2>1 DEF InOrder, Ahead, ReleasesAhead
  <2>4. Justified(scan.items)'
    <3> SUFFICES ASSUME NEW t \in scan'.items \cap Thing, Untouched(t)
                 PROVE  /\ Stale(Kind(t), remote[t])
                        /\ Kind(t) = "branch" =>
                              ~remote[t].held /\ (Of[t] \notin touched => default[Of[t]] # t)
      BY <1>w DEF Justified
    <3>1. CASE t = e[1]
      <4>1. remote[t] = e[2] /\ Kind(t) = "repo"
        BY <1>2, <1>9, <3>1
      <4> QED BY <1>6, <4>1
    <3>2. CASE t # e[1]
      BY <2>1, <3>2 DEF Justified
    <3> QED BY <3>1, <3>2
  <2>5. Separate(scan.items)'
    <3>1. \A p \in scan.items \cap Part : RepoOf(p) # e[1]
      BY <1>5 DEF InOrder
    <3>3. \A p \in scan.items \cap Part : Of[p] # e[1] /\ (Of[p] \in Part => Of[Of[p]] # e[1])
      BY <1>2, <3>1, GithubAssumption DEF RepoOf
    <3> QED BY <1>2, <2>1, <3>3 DEF Separate
  <2> QED BY <1>3, <1>w, <2>2, <2>3, <2>4, <2>5 DEF Justified, Separate
<1>7. CASE ~Stale("repo", e[2])
  <2>1. /\ scan'.listed = scan.listed \ {e} /\ scan'.items = scan.items
        /\ scan'.repo = e[1] /\ scan'.branches = {} /\ scan'.main = e[3]
    BY <1>1, <1>3, <1>7 DEF ScanType
  <2>2. ListingHolds'
    <3>1. scan'.repo \notin touched => default[scan'.repo] = scan'.main
      BY <1>9, <1>w, <2>1
    <3> QED BY <1>w, <2>1, <3>1 DEF ListingHolds
  <2>3. InOrder'
    BY <1>2, <1>3, <1>4, <1>5, <2>1 DEF InOrder, Ahead
  <2> QED BY <1>3, <1>w, <2>1, <2>2, <2>3 DEF Justified, Separate
<1> QED BY <1>6, <1>7

LEMMA ListPartsIsCareful ==
    ASSUME GInv, ListParts
    PROVE  Careful'
<1> USE DEF GInv, Careful
<1>w. UNCHANGED <<remote, default, took, touched>> /\ \A t : Untouched(t)' = Untouched(t)
  BY PlanWatches DEF Plan
<1>1. /\ scan \in ScanType /\ scan.repo \in Repo /\ scan.branches = {} /\ plan' = plan
      /\ scan.kinds \in Suffixes /\ scan.kinds # <<>> /\ Head(scan.kinds) # "branch"
  BY DEF ListParts, TInv, Stages, Types, ScanType
<1> DEFINE k == Head(scan.kinds)
<1>2. k \in {"run", "release", "cache", "issue", "pr"}
  BY <1>1, KindsGo
<1>3. PICK found \in {{}, StaleParts(k, scan.repo)} :
         scan' = NextKind([scan EXCEPT !.kinds = Tail(@), !.items = @ \cup found])
  BY DEF ListParts
<1>4. /\ scan'.items = scan.items \cup found /\ scan'.kinds = Tail(scan.kinds)
      /\ scan'.listed = scan.listed /\ scan'.branches = {}
      /\ \/ scan'.repo = scan.repo /\ scan'.main = scan.main
         \/ scan'.repo = "none" /\ scan'.kinds = <<>>
  BY <1>1, <1>3 DEF NextKind, ScanType
<1>5. ASSUME NEW p \in found
      PROVE  /\ p \in Part /\ p \notin Repo /\ RepoOf(p) = scan.repo /\ KindOf[p] # "branch"
             /\ Stale(Kind(p), remote[p]) /\ Kind(p) # "branch" /\ Of[p] \notin found
             /\ KindOf[p] \in {"release", "asset"} => k = "release"
  BY <1>1, <1>2, <1>3, <1>5, FoundIs, PartsAreParts, GithubAssumption
<1> HIDE DEF k
<1>6. ListingHolds'
  BY <1>1, <1>4, <1>w, GithubAssumption DEF ListingHolds
<1>7. InOrder'
  <2>1. ReleasesAhead' => ReleasesAhead /\ k # "release"
    BY <1>1, <1>4, KindsGo DEF ReleasesAhead, k
  <2>2. Ahead' = Ahead
    BY <1>4 DEF Ahead
  <2>3. "none" \notin Ahead /\ scan.repo \notin Ahead
    BY <1>1, GithubAssumption DEF Ahead, ScanType, Listings, InOrder
  <2>4. \A r \in scan'.items \cap Repo : r \notin Ahead /\ r # scan'.repo
    BY <1>4, <1>5, GithubAssumption DEF InOrder
  <2>5. ASSUME NEW p \in scan'.items \cap Part
        PROVE  /\ RepoOf(p) \notin Ahead
               /\ RepoOf(p) = scan'.repo /\ ReleasesAhead' => KindOf[p] \notin {"release", "asset"}
    <3>1. CASE p \in found
      BY <1>5, <2>1, <2>3, <3>1
    <3>2. CASE p \notin found
      <4>1. p \in scan.items
        BY <1>4, <3>2
      <4>2. scan'.repo = "none" => ~ReleasesAhead'
        BY <1>1, <1>4, GithubAssumption DEF ReleasesAhead
      <4> QED BY <1>4, <2>1, <4>1, <4>2 DEF InOrder
    <3> QED BY <3>1, <3>2
  <2> QED BY <1>4, <2>2, <2>3, <2>4, <2>5 DEF InOrder
<1>8. Justified(scan.items)'
  BY <1>4, <1>5, <1>w DEF Justified
<1>9. Separate(scan.items)'
  <2> SUFFICES ASSUME NEW p \in scan'.items \cap Part
               PROVE  Of[p] \notin scan'.items /\ (Of[p] \in Part => Of[Of[p]] \notin scan'.items)
    BY DEF Separate
  <2>1. scan.repo \notin scan'.items
    BY <1>1, <1>4, <1>5 DEF InOrder
  <2>2. CASE p \in found
    <3>1. CASE Of[p] \in Repo
      <4>1. Of[p] = scan.repo /\ Of[p] \notin Part
        BY <1>5, <2>2, <3>1, GithubAssumption DEF RepoOf
      <4> QED BY <2>1, <4>1
    <3>2. CASE Of[p] \notin Repo
      <4>1. KindOf[p] = "asset" /\ Of[p] \in Part /\ KindOf[Of[p]] = "release" /\ Of[Of[p]] = scan.repo
        BY <1>5, <2>2, <3>2, GithubAssumption DEF RepoOf
      <4>2. k = "release" /\ ReleasesAhead
        BY <1>1, <1>5, <2>2, <4>1, KindsGo DEF k, ReleasesAhead
      <4>3. RepoOf(Of[p]) = scan.repo
        BY <4>1 DEF RepoOf
      <4>4. Of[p] \notin scan.items
        BY <4>1, <4>2, <4>3 DEF InOrder
      <4> QED BY <1>4, <1>5, <2>1, <2>2, <4>1, <4>4
    <3> QED BY <3>1, <3>2
  <2>3. CASE p \in scan.items
    <3>1. Of[p] \notin scan.items /\ (Of[p] \in Part => Of[Of[p]] \notin scan.items)
      BY <2>3 DEF Separate
    <3>2. Of[p] \in Part => Of[Of[p]] \in Repo
      BY GithubAssumption, PartsAreParts
    <3>3. Of[p] \notin found
      <4> SUFFICES ASSUME Of[p] \in found PROVE FALSE
        OBVIOUS
      <4>1. KindOf[p] = "asset" /\ KindOf[Of[p]] = "release" /\ RepoOf(Of[p]) = scan.repo
        BY <1>5, GithubAssumption
      <4>2. RepoOf(p) = scan.repo
        BY <4>1 DEF RepoOf
      <4>3. k = "release" /\ ReleasesAhead
        BY <1>1, <1>5, <4>1, KindsGo DEF k, ReleasesAhead
      <4> QED BY <2>3, <4>1, <4>2, <4>3 DEF InOrder
    <3> QED BY <1>4, <1>5, <3>1, <3>2, <3>3
  <2> QED BY <1>4, <2>2, <2>3
<1> QED BY <1>1, <1>6, <1>7, <1>8, <1>9, <1>w DEF Justified, Separate

LEMMA BranchesAreCareful ==
    ASSUME GInv, ListBranches \/ CompareBranch
    PROVE  Careful'
<1> USE DEF GInv, Careful
<1>w. UNCHANGED <<remote, default, took, touched>> /\ \A t : Untouched(t)' = Untouched(t)
  BY PlanWatches DEF Plan
<1>0. /\ scan \in ScanType /\ scan.repo \in Repo /\ plan' = plan
  BY DEF ListBranches, CompareBranch, TInv, Stages, Types, ScanType
<1>n. "none" \notin Ahead /\ "none" \notin Repo
  BY <1>0, GithubAssumption DEF Ahead, ScanType, Listings
<1>1. CASE ListBranches
  <2>1. PICK found \in {{}, {b \in There("branch", scan.repo) : ~remote[b].held} \ {scan.main}} :
           scan' = [scan EXCEPT !.kinds = Tail(@), !.branches = found, !.at = "branches"]
    BY <1>1 DEF ListBranches
  <2>2. /\ scan'.items = scan.items /\ scan'.kinds = Tail(scan.kinds) /\ scan'.branches = found
        /\ scan'.listed = scan.listed /\ scan'.repo = scan.repo /\ scan'.main = scan.main
    BY <1>0, <2>1 DEF ScanType
  <2>3. scan.kinds \in Suffixes /\ scan.kinds # <<>>
    BY <1>0, <1>1 DEF ListBranches, TInv, Stages, ScanType
  <2>4. ReleasesAhead' => ReleasesAhead
    BY <2>2, <2>3, KindsGo DEF ReleasesAhead
  <2>5. ListingHolds'
    BY <1>w, <2>1, <2>2 DEF ListingHolds, There
  <2>6. InOrder'
    BY <2>2, <2>4 DEF InOrder, Ahead
  <2> QED BY <1>0, <1>w, <2>2, <2>5, <2>6 DEF Justified, Separate
<1>2. CASE CompareBranch
  <2>1. CASE scan.branches = {}
    <3>1. scan' = NextKind(scan)
      BY <1>2, <2>1 DEF CompareBranch
    <3>2. /\ scan'.items = scan.items /\ scan'.kinds = scan.kinds /\ scan'.branches = {}
          /\ scan'.listed = scan.listed
          /\ \/ scan'.repo = scan.repo /\ scan'.main = scan.main
             \/ scan'.repo = "none" /\ scan'.kinds = <<>>
      BY <1>0, <2>1, <3>1 DEF NextKind, ScanType
    <3>3. ListingHolds'
      BY <1>n, <1>w, <3>2 DEF ListingHolds
    <3>4. ReleasesAhead' => ReleasesAhead /\ scan'.repo = scan.repo
      BY <3>2 DEF ReleasesAhead
    <3>5. InOrder'
      BY <1>n, <3>2, <3>4 DEF InOrder, Ahead
    <3> QED BY <1>0, <1>w, <3>2, <3>3, <3>5 DEF Justified, Separate
  <2>2. CASE scan.branches # {}
    <3>1. PICK b \in scan.branches :
             \E found \in {{}, {x \in {b} : remote[x].there /\ Stale("branch", remote[x])}} :
                scan' = [scan EXCEPT !.branches = @ \ {b}, !.items = @ \cup found]
      BY <1>2, <2>2 DEF CompareBranch
    <3>2. PICK found \in {{}, {x \in {b} : remote[x].there /\ Stale("branch", remote[x])}} :
             scan' = [scan EXCEPT !.branches = @ \ {b}, !.items = @ \cup found]
      BY <3>1
    <3>3. found \subseteq {b} /\ (found # {} => Stale("branch", remote[b]))
      BY <3>2
    <3>4. /\ scan'.items = scan.items \cup found /\ scan'.kinds = scan.kinds
          /\ scan'.branches = scan.branches \ {b}
          /\ scan'.listed = scan.listed /\ scan'.repo = scan.repo /\ scan'.main = scan.main
      BY <1>0, <3>2 DEF ScanType
    <3> HIDE <3>2
    <3>5. /\ b \in Part /\ b \notin Repo /\ Kind(b) = "branch" /\ KindOf[b] = "branch" /\ Of[b] = scan.repo
          /\ RepoOf(b) = scan.repo /\ b # scan.main /\ Of[b] \notin Part
          /\ Untouched(b) => ~remote[b].held
      <4>1. b \in Part /\ b \notin Repo /\ Kind(b) = KindOf[b]
        BY <1>0, <3>1, GithubAssumption, PartsAreParts DEF ScanType
      <4>2. ListingHolds
        OBVIOUS
      <4>3. KindOf[b] = "branch" /\ Of[b] = scan.repo /\ b # scan.main /\ (Untouched(b) => ~remote[b].held)
        BY <3>1, <4>2 DEF ListingHolds
      <4>4. Of[b] \notin Part
        BY <1>0, <4>3, GithubAssumption
      <4> QED BY <4>1, <4>3, <4>4 DEF RepoOf
    <3>6. ListingHolds'
      BY <1>w, <3>4 DEF ListingHolds
    <3>7. InOrder'
      <4>1. ReleasesAhead' = ReleasesAhead /\ Ahead' = Ahead
        BY <3>4 DEF ReleasesAhead, Ahead
      <4> QED BY <3>3, <3>4, <3>5, <4>1 DEF InOrder
    <3>8. Justified(scan.items)'
      <4> SUFFICES ASSUME NEW t \in scan'.items \cap Thing, Untouched(t)
                   PROVE  /\ Stale(Kind(t), remote[t])
                          /\ Kind(t) = "branch" =>
                                ~remote[t].held /\ (Of[t] \notin touched => default[Of[t]] # t)
        BY <1>w DEF Justified
      <4>1. CASE t \in found
        BY <1>0, <3>3, <3>5, <4>1 DEF ListingHolds
      <4>2. CASE t \notin found
        BY <3>4, <4>2 DEF Justified
      <4> QED BY <4>1, <4>2
    <3>9. Separate(scan.items)'
      <4>1. scan.repo \notin scan.items /\ scan.repo \notin Part
        BY <1>0, GithubAssumption DEF InOrder
      <4>2. \A p \in Part : Of[p] \in Part => KindOf[Of[p]] = "release" /\ Of[Of[p]] \in Repo
        BY GithubAssumption, PartsAreParts
      <4>3. \A p \in Part : Of[p] # b /\ (Of[p] \in Part => Of[Of[p]] # b)
        BY <3>5, <4>2
      <4> QED BY <3>3, <3>4, <3>5, <4>1, <4>3 DEF Separate
    <3> QED BY <1>0, <1>w, <3>6, <3>7, <3>8, <3>9 DEF Justified, Separate
  <2> QED BY <2>1, <2>2
<1> QED BY <1>1, <1>2

LEMMA WritePlanIsCareful ==
    ASSUME GInv, WritePlan
    PROVE  Careful'
<1> USE DEF GInv, Careful
<1>w. UNCHANGED <<remote, default, took, touched>> /\ \A t : Untouched(t)' = Untouched(t)
  BY PlanWatches DEF Plan
<1>1. /\ scan'.items = {} /\ scan'.listed = {} /\ scan'.branches = {} /\ scan'.repo = "none"
      /\ plan'.items \in {scan.items, {}}
  BY DEF WritePlan, NoScan
<1>2. ListingHolds' /\ InOrder'
  BY <1>1, GithubAssumption DEF ListingHolds, InOrder, Ahead
<1>3. Justified(plan.items)' /\ Separate(plan.items)'
  BY <1>1, <1>w DEF Justified, Separate
<1>4. Justified(scan.items)' /\ Separate(scan.items)'
  BY <1>1 DEF Justified, Separate
<1> QED BY <1>2, <1>3, <1>4

LEMMA NextKeepsGInv ==
    ASSUME GInv, [Next]_vars
    PROVE  GInv'
<1>0. TInv /\ TInv'
  BY NextKeepsTypes DEF GInv
<1>1. CASE Plan
  BY <1>0, <1>1, ListRepositoriesIsCareful, ExamineRepositoryIsCareful, ListPartsIsCareful,
     BranchesAreCareful, WritePlanIsCareful DEF Plan, GInv
<1>2. CASE UNCHANGED <<scan, plan>>
  <2>1. ListingHolds'
    BY <1>0, <1>2, ListingStays DEF GInv, Careful
  <2>2. InOrder'
    BY <1>2 DEF GInv, Careful, InOrder, Ahead, ReleasesAhead
  <2>3. Justified(scan.items)' /\ Justified(plan.items)'
    <3>1. \A S : Justified(S) => Justified(S)'
      BY <1>0, JustifiedStays
    <3>2. scan.items' = scan.items /\ plan.items' = plan.items
      BY <1>2
    <3> QED BY <1>2, <3>1, <3>2 DEF GInv, Careful, Justified
  <2>4. Separate(scan.items)' /\ Separate(plan.items)'
    BY <1>2 DEF GInv, Careful, Separate
  <2> QED BY <1>0, <2>1, <2>2, <2>3, <2>4 DEF GInv, Careful
<1>3. Plan \/ UNCHANGED <<scan, plan>>
  BY DEF Next, Execute, Load, PassOver, Delete, WriteReceipt, Kill, Still, Change, SwitchDefault, vars
<1> QED BY <1>1, <1>2, <1>3

LEMMA InitCareful == Init => GInv
<1> SUFFICES ASSUME Init PROVE Careful
  BY InitTypes DEF GInv
<1>1. /\ scan.items = {} /\ scan.listed = {} /\ scan.branches = {} /\ scan.repo = "none"
      /\ plan.items \subseteq {LocalItem} /\ LocalItem \notin Thing /\ LocalItem \notin Part
  BY RecordsTyped, GithubAssumption DEF Init, Thing
<1> QED BY <1>1, EmptyScans DEF Careful, Justified, Separate

(* Whatever calls fail and whatever changes while the plan is put together,  *)
(* what it holds is stale and spared by no rule unless somebody touched it   *)
(* since, and nothing is planned together with what contains it.             *)
THEOREM PlansAreJustified == Spec => []PlanIsJustified
<1>1. GInv => PlanIsJustified
  BY PartsAreParts DEF GInv, Careful, Justified, Separate, PlanIsJustified
<1> QED BY <1>1, InitCareful, NextKeepsGInv, PTL DEF Spec

-----------------------------------------------------------------------------
(* What a result says of its item, in its receipt or before there is one.  *)
(* A cache or an asset that is gone stays gone, whoever else is at work.   *)
Gone(t) == IF Kind(t) \in {"issue", "pr"} THEN ~remote[t].due ELSE ~remote[t].there
EntryHolds(d, x) ==
    /\ x.status = "Deleted" => x.of \in Thing
    /\ x.status = "Deleted" /\ x.of \notin touched => Gone(x.of)
    /\ x.status = "SkippedMissing" /\ x.of \notin touched \cup Odd \cup {LocalItem} => ~remote[x.of].there
    /\ x.freed => x.of \in took[d] /\ Sized(x.of) /\ ~remote[x.of].there
ReportedIn(t, S) ==
    \E x \in S : /\ x.of \in Thing /\ t \in Removes(x.of)
                 /\ x.status \in {"Deleted", "Failed"} \/ x.of \in Odd

Entries == \A d \in Deleter : \A x \in run[d].results : EntryHolds(d, x)
CreditedOnce ==
    \A d, e \in Deleter : d # e =>
        \A x \in run[d].results, y \in run[e].results : x.freed /\ y.freed => x.of # y.of
Reported ==
    \A d \in Deleter :
        /\ run[d].at = "ready" => took[d] = {}
        /\ run[d].at \in {"items", "ended"} => \A t \in took[d] : ReportedIn(t, run[d].results)

RInv == TInv /\ Entries /\ CreditedOnce /\ Reported

(* Out of other hands, nothing comes back and nothing is reopened; a cache  *)
(* or an asset comes back from nobody.                                      *)
LEMMA NothingComesBack ==
    ASSUME TInv, [Next]_vars, NEW x \in Thing
    PROVE  /\ x \notin touched' \/ Kind(x) \in {"cache", "asset"} =>
                  (remote'[x].there => remote[x].there)
           /\ x \notin touched' => (remote'[x].due => remote[x].due)
<1> USE DEF TInv, Types
<1>0. remote[x] \in State
  OBVIOUS
<1>w. ASSUME NEW t \in Thing, remote' = Without(t)
      PROVE  (remote'[x].there => remote[x].there) /\ (remote'[x].due => remote[x].due)
  <2>1. CASE x \notin Removes(t)
    BY <1>w, <2>1, WithoutTyped
  <2>2. CASE x \in Removes(t) /\ Kind(t) \in {"issue", "pr"}
    BY <1>0, <1>w, <2>2, WithoutTyped DEF State
  <2>3. CASE x \in Removes(t) /\ Kind(t) \notin {"issue", "pr"}
    <3>1. remote'[x] = [remote[x] EXCEPT !.there = FALSE]
      BY <1>w, <2>3, WithoutTyped
    <3> QED BY <1>0, <3>1 DEF State
  <2> QED BY <2>1, <2>2, <2>3
<1>1. CASE UNCHANGED remote
  BY <1>1
<1>2. ASSUME NEW d \in Deleter, Delete(d), ~UNCHANGED remote
      PROVE  \E t \in Thing : remote' = Without(t)
  BY <1>2 DEF Delete
<1>3. CASE Change
  <2>1. PICK t \in Thing :
           \/ /\ remote' \in {[remote EXCEPT ![t].old = FALSE, ![t].due = FALSE],
                              [remote EXCEPT ![t].old = TRUE, ![t].due = TRUE],
                              [remote EXCEPT ![t].held = TRUE]}
              /\ touched' = touched \cup {t}
           \/ remote' = Without(t)
           \/ /\ Kind(t) \in {"repo", "branch", "release"}
              /\ remote' = [remote EXCEPT ![t] = Fresh] /\ touched' = touched \cup {t}
    BY <1>3 DEF Change
  <2>2. CASE remote' = Without(t)
    BY <1>w, <2>2
  <2>3. CASE x # t /\ \E s : remote' = [remote EXCEPT ![t] = s]
    BY <2>3
  <2>4. CASE x = t /\ remote' # Without(t)
    <3>1. x \in touched'
      BY <2>1, <2>4
    <3>2. CASE Kind(x) \in {"cache", "asset"}
      <4>1. remote' \in {[remote EXCEPT ![t].old = FALSE, ![t].due = FALSE],
                         [remote EXCEPT ![t].old = TRUE, ![t].due = TRUE],
                         [remote EXCEPT ![t].held = TRUE]}
        BY <2>1, <2>4, <3>2
      <4>2. remote'[t] \in {[remote[t] EXCEPT !.old = FALSE, !.due = FALSE],
                            [remote[t] EXCEPT !.old = TRUE, !.due = TRUE],
                            [remote[t] EXCEPT !.held = TRUE]}
        BY <4>1
      <4>3. remote'[t].there = remote[t].there
        BY <1>0, <2>4, <4>2 DEF State
      <4> QED BY <2>4, <3>1, <4>3
    <3> QED BY <3>1, <3>2
  <2>5. remote' = Without(t) \/ \E s : remote' = [remote EXCEPT ![t] = s]
    BY <2>1
  <2> QED BY <2>2, <2>3, <2>4, <2>5
<1>4. UNCHANGED remote \/ (\E d \in Deleter : Delete(d)) \/ Change
  BY DEF Next, Plan, Rest, ListRepositories, ExamineRepository, ListParts, ListBranches, CompareBranch,
         WritePlan, Execute, Load, PassOver, WriteReceipt, Kill, Still, SwitchDefault, vars
<1> QED BY <1>1, <1>2, <1>3, <1>4, <1>w

(* A true entry stays true.                                                *)
LEMMA EntryStays ==
    ASSUME TInv, [Next]_vars, NEW d \in Deleter, NEW x \in Result, EntryHolds(d, x)
    PROVE  EntryHolds(d, x)'
<1>1. touched \subseteq touched' /\ took[d] \subseteq took'[d]
  BY UntouchedStays
<1>2. x.of \in Thing \/ x.of = LocalItem
  BY DEF Result, Item
<1>3. x.status = "Deleted" => x.of \in Thing
  BY DEF EntryHolds
<1>4. x.status = "Deleted" /\ x.of \notin touched' => Gone(x.of)'
  BY <1>1, <1>3, NothingComesBack DEF EntryHolds, Gone
<1>5. x.status = "SkippedMissing" /\ x.of \notin touched' \cup Odd \cup {LocalItem} => ~remote'[x.of].there
  BY <1>1, <1>2, NothingComesBack DEF EntryHolds
<1>6. x.freed => x.of \in took'[d] /\ Sized(x.of) /\ ~remote'[x.of].there
  <2>1. x.freed => x.of \in Thing /\ Kind(x.of) \in {"cache", "asset"}
    BY DEF EntryHolds, Sized, TInv, Types
  <2> QED BY <1>1, <2>1, NothingComesBack DEF EntryHolds
<1> QED BY <1>3, <1>4, <1>5, <1>6 DEF EntryHolds

(* One more result that holds, credits nothing that was credited, and       *)
(* accounts for what its call took, keeps the whole true.                   *)
LEMMA OneMoreResult ==
    ASSUME RInv, [Next]_vars, NEW d \in Deleter, NEW t \in Item, NEW status \in Status, NEW bytes \in BOOLEAN,
           Report(d, t, status, bytes), run[d].at = "items",
           EntryHolds(d, [of |-> t, status |-> status, freed |-> bytes])',
           bytes => t \in Thing /\ remote[t].there,
           \A e \in Deleter \ {d} : took'[e] = took[e],
           \A x \in took'[d] \ took[d] :
              /\ t \in Thing /\ x \in Removes(t)
              /\ status \in {"Deleted", "Failed"} \/ t \in Odd
    PROVE  RInv'
<1> DEFINE new == [of |-> t, status |-> status, freed |-> bytes]
<1>0. TInv /\ TInv' /\ Types
  BY NextKeepsTypes DEF RInv, TInv
<1>1. /\ run'[d].at = "items" /\ run'[d].results = run[d].results \cup {new}
      /\ \A e \in Deleter \ {d} : run'[e] = run[e]
  BY <1>0, ReportIs
<1>2. new \in Result /\ new.of = t /\ new.status = status /\ new.freed = bytes
  BY DEF Result
<1>3. \A e \in Deleter : run[e].results \subseteq Result
  BY <1>0 DEF Types, RunType
<1>n. EntryHolds(d, new)'
  OBVIOUS
<1> HIDE DEF new
<1>4. Entries'
  <2> SUFFICES ASSUME NEW e \in Deleter, NEW x \in run'[e].results PROVE EntryHolds(e, x)'
    BY DEF Entries
  <2>1. CASE e = d /\ x = new
    BY <1>n, <2>1
  <2>2. CASE x \in run[e].results
    <3>1. EntryHolds(e, x) /\ x \in Result
      BY <1>3, <2>2 DEF RInv, Entries
    <3> QED BY <1>0, <3>1, EntryStays
  <2> QED BY <1>1, <2>1, <2>2
<1>5. CreditedOnce'
  <2>1. \A e \in Deleter : \A y \in run[e].results : new.freed /\ y.freed => y.of # t
    BY <1>2 DEF RInv, Entries, EntryHolds
  <2> SUFFICES ASSUME NEW c \in Deleter, NEW e \in Deleter, c # e,
                      NEW x \in run'[c].results, NEW y \in run'[e].results, x.freed, y.freed
               PROVE  x.of # y.of
    BY DEF CreditedOnce
  <2>2. x \in run[c].results \/ (c = d /\ x = new)
    BY <1>1
  <2>3. y \in run[e].results \/ (e = d /\ y = new)
    BY <1>1
  <2> QED BY <1>2, <2>1, <2>2, <2>3 DEF RInv, CreditedOnce
<1>6. Reported'
  <2> SUFFICES ASSUME NEW e \in Deleter
               PROVE  /\ run'[e].at = "ready" => took'[e] = {}
                      /\ run'[e].at \in {"items", "ended"} => \A x \in took'[e] : ReportedIn(x, run'[e].results)
    BY DEF Reported, ReportedIn
  <2>1. CASE e # d
    BY <1>1, <2>1 DEF RInv, Reported
  <2>2. CASE e = d
    <3> SUFFICES ASSUME NEW x \in took'[d] PROVE ReportedIn(x, run'[d].results)
      BY <1>1, <2>2
    <3>1. CASE x \in took[d]
      <4>1. ReportedIn(x, run[d].results)
        BY <3>1 DEF RInv, Reported
      <4> QED BY <1>1, <4>1 DEF ReportedIn
    <3>2. CASE x \notin took[d]
      <4>1. new \in run'[d].results
        BY <1>1
      <4> QED BY <1>2, <3>2, <4>1 DEF ReportedIn
    <3> QED BY <3>1, <3>2
  <2> QED BY <2>1, <2>2
<1> QED BY <1>0, <1>4, <1>5, <1>6 DEF RInv

LEMMA DeleteKeepsRInv ==
    ASSUME RInv, NEW d \in Deleter, Delete(d)
    PROVE  RInv'
<1>0. TInv /\ [Next]_vars /\ run[d].at = "items"
  BY DEF RInv, Next, Execute, Delete
<1>1. PICK t \in Thing :
         \/ /\ Deletable(t)
            /\ remote' = Without(t)
            /\ took' = [took EXCEPT ![d] = @ \cup {x \in Removes(t) : remote[x].there}]
            /\ \E status \in {"Deleted", ErrorStatus(t, FALSE)} : Answered(d, t, status)
         \/ /\ \E absent \in {FALSE, ~remote[t].there} : Answered(d, t, ErrorStatus(t, absent))
            /\ UNCHANGED <<remote, took>>
  BY DEF Delete
<1>2. /\ t \in Item /\ t # LocalItem /\ t \in Removes(t) /\ Removes(t) \subseteq Thing
      /\ remote[t] \in State /\ took[d] \subseteq Thing
  BY <1>0, PartsAreParts, GithubAssumption DEF TInv, Types
<1>t. touched' = touched
  BY DEF Delete, Still
<1>3. CASE /\ Deletable(t)
           /\ remote' = Without(t)
           /\ took' = [took EXCEPT ![d] = @ \cup {x \in Removes(t) : remote[x].there}]
           /\ \E status \in {"Deleted", ErrorStatus(t, FALSE)} : Answered(d, t, status)
  <2>1. PICK status \in {"Deleted", ErrorStatus(t, FALSE)} : Answered(d, t, status)
    BY <1>3
  <2>2. /\ status \in Status
        /\ status \in {"Deleted", "Failed"} \/ t \in Odd
    BY DEF ErrorStatus, Status
  <2> DEFINE bytes == status = "Deleted" /\ Sized(t)
  <2>3. bytes \in BOOLEAN /\ Report(d, t, status, bytes)
    BY <2>1 DEF Answered, Sized
  <2>4. took' = [took EXCEPT ![d] = took[d] \cup {x \in Removes(t) : remote[x].there}] /\ took \in [Deleter -> SUBSET Thing]
    BY <1>0, <1>3 DEF TInv, Types
  <2>5. /\ \A e \in Deleter \ {d} : took'[e] = took[e]
        /\ took'[d] = took[d] \cup {x \in Removes(t) : remote[x].there}
    BY <2>4
  <2>6. remote[t].there /\ t \in took'[d]
    BY <1>2, <1>3, <2>5 DEF Deletable
  <2>7. Gone(t)' /\ (bytes => ~remote'[t].there)
    <3>1. CASE Kind(t) \in {"issue", "pr"}
      <4>1. remote'[t] = [remote[t] EXCEPT !.due = FALSE]
        BY <1>0, <1>2, <1>3, <3>1, WithoutTyped DEF TInv, Types
      <4> QED BY <1>2, <3>1, <4>1 DEF Gone, Sized, State
    <3>2. CASE Kind(t) \notin {"issue", "pr"}
      <4>1. remote'[t] = [remote[t] EXCEPT !.there = FALSE]
        BY <1>0, <1>2, <1>3, <3>2, WithoutTyped DEF TInv, Types
      <4> QED BY <1>2, <3>2, <4>1 DEF Gone, State
    <3> QED BY <3>1, <3>2
  <2> DEFINE new == [of |-> t, status |-> status, freed |-> bytes]
  <2>8. new.of = t /\ new.status = status /\ new.freed = bytes
    OBVIOUS
  <2>9. bytes => Sized(t)
    OBVIOUS
  <2>10. status = "SkippedMissing" => t \in Odd
    BY <2>2
  <2> HIDE DEF new, bytes
  <2>11. EntryHolds(d, new)'
    BY <2>6, <2>7, <2>8, <2>9, <2>10 DEF EntryHolds
  <2> QED BY <1>0, <1>2, <2>2, <2>3, <2>5, <2>6, <2>11, OneMoreResult DEF new
<1>4. CASE /\ \E absent \in {FALSE, ~remote[t].there} : Answered(d, t, ErrorStatus(t, absent))
           /\ UNCHANGED <<remote, took>>
  <2>1. PICK absent \in {FALSE, ~remote[t].there} : Answered(d, t, ErrorStatus(t, absent))
    BY <1>4
  <2> DEFINE status == ErrorStatus(t, absent)
  <2>2. /\ status \in {"SkippedMissing", "Failed"} /\ status \in Status
        /\ status = "SkippedMissing" => absent \/ t \in Odd
    BY DEF ErrorStatus, Status
  <2>3. Report(d, t, status, FALSE)
    BY <2>1, <2>2 DEF Answered
  <2> DEFINE new == [of |-> t, status |-> status, freed |-> FALSE]
  <2>4. new.of = t /\ new.status = status /\ new.freed = FALSE
    OBVIOUS
  <2>5. status = "SkippedMissing" /\ t \notin Odd => ~remote'[t].there
    BY <1>4, <2>2
  <2> HIDE DEF new, status
  <2>6. EntryHolds(d, new)'
    BY <2>2, <2>4, <2>5 DEF EntryHolds
  <2>7. took'[d] \ took[d] = {} /\ \A e \in Deleter \ {d} : took'[e] = took[e]
    BY <1>4
  <2> QED BY <1>0, <1>2, <2>2, <2>3, <2>6, <2>7, OneMoreResult DEF new
<1> QED BY <1>1, <1>3, <1>4

LEMMA PassOverKeepsRInv ==
    ASSUME RInv, NEW d \in Deleter, PassOver(d)
    PROVE  RInv'
<1>0. TInv /\ [Next]_vars /\ run[d].at = "items" /\ UNCHANGED took
  BY DEF RInv, Next, Execute, PassOver
<1>1. PICK t \in run[d].left, status \in {"Refused", "SkippedMissing"} :
         Report(d, t, status, FALSE) /\ (status = "SkippedMissing" => t = LocalItem)
  BY DEF PassOver
<1>2. t \in Item /\ status \in Status
  BY <1>0 DEF TInv, Types, RunType, Status
<1> DEFINE new == [of |-> t, status |-> status, freed |-> FALSE]
<1>3. new.of = t /\ new.status = status /\ new.freed = FALSE
  OBVIOUS
<1> HIDE DEF new
<1>4. EntryHolds(d, new)'
  BY <1>1, <1>3 DEF EntryHolds
<1> QED BY <1>0, <1>1, <1>2, <1>4, OneMoreResult DEF new

LEMMA NextKeepsRInv ==
    ASSUME RInv, [Next]_vars
    PROVE  RInv'
<1>0. TInv /\ TInv' /\ \A e \in Deleter : run[e].results \subseteq Result
  BY NextKeepsTypes DEF RInv, TInv, Types, RunType
<1>1. ASSUME NEW d \in Deleter, Delete(d) \/ PassOver(d) PROVE RInv'
  BY <1>1, DeleteKeepsRInv, PassOverKeepsRInv
<1>2. ASSUME took' = took,
             \A e \in Deleter :
                \/ run'[e].at = run[e].at /\ run'[e].results = run[e].results
                \/ run[e].at = "ready" /\ run'[e].results = {}
                \/ run'[e].at = "ended" /\ run[e].at = "items" /\ run'[e].results = run[e].results
                \/ run'[e].at = "lost" /\ run'[e].results = {}
      PROVE  RInv'
  <2>1. Entries'
    <3> SUFFICES ASSUME NEW e \in Deleter, NEW x \in run'[e].results PROVE EntryHolds(e, x)'
      BY DEF Entries
    <3>1. x \in run[e].results /\ x \in Result
      BY <1>0, <1>2
    <3>2. EntryHolds(e, x)
      BY <3>1 DEF RInv, Entries
    <3> QED BY <1>0, <3>1, <3>2, EntryStays
  <2>2. \A e \in Deleter : run'[e].results \subseteq run[e].results
    BY <1>2
  <2>3. CreditedOnce'
    BY <2>2 DEF RInv, CreditedOnce
  <2>4. Reported'
    <3> SUFFICES ASSUME NEW e \in Deleter
                 PROVE  /\ run'[e].at = "ready" => took'[e] = {}
                        /\ run'[e].at \in {"items", "ended"} => \A x \in took'[e] : ReportedIn(x, run'[e].results)
      BY DEF Reported, ReportedIn
    <3>1. /\ run[e].at = "ready" => took[e] = {}
          /\ run[e].at \in {"items", "ended"} => \A x \in took[e] : ReportedIn(x, run[e].results)
      BY DEF RInv, Reported
    <3> QED BY <1>2, <3>1
  <2> QED BY <1>0, <2>1, <2>3, <2>4 DEF RInv
<1>3. ASSUME NEW d \in Deleter, Load(d) \/ WriteReceipt(d) \/ Kill(d) PROVE RInv'
  <2>1. took' = took
    BY <1>3 DEF Load, WriteReceipt, Kill
  <2>2. run \in [Deleter -> RunType] /\ run[d] \in RunType
    BY <1>0 DEF TInv, Types
  <2>3. \A e \in Deleter \ {d} : run'[e] = run[e]
    BY <1>3, <2>2 DEF Load, WriteReceipt, Kill
  <2>4. CASE Load(d)
    <3>1. run' = [run EXCEPT ![d] = [NoRun EXCEPT !.at = "items", !.left = plan.items]] /\ run[d].at = "ready"
      BY <2>4 DEF Load
    <3>2. run'[d].results = {}
      BY <2>2, <3>1 DEF NoRun
    <3> QED BY <1>2, <2>1, <2>3, <3>1, <3>2
  <2>5. CASE WriteReceipt(d)
    <3>1. PICK l \in {"ended", "lost"} :
             run' = [run EXCEPT ![d].at = l, ![d].results = IF l = "ended" THEN @ ELSE {}]
      BY <2>5 DEF WriteReceipt
    <3>2. run[d].at = "items"
      BY <2>5 DEF WriteReceipt
    <3>3. run'[d].at = l /\ run'[d].results = IF l = "ended" THEN run[d].results ELSE {}
      BY <2>2, <3>1 DEF RunType
    <3> QED BY <1>2, <2>1, <2>3, <3>2, <3>3
  <2>6. CASE Kill(d)
    <3>1. run' = [run EXCEPT ![d] = [NoRun EXCEPT !.at = "lost"]]
      BY <2>6 DEF Kill
    <3>2. run'[d].results = {} /\ run'[d].at = "lost"
      BY <2>2, <3>1 DEF NoRun
    <3> QED BY <1>2, <2>1, <2>3, <3>2
  <2> QED BY <1>3, <2>4, <2>5, <2>6
<1>4. CASE UNCHANGED <<run, took>>
  BY <1>2, <1>4
<1>5. \/ UNCHANGED <<run, took>>
      \/ \E d \in Deleter : Delete(d) \/ PassOver(d) \/ Load(d) \/ WriteReceipt(d) \/ Kill(d)
  BY DEF Next, Plan, Rest, ListRepositories, ExamineRepository, ListParts, ListBranches, CompareBranch,
         WritePlan, Execute, Change, SwitchDefault, vars
<1> QED BY <1>1, <1>3, <1>4, <1>5

LEMMA InitReported == Init => RInv
<1> SUFFICES ASSUME Init PROVE RInv
  OBVIOUS
<1>1. \A d \in Deleter : run[d] = NoRun /\ took[d] = {}
  BY DEF Init
<1> QED BY <1>1, InitTypes, RecordsTyped DEF RInv, Entries, CreditedOnce, Reported

(* For any number of deletions at once, of one plan, while GitHub changes  *)
(* in other hands: what a receipt says of its items is so, its bytes are   *)
(* credited once, and all that its calls removed is in it.                 *)
THEOREM ReceiptsAreTrue == Spec => []ReceiptIsTrue
<1>1. RInv => EntriesAreTrue
  BY DEF RInv, Entries, EntryHolds, Gone, CreditedOnce, EntriesAreTrue, Results
<1>2. RInv => NothingUnreported
  BY DEF RInv, Reported, ReportedIn, NothingUnreported, Results
<1> QED BY <1>1, <1>2, InitReported, NextKeepsRInv, PTL DEF Spec, ReceiptIsTrue

-----------------------------------------------------------------------------
(* The standing report of git worktrees.                                   *)

(* What the user may do in a worktree, and a standing with its rows.          *)
Deed == {"edit", "commit", "stash", "pop", "merge", "detach", "lock", "remove"}
StandingRecord == [repo : MainRepo, signals : Signals, errors : Nat,
                   rows : UNION {[S -> Class] : S \in SUBSET (MainRepo \cup Linked)}]

(* What each phase of the report holds: nothing is asked before a repository *)
(* is taken up, and the rows are about the worktrees listed for it.          *)
Phases ==
    /\ step \notin {"discover", "list"} => todo # <<>>
    /\ step = "discover" => report = <<>>
    /\ step \in {"discover", "list"} =>
          answers = Nothing /\ moved = [w \in Linked |-> <<>>]
    /\ step # "rows" => row = [w \in Linked |-> Unasked]
    /\ \A w \in DOMAIN answers.list : todo # <<>> /\ Home[w] = Head(todo)
    /\ \A w \in Linked \ DOMAIN answers.list : row[w] = Unasked
    /\ \A w \in Linked : row[w].at # "Main"

AInv ==
    /\ ReportTypeOK
    /\ report \in Seq(StandingRecord)
    /\ moved \in [Linked -> Seq(Deed)]
    /\ Phases

LEMMA ListsAreFunctions ==
    /\ \A l \in Lists : DOMAIN l \subseteq Linked
    /\ \A l \in Lists : \A w \in DOMAIN l : l[w] \in [branch : BOOLEAN, locked : BOOLEAN, prunable : BOOLEAN]
    /\ \A S \in SUBSET Linked :
         \A l \in [S -> [branch : BOOLEAN, locked : BOOLEAN, prunable : BOOLEAN]] : l \in Lists
BY DEF Lists

LEMMA NothingTyped == Nothing \in Answers /\ DOMAIN Nothing.list = {}
<1>1. <<>> \in Lists /\ DOMAIN <<>> = {}
  <2>1. <<>> \in [{} -> [branch : BOOLEAN, locked : BOOLEAN, prunable : BOOLEAN]] /\ DOMAIN <<>> = {}
    OBVIOUS
  <2> QED BY <2>1, ListsAreFunctions
<1> QED BY <1>1 DEF Nothing, Answers, Ref, Signals

LEMMA UnaskedTyped == Unasked \in Facts /\ Unasked.at = "exists"
BY WorktreesAssumption DEF Unasked, Facts, Class, Ref

LEMMA InitAInv == ReportInit => AInv
<1> SUFFICES ASSUME ReportInit PROVE AInv
  OBVIOUS
<1>1. tree \in [Linked -> Tree]
  BY StandingAssumption DEF ReportInit
<1>2. /\ todo = <<>> /\ report = <<>> /\ unasked = Found /\ acts = 0 /\ step = "discover"
      /\ todo \in Seq(MainRepo) /\ report \in Seq(StandingRecord) /\ DOMAIN report = {}
  BY DEF ReportInit
<1>3. row \in [Linked -> Facts] /\ answers \in Answers
  BY UnaskedTyped, NothingTyped DEF ReportInit
<1>4. held \in [Linked -> BOOLEAN] /\ moved \in [Linked -> Seq(Deed)]
  <2>1. <<>> \in Seq(Deed)
    OBVIOUS
  <2> QED BY <2>1 DEF ReportInit
<1>5. ReportTypeOK
  BY <1>1, <1>2, <1>3, <1>4, WorktreesAssumption DEF ReportTypeOK
<1>6. Phases
  BY <1>2, NothingTyped, UnaskedTyped DEF ReportInit, Phases
<1> QED BY <1>2, <1>4, <1>5, <1>6 DEF AInv

LEMMA DiscoverTyped == AInv /\ Discover => AInv'
<1> SUFFICES ASSUME AInv, Discover PROVE AInv'
  OBVIOUS
<1>1. unasked \in Seq(MainRepo \cup Linked) /\ unasked # <<>> /\ todo \in Seq(MainRepo)
  BY DEF AInv, ReportTypeOK, Discover
<1>2. Head(unasked) \in MainRepo \cup Linked /\ unasked' \in Seq(MainRepo \cup Linked)
  BY <1>1 DEF Discover
<1>3. Common(Head(unasked)) \in MainRepo
  BY <1>2, WorktreesAssumption DEF Common
<1>4. todo' \in Seq(MainRepo)
  BY <1>1, <1>3 DEF Discover, AddRepository
<1>5. ReportTypeOK'
  BY <1>2, <1>4 DEF Discover, AInv, ReportTypeOK
<1>6. Phases'
  BY NothingTyped DEF Discover, AInv, Phases
<1> QED BY <1>5, <1>6 DEF AInv, Discover

LEMMA DiscoveredTyped == AInv /\ Discovered => AInv'
BY DEF AInv, ReportTypeOK, Phases, Discovered

LEMMA ListTyped == AInv /\ ListWorktrees => AInv'
<1> SUFFICES ASSUME AInv, ListWorktrees PROVE AInv'
  OBVIOUS
<1> DEFINE linked == {w \in Linked : Home[w] = Current}
<1>1. /\ step = "list" /\ todo # <<>> /\ answers = Nothing
      /\ row = [w \in Linked |-> Unasked] /\ tree \in [Linked -> Tree] /\ step' = "default"
      /\ UNCHANGED <<tree, unasked, todo, row, report, summary, moved, acts>>
  BY DEF AInv, ReportTypeOK, Phases, ListWorktrees, Inspecting
<1>2. answers' \in Answers /\ DOMAIN answers'.list \subseteq linked
  <2>1. CASE answers' = [Nothing EXCEPT !.errors = 1]
    BY <2>1, NothingTyped DEF Answers
  <2>2. CASE answers' = [Nothing EXCEPT !.listed = TRUE, !.list = [w \in linked |-> parse_worktree_porcelain(w)]]
    <3>1. \A w \in Linked : parse_worktree_porcelain(w) \in [branch : BOOLEAN, locked : BOOLEAN, prunable : BOOLEAN]
      BY <1>1 DEF parse_worktree_porcelain, Tree
    <3>2. [w \in linked |-> parse_worktree_porcelain(w)] \in Lists
      BY <3>1, ListsAreFunctions
    <3> QED BY <2>2, <3>2, NothingTyped DEF Answers
  <2> QED BY <2>1, <2>2 DEF ListWorktrees
<1>3. held' \in [Linked -> BOOLEAN]
  <2>1. \A w \in Linked : HoldsWork(tree[w]) \in BOOLEAN
    BY DEF HoldsWork
  <2> QED BY <2>1 DEF ListWorktrees
<1>4. ReportTypeOK'
  BY <1>1, <1>2, <1>3 DEF AInv, ReportTypeOK
<1>5. Phases'
  BY <1>1, <1>2, UnaskedTyped DEF Phases, Current
<1> QED BY <1>1, <1>4, <1>5 DEF AInv

(* The questions about the whole repository add to the answers and leave the  *)
(* list of worktrees alone.                                                   *)
LEMMA QuestionTyped ==
    ASSUME AInv, ResolveDefaultBranch \/ ListStashes \/ CountObjects
    PROVE  AInv' /\ answers'.list = answers.list
<1>1. /\ answers \in Answers /\ tree \in [Linked -> Tree] /\ todo # <<>> /\ todo \in Seq(MainRepo)
      /\ step \in {"default", "stash", "objects"} /\ step' \in {"stash", "objects", "rows"}
      /\ row = [w \in Linked |-> Unasked]
      /\ UNCHANGED <<tree, unasked, todo, row, report, summary, held, moved, acts>>
  BY DEF AInv, ReportTypeOK, Phases, ResolveDefaultBranch, ListStashes, CountObjects, Inspecting
<1>2. answers' \in Answers /\ answers'.list = answers.list
  <2>1. CASE ResolveDefaultBranch
    <3>1. PICK refs \in {Ref, {"local"}, {}} :
            answers' = [answers EXCEPT !.refs = refs, !.errors = @ + (IF refs = {} THEN 1 ELSE 0)]
      BY <2>1 DEF ResolveDefaultBranch
    <3>2. refs \in SUBSET Ref
      BY DEF Ref
    <3> DEFINE errors == answers.errors + (IF refs = {} THEN 1 ELSE 0)
    <3>3. errors \in Nat
      BY <1>1 DEF Answers
    <3>4. answers' = [answers EXCEPT !.refs = refs, !.errors = errors]
      BY <3>1
    <3> HIDE DEF errors
    <3> QED BY <1>1, <3>2, <3>3, <3>4 DEF Answers
  <2>2. CASE ListStashes
    <3>1. [w \in Linked |-> tree[w].stashes] \in [Linked -> Nat]
      BY <1>1 DEF Tree
    <3> QED BY <1>1, <2>2, <3>1 DEF ListStashes, Answers
  <2>3. CASE CountObjects
    <3>1. gc_signals(Objects[Current]) \in Signals
      BY DEF gc_signals, Signals
    <3> QED BY <1>1, <2>3, <3>1 DEF CountObjects, Answers
  <2> QED BY <2>1, <2>2, <2>3
<1>3. ReportTypeOK'
  BY <1>1, <1>2 DEF AInv, ReportTypeOK
<1>4. Phases'
  BY <1>1, <1>2, UnaskedTyped DEF AInv, Phases
<1> QED BY <1>1, <1>2, <1>3, <1>4 DEF AInv

(* What each question about one worktree leaves of its facts.                 *)
Asked(w, new) ==
    /\ row' = [row EXCEPT ![w] = new]
    /\ Inspecting("rows") /\ w \in DOMAIN answers.list
    /\ UNCHANGED <<tree, unasked, todo, step, answers, report, summary, held, moved, acts>>

LEMMA AskedTyped ==
    ASSUME AInv, NEW w \in Linked, NEW new \in Facts, new.at # "Main", Asked(w, new)
    PROVE  AInv'
<1>1. ReportTypeOK'
  BY DEF AInv, ReportTypeOK, Asked
<1>2. Phases'
  BY DEF AInv, ReportTypeOK, Phases, Asked, Inspecting
<1> QED BY <1>1, <1>2 DEF AInv, Asked

Verdicts == Class \ {"Main"}
LEMMA VerdictTyped == \A w, status, merged : classify_worktree(w, status, merged) \in Verdicts
BY DEF classify_worktree, Class, Verdicts

LEMMA SeeDirectoryAsked ==
    ASSUME AInv, NEW w \in Linked, SeeDirectory(w)
    PROVE  LET new == [row[w] EXCEPT !.exists = tree[w].exists, !.at = "status"]
           IN  new \in Facts /\ Asked(w, new) /\ new.at = "status" /\ new.merged = row[w].merged
<1>1. row \in [Linked -> Facts] /\ tree[w].exists \in BOOLEAN
  BY DEF AInv, ReportTypeOK, Tree
<1> QED BY <1>1 DEF SeeDirectory, Asks, Asked, Facts

LEMMA AskStatusAsked ==
    ASSUME AInv, NEW w \in Linked, AskStatus(w)
    PROVE  \E status \in {NoFact} \cup SUBSET Shown, left \in SUBSET Ref :
             LET new == [row[w] EXCEPT !.status = status, !.at = "merged", !.left = left]
             IN  /\ new \in Facts /\ Asked(w, new)
                 /\ new.at = "merged" /\ new.status = status /\ new.merged = row[w].merged
                 /\ status # NoFact => status = tree[w].files /\ tree[w].exists
<1>1. row \in [Linked -> Facts] /\ tree[w].files \in SUBSET Shown /\ answers.refs \in SUBSET Ref
  BY DEF AInv, ReportTypeOK, Tree, Answers
<1>2. PICK status \in {NoFact} \cup (IF row[w].exists /\ ~answers.list[w].prunable /\ tree[w].exists
                                     THEN {tree[w].files} ELSE {}) :
        row' = [row EXCEPT ![w].status = status, ![w].at = "merged",
                           ![w].left = IF answers.list[w].branch THEN answers.refs ELSE {}]
  BY DEF AskStatus
<1> DEFINE left == IF answers.list[w].branch THEN answers.refs ELSE {}
<1>3. left \in SUBSET Ref /\ status \in {NoFact} \cup SUBSET Shown
  BY <1>1, <1>2
<1>4. status # NoFact => status = tree[w].files /\ tree[w].exists
  BY <1>2
<1> DEFINE new == [row[w] EXCEPT !.status = status, !.at = "merged", !.left = left]
<1>5. row' = [row EXCEPT ![w] = new]
  BY <1>1, <1>2
<1> HIDE DEF left
<1>6. new \in Facts /\ new.at = "merged" /\ new.status = status /\ new.merged = row[w].merged
  BY <1>1, <1>3 DEF Facts
<1>7. Asked(w, new)
  BY <1>5 DEF AskStatus, Asks, Asked
<1> QED BY <1>3, <1>4, <1>6, <1>7

LEMMA AskMergedAsked ==
    ASSUME AInv, NEW w \in Linked, AskMerged(w)
    PROVE  \E merged \in {NoFact, TRUE}, left \in SUBSET Ref, sure \in BOOLEAN :
             LET new == [row[w] EXCEPT !.merged = merged, !.left = left, !.sure = sure]
             IN  /\ new \in Facts /\ Asked(w, new)
                 /\ new.at = "merged" /\ new.status = row[w].status /\ new.merged = merged
                 /\ merged = TRUE => row[w].merged = TRUE \/ tree[w].refs # {}
<1>1. row[w] \in Facts /\ row \in [Linked -> Facts] /\ row[w].at = "merged"
  BY DEF AInv, ReportTypeOK, AskMerged, Asks
<1> DEFINE r == IF "local" \in row[w].left THEN "local" ELSE "origin"
<1>2. CASE r \in tree[w].refs /\ row' = [row EXCEPT ![w].merged = TRUE, ![w].left = {}]
  <2> DEFINE new == [row[w] EXCEPT !.merged = TRUE, !.left = {}, !.sure = row[w].sure]
  <2>1. row' = [row EXCEPT ![w] = new]
    BY <1>1, <1>2 DEF Facts
  <2>2. new \in Facts /\ new.at = "merged" /\ new.status = row[w].status /\ new.merged = TRUE
    BY <1>1 DEF Facts
  <2>3. Asked(w, new) /\ row[w].sure \in BOOLEAN /\ tree[w].refs # {}
    BY <1>1, <1>2, <2>1 DEF AskMerged, Asks, Asked, Facts
  <2> QED BY <2>2, <2>3
<1>3. ASSUME NEW sure \in BOOLEAN, row' = [row EXCEPT ![w].left = @ \ {r}, ![w].sure = sure]
      PROVE  \E merged \in {NoFact, TRUE}, left \in SUBSET Ref, sure1 \in BOOLEAN :
             LET new == [row[w] EXCEPT !.merged = merged, !.left = left, !.sure = sure1]
             IN  /\ new \in Facts /\ Asked(w, new)
                 /\ new.at = "merged" /\ new.status = row[w].status /\ new.merged = merged
                 /\ merged = TRUE => row[w].merged = TRUE \/ tree[w].refs # {}
  <2> DEFINE left == row[w].left \ {r}
             new == [row[w] EXCEPT !.merged = row[w].merged, !.left = left, !.sure = sure]
  <2>1. row' = [row EXCEPT ![w] = new]
    BY <1>1, <1>3 DEF Facts
  <2>2. left \in SUBSET Ref /\ row[w].merged \in {NoFact, TRUE}
    BY <1>1 DEF Facts
  <2> HIDE DEF left
  <2>3. new \in Facts /\ new.at = "merged" /\ new.status = row[w].status /\ new.merged = row[w].merged
    BY <1>1, <2>2 DEF Facts
  <2>4. Asked(w, new)
    BY <2>1 DEF AskMerged, Asks, Asked
  <2> QED BY <2>2, <2>3, <2>4
<1>4. CASE row' = [row EXCEPT ![w].left = @ \ {r}]
  <2>1. row' = [row EXCEPT ![w].left = @ \ {r}, ![w].sure = row[w].sure] /\ row[w].sure \in BOOLEAN
    BY <1>1, <1>4 DEF Facts
  <2> QED BY <2>1, <1>3
<1> QED BY <1>2, <1>3, <1>4 DEF AskMerged

LEMMA ClassifyAsked ==
    ASSUME AInv, NEW w \in Linked, Classify(w)
    PROVE  LET class == classify_worktree(w, row[w].status, merged_into(w))
               new == [row[w] EXCEPT !.at = class]
           IN  /\ new \in Facts /\ Asked(w, new) /\ row[w].at = "merged"
               /\ new.at = class /\ new.status = row[w].status /\ new.merged = row[w].merged
               /\ class # "Main"
<1> DEFINE class == classify_worktree(w, row[w].status, merged_into(w))
           new == [row[w] EXCEPT !.at = class]
<1>1. row \in [Linked -> Facts] /\ row[w] \in Facts
  BY DEF AInv, ReportTypeOK
<1>2. class \in Class /\ class # "Main"
  BY VerdictTyped DEF Verdicts
<1>3. row' = [row EXCEPT ![w] = new] /\ row[w].at = "merged"
  BY <1>1 DEF Classify, Asks
<1> HIDE DEF class
<1>4. new \in Facts /\ new.at = class /\ new.status = row[w].status /\ new.merged = row[w].merged
  BY <1>1, <1>2 DEF Facts
<1>5. Asked(w, new)
  BY <1>3 DEF Classify, Asks, Asked
<1> QED BY <1>2, <1>3, <1>4, <1>5 DEF class

LEMMA QuestionsOfRowsTyped ==
    ASSUME AInv, NEW w \in Linked, SeeDirectory(w) \/ AskStatus(w) \/ AskMerged(w) \/ Classify(w)
    PROVE  AInv'
<1>1. CASE SeeDirectory(w)
  BY <1>1, SeeDirectoryAsked, AskedTyped
<1>2. CASE AskStatus(w)
  BY <1>2, AskStatusAsked, AskedTyped
<1>3. CASE AskMerged(w)
  BY <1>3, AskMergedAsked, AskedTyped
<1>4. CASE Classify(w)
  BY <1>4, ClassifyAsked, AskedTyped
<1> QED BY <1>1, <1>2, <1>3, <1>4

NewStanding ==
    [repo |-> Current, signals |-> answers.signals, errors |-> answers.errors,
     rows |-> [w \in (DOMAIN answers.list) \cup
                     (IF answers.listed /\ Current \notin Bare THEN {Current} ELSE {})
                 |-> IF w \in MainRepo THEN "Main" ELSE row[w].at]]

LEMMA StandingTyped ==
    ASSUME AInv, FinishRepository
    PROVE  /\ NewStanding \in StandingRecord
           /\ report' = Append(report, NewStanding)
           /\ \A w \in DOMAIN NewStanding.rows :
                 /\ w \in Linked \cup {Current}
                 /\ w \in Linked => Home[w] = Current
                 /\ NewStanding.rows[w] = "Main" <=> w \notin Linked
<1> DEFINE all == (DOMAIN answers.list) \cup
                  (IF answers.listed /\ Current \notin Bare THEN {Current} ELSE {})
           rows == [w \in all |-> IF w \in MainRepo THEN "Main" ELSE row[w].at]
<1>1. Current \in MainRepo /\ DOMAIN answers.list \subseteq Linked /\ answers \in Answers
  BY ListsAreFunctions DEF AInv, ReportTypeOK, FinishRepository, Inspecting, Current, Answers
<1>2. \A w \in all : /\ w \in MainRepo \cup Linked /\ w \in Linked \cup {Current}
                     /\ w \in Linked => w \in DOMAIN answers.list
                     /\ w \in MainRepo <=> w \notin Linked
  BY <1>1, WorktreesAssumption
<1>3. \A w \in DOMAIN answers.list : row[w].at \in Class \ {"Main"} /\ Home[w] = Current
  BY <1>1 DEF FinishRepository, AInv, Phases, Current
<1>4. rows = [w \in all |-> IF w \in MainRepo THEN "Main" ELSE row[w].at]
  OBVIOUS
<1>5. NewStanding = [repo |-> Current, signals |-> answers.signals, errors |-> answers.errors, rows |-> rows]
  BY DEF NewStanding
<1>6. report' = Append(report, NewStanding)
  BY DEF FinishRepository, NewStanding
<1> HIDE DEF all, rows
<1>7. all \in SUBSET (MainRepo \cup Linked)
  BY <1>2
<1>8. DOMAIN rows = all /\ \A w \in all : rows[w] = IF w \in MainRepo THEN "Main" ELSE row[w].at
  BY <1>4
<1>9. \A w \in all : rows[w] \in Class /\ (rows[w] = "Main" <=> w \notin Linked)
  <2> SUFFICES ASSUME NEW w \in all PROVE rows[w] \in Class /\ (rows[w] = "Main" <=> w \notin Linked)
    OBVIOUS
  <2>1. CASE w \in MainRepo
    BY <1>2, <1>8, <2>1 DEF Class
  <2>2. CASE w \notin MainRepo
    <3>1. w \in DOMAIN answers.list /\ w \in Linked
      BY <1>2, <2>2
    <3> QED BY <1>3, <1>8, <2>2, <3>1
  <2> QED BY <2>1, <2>2
<1>10. rows \in [all -> Class]
  BY <1>4, <1>9
<1>11. NewStanding \in StandingRecord
  BY <1>1, <1>5, <1>7, <1>10 DEF StandingRecord, Answers
<1>12. \A w \in all : w \in Linked => Home[w] = Current
  BY <1>2, <1>3
<1>13. NewStanding.rows = rows
  BY <1>5
<1> QED
  <2>1. \A w \in all : /\ w \in Linked \cup {Current}
                       /\ w \in Linked => Home[w] = Current
                       /\ NewStanding.rows[w] = "Main" <=> w \notin Linked
    BY <1>2, <1>9, <1>12, <1>13
  <2> QED BY <1>6, <1>8, <1>11, <1>13, <2>1

LEMMA FinishTyped == AInv /\ FinishRepository => AInv'
<1> SUFFICES ASSUME AInv, FinishRepository PROVE AInv'
  OBVIOUS
<1>1. /\ todo' \in Seq(MainRepo) /\ step' = "list" /\ answers' = Nothing
      /\ row' = [w \in Linked |-> Unasked] /\ moved' = [w \in Linked |-> <<>>]
      /\ held' \in [Linked -> BOOLEAN]
  BY DEF AInv, ReportTypeOK, FinishRepository, Inspecting, NextRepository
<1>2. NewStanding \in StandingRecord /\ report' = Append(report, NewStanding) /\ report \in Seq(StandingRecord)
  BY StandingTyped DEF AInv
<1>3. report' \in Seq(StandingRecord)
  BY <1>2
<1>4. \A i \in DOMAIN report' : report'[i] \in StandingRecord
  BY <1>3
<1>5. \A s \in StandingRecord : s.repo \in MainRepo /\ \A w \in DOMAIN s.rows : s.rows[w] \in Class
  BY DEF StandingRecord
<1>6. ReportTypeOK'
  BY <1>1, <1>4, <1>5, NothingTyped, UnaskedTyped DEF AInv, ReportTypeOK, FinishRepository, NextRepository
<1>7. Phases'
  BY <1>1, NothingTyped, UnaskedTyped DEF Phases
<1>8. moved' \in [Linked -> Seq(Deed)]
  BY <1>1
<1> QED BY <1>3, <1>6, <1>7, <1>8 DEF AInv

LEMMA SummarizeTyped == AInv /\ Summarize => AInv'
BY DEF AInv, ReportTypeOK, Phases, Summarize

(* A step of the user changes one worktree and is put on record.              *)
Worked(w, name, after) ==
    /\ Works(w, name, after)
    /\ after \in Tree /\ name \in Deed

LEMMA UserWorks ==
    ASSUME AInv, NEW w \in Linked, User(w)
    PROVE  \E name \in Deed, after \in Tree : Worked(w, name, after)
<1>1. tree[w] \in Tree
  BY DEF AInv, ReportTypeOK
<1>2. CASE Edit(w)
  <2>1. PICK f \in Shown \ tree[w].files :
          Works(w, "edit", [tree[w] EXCEPT !.files = @ \cup {f}])
    BY <1>2 DEF Edit
  <2> QED BY <1>1, <2>1 DEF Worked, Deed, Tree
<1>3. CASE Commit(w)
  <2> DEFINE refs == IF ~tree[w].branch THEN tree[w].refs ELSE IF w \in OnDefault THEN {"local"} ELSE {}
             adrift == tree[w].adrift \/ ~tree[w].branch
  <2>1. Works(w, "commit", [tree[w] EXCEPT !.files = {}, !.refs = refs, !.adrift = adrift])
    BY <1>1, <1>3 DEF Commit, Tree
  <2>2. refs \in SUBSET Ref /\ adrift \in BOOLEAN
    BY <1>1 DEF Tree, Ref
  <2> HIDE DEF refs, adrift
  <2> QED BY <1>1, <2>1, <2>2 DEF Worked, Deed, Tree
<1>4. CASE Stash(w)
  <2>1. tree[w].stashes + 1 \in Nat
    BY <1>1 DEF Tree
  <2>2. Works(w, "stash", [tree[w] EXCEPT !.files = tree[w].files \ {"tracked"}, !.stashes = tree[w].stashes + 1])
    BY <1>1, <1>4 DEF Stash, Tree
  <2> QED BY <1>1, <2>1, <2>2 DEF Worked, Deed, Tree
<1>5. CASE Pop(w)
  <2>1. tree[w].stashes - 1 \in Nat
    BY <1>1, <1>5 DEF Tree, Pop
  <2>2. Works(w, "pop", [tree[w] EXCEPT !.files = tree[w].files \cup {"tracked"}, !.stashes = tree[w].stashes - 1])
    BY <1>1, <1>5 DEF Pop, Tree
  <2> QED BY <1>1, <2>1, <2>2 DEF Worked, Deed, Tree, Shown
<1>6. CASE Merge(w)
  BY <1>1, <1>6 DEF Merge, Worked, Deed, Tree
<1>7. CASE Detach(w)
  BY <1>1, <1>7 DEF Detach, Worked, Deed, Tree
<1>8. CASE Lock(w)
  BY <1>1, <1>8 DEF Lock, Worked, Deed, Tree
<1>9. CASE RemoveTree(w)
  BY <1>1, <1>9 DEF RemoveTree, Worked, Deed, Tree
<1> QED BY <1>2, <1>3, <1>4, <1>5, <1>6, <1>7, <1>8, <1>9 DEF User

LEMMA UserTyped ==
    ASSUME AInv, NEW w \in Linked, User(w)
    PROVE  AInv'
<1>1. PICK name \in Deed, after \in Tree : Worked(w, name, after)
  BY UserWorks
<1>2. Works(w, name, after)
  BY <1>1 DEF Worked
<1>3. tree' \in [Linked -> Tree] /\ held' \in [Linked -> BOOLEAN]
  <2>1. HoldsWork(after) \in BOOLEAN
    BY DEF HoldsWork
  <2> QED BY <1>1, <1>2, <2>1 DEF Works, AInv, ReportTypeOK
<1>4. moved' \in [Linked -> Seq(Deed)]
  BY <1>1, <1>2 DEF Works, AInv
<1>5. ReportTypeOK'
  BY <1>2, <1>3, WorktreesAssumption DEF Works, inspection, AInv, ReportTypeOK
<1>6. Phases'
  BY <1>2 DEF Works, inspection, AInv, Phases
<1> QED BY <1>2, <1>4, <1>5, <1>6 DEF Works, inspection, AInv

LEMMA NextTyped == AInv /\ [ReportNext]_reportVars => AInv'
<1>1. AInv /\ UNCHANGED reportVars => AInv'
  BY DEF AInv, ReportTypeOK, Phases, reportVars
<1> QED
  BY <1>1, DiscoverTyped, DiscoveredTyped, ListTyped, QuestionTyped, QuestionsOfRowsTyped, FinishTyped,
     SummarizeTyped, UserTyped DEF ReportNext

LEMMA ReportTyped == ReportSpec => []AInv
BY InitAInv, NextTyped, PTL DEF ReportSpec

(* Every variable of the report keeps its type, whatever git answers and     *)
(* whatever the user does meanwhile.                                         *)
THEOREM ReportTypeCorrect == ReportSpec => []ReportTypeOK
<1>1. AInv => ReportTypeOK
  BY DEF AInv
<1> QED BY <1>1, ReportTyped, PTL

------------------------------------------------------------------------------
(* One step of the user is seen. *)

StatusKnown(w) == row[w].at \notin {"exists", "status"}
StashKnown == step \in {"objects", "rows"}

(* The facts are those of a worktree in which nothing has happened since the  *)
(* listing.                                                                   *)
Consistent(w) ==
    /\ answers.list[w].branch = tree[w].branch
    /\ answers.stash # NoFact => answers.stash[w] = tree[w].stashes
    /\ StatusKnown(w) /\ row[w].status # NoFact => row[w].status = tree[w].files
    /\ row[w].merged = TRUE => tree[w].refs # {}

(* Something is known already, or still to be seen, that rules out the        *)
(* verdict MergedClean.                                                       *)
Spared(w) ==
    \/ ~answers.list[w].branch
    \/ w \in OnDefault
    \/ StatusKnown(w) /\ (row[w].status = NoFact \/ row[w].status # {})
    \/ ~StatusKnown(w) /\ (tree[w].files # {} \/ ~tree[w].exists)
    \/ StashKnown /\ (answers.stash = NoFact \/ answers.stash[w] # 0)
    \/ ~StashKnown /\ tree[w].stashes # 0
    \/ row[w].merged # TRUE /\ tree[w].refs = {}

CleanIsMeant(w) ==
    row[w].at = "MergedClean" =>
        /\ answers.list[w].branch /\ w \notin OnDefault
        /\ row[w].status # NoFact /\ row[w].status = {} /\ row[w].merged = TRUE
        /\ StashKnown /\ answers.stash # NoFact /\ answers.stash[w] = 0

Watched(w) ==
    /\ CleanIsMeant(w)
    /\ ~StatusKnown(w) => row[w].merged # TRUE
    /\ ~StashKnown => answers.stash = NoFact
    /\ held[w] => HoldsWork(tree[w])
    /\ held[w] /\ Len(moved[w]) = 0 => Consistent(w)
    /\ held[w] /\ Len(moved[w]) <= 1 /\ moved[w] # <<"stash">> => Spared(w)

OInv == AInv /\ \A w \in DOMAIN answers.list : Watched(w)

LEMMA ListedAreLinked == AInv => DOMAIN answers.list \subseteq Linked
BY ListsAreFunctions DEF AInv, ReportTypeOK, Answers

LEMMA OneStepFollows == OInv => OneStepIsSeen
<1> SUFFICES ASSUME OInv, NEW w \in Linked, row[w].at = "MergedClean", held[w]
             PROVE  Len(moved[w]) > 1 \/ moved[w] = <<"stash">>
  BY DEF OneStepIsSeen
<1>1. w \in DOMAIN answers.list
  BY UnaskedTyped DEF OInv, AInv, Phases
<1>2. Watched(w) /\ moved[w] \in Seq(Deed)
  BY <1>1 DEF OInv, AInv
<1>3. ~Spared(w)
  BY <1>2 DEF Watched, CleanIsMeant, Spared, StatusKnown
<1> QED BY <1>2, <1>3 DEF Watched

LEMMA ConsistentIsSpared ==
    ASSUME AInv, NEW w \in DOMAIN answers.list, Consistent(w), HoldsWork(tree[w])
    PROVE  Spared(w)
<1>1. tree[w] \in Tree /\ answers \in Answers
  BY ListedAreLinked DEF AInv, ReportTypeOK
<1>2. tree[w].stashes > 0 => tree[w].stashes # 0
  BY <1>1 DEF Tree
<1>3. CASE tree[w].files # {}
  BY <1>3 DEF Consistent, Spared
<1>4. CASE tree[w].stashes # 0
  BY <1>4 DEF Consistent, Spared
<1>5. CASE tree[w].branch /\ tree[w].refs = {}
  BY <1>5 DEF Consistent, Spared
<1>6. CASE ~tree[w].branch
  BY <1>6 DEF Consistent, Spared
<1> QED BY <1>2, <1>3, <1>4, <1>5, <1>6 DEF HoldsWork

(* A step of the user that is not a stash, in a worktree which held work      *)
(* before and holds work after it.                                            *)
LEMMA FirstStepIsSpared ==
    ASSUME AInv, NEW w \in DOMAIN answers.list, Consistent(w), HoldsWork(tree[w]),
           ~StatusKnown(w) => row[w].merged # TRUE, ~StashKnown => answers.stash = NoFact,
           StatusKnown(w) => StashKnown,
           User(w), ~Stash(w), HoldsWork(tree'[w])
    PROVE  Spared(w)'
<1>1. /\ w \in Linked /\ tree \in [Linked -> Tree] /\ tree[w] \in Tree /\ tree[w].stashes \in Nat
      /\ tree[w].refs \in SUBSET Ref
  BY ListedAreLinked DEF AInv, ReportTypeOK, Tree
<1>2. UNCHANGED <<answers, row, step>>
  BY DEF User, Edit, Commit, Stash, Pop, Merge, Detach, Lock, RemoveTree, Works, inspection
<1>3. (StatusKnown(w))' = StatusKnown(w) /\ StashKnown' = StashKnown
  BY <1>2 DEF StatusKnown, StashKnown
<1>4. Spared(w)
  BY ConsistentIsSpared
<1> USE <1>1, <1>2, <1>3 DEF Spared, Consistent, HoldsWork, Works, Tree
<1>5. CASE Edit(w)
  <2>1. PICK f \in Shown \ tree[w].files :
          Works(w, "edit", [tree[w] EXCEPT !.files = @ \cup {f}])
    BY <1>5 DEF Edit
  <2>2. tree'[w] = [tree[w] EXCEPT !.files = @ \cup {f}]
    BY <2>1
  <2>3. /\ tree'[w].files # {} /\ tree'[w].stashes = tree[w].stashes /\ tree'[w].refs = tree[w].refs
        /\ tree[w].exists
    BY <2>1, <2>2
  <2> QED BY <1>4, <2>3
<1>6. CASE Commit(w)
  BY <1>4, <1>6 DEF Commit
<1>7. CASE Pop(w)
  BY <1>4, <1>7 DEF Pop
<1>8. CASE Merge(w)
  <2>1. PICK r \in Ref \ tree[w].refs :
          Works(w, "merge", [tree[w] EXCEPT !.refs = @ \cup {r}])
    BY <1>8 DEF Merge
  <2>2. tree'[w] = [tree[w] EXCEPT !.refs = @ \cup {r}]
    BY <2>1
  <2>3. /\ tree'[w].files = tree[w].files /\ tree'[w].stashes = tree[w].stashes
        /\ tree'[w].refs # {} /\ tree'[w].branch = tree[w].branch
    BY <2>2
  <2>4. tree[w].files # {} \/ tree[w].stashes # 0 \/ ~tree[w].branch
    BY <2>3
  <2> QED BY <2>3, <2>4
<1>9. CASE Detach(w)
  BY <1>4, <1>9 DEF Detach
<1>10. CASE Lock(w)
  BY <1>4, <1>10 DEF Lock
<1>11. CASE RemoveTree(w)
  BY <1>4, <1>11 DEF RemoveTree
<1> QED BY <1>5, <1>6, <1>7, <1>8, <1>9, <1>10, <1>11 DEF User

LEMMA UserWatched ==
    ASSUME OInv, NEW u \in Linked, User(u)
    PROVE  \A w \in DOMAIN answers'.list : Watched(w)'
<1>1. PICK name \in Deed, after \in Tree : Worked(u, name, after)
  BY UserWorks DEF OInv
<1>2. /\ UNCHANGED <<answers, row, step, todo>> /\ step \notin {"discover", "list"}
      /\ tree' = [tree EXCEPT ![u] = after] /\ moved' = [moved EXCEPT ![u] = Append(moved[u], name)]
      /\ held' = [held EXCEPT ![u] = held[u] /\ HoldsWork(after)]
      /\ tree \in [Linked -> Tree] /\ moved \in [Linked -> Seq(Deed)] /\ held \in [Linked -> BOOLEAN]
  BY <1>1 DEF Worked, Works, inspection, OInv, AInv, ReportTypeOK
<1>3. SUFFICES ASSUME NEW w \in DOMAIN answers.list PROVE Watched(w)'
  BY <1>2
<1>4. Watched(w) /\ AInv /\ w \in Linked
  BY ListedAreLinked DEF OInv
<1>5. (StatusKnown(w))' = StatusKnown(w) /\ StashKnown' = StashKnown
  BY <1>2 DEF StatusKnown, StashKnown
<1>6. CASE w # u
  <2>1. tree'[w] = tree[w] /\ moved'[w] = moved[w] /\ held'[w] = held[w]
    BY <1>2, <1>4, <1>6
  <2>2. (CleanIsMeant(w))' = CleanIsMeant(w) /\ (Consistent(w))' = Consistent(w) /\ (Spared(w))' = Spared(w)
    BY <1>2, <1>5, <2>1 DEF CleanIsMeant, Consistent, Spared
  <2> QED BY <1>2, <1>4, <1>5, <2>1, <2>2 DEF Watched
<1>7. CASE w = u
  <2>1. tree'[w] = after /\ moved'[w] = Append(moved[w], name) /\ held'[w] = (held[w] /\ HoldsWork(after))
    BY <1>2, <1>4, <1>7
  <2>2. moved[w] \in Seq(Deed) /\ moved'[w] \in Seq(Deed) /\ Len(moved'[w]) = Len(moved[w]) + 1 /\ Len(moved[w]) \in Nat
    BY <1>2, <1>4, <2>1
  <2>3. (CleanIsMeant(w))' = CleanIsMeant(w)
    BY <1>2, <1>5 DEF CleanIsMeant
  <2>4. held'[w] => HoldsWork(tree'[w])
    BY <2>1
  <2>5. ASSUME held'[w], Len(moved'[w]) <= 1, moved'[w] # <<"stash">>
        PROVE  Spared(w)'
    <3>1. Len(moved[w]) = 0 /\ held[w]
      <4>1. Len(moved[w]) = 0
        BY <2>2, <2>5
      <4>2. held[w]
        BY <2>1, <2>5
      <4> QED BY <4>1, <4>2
    <3>2. Consistent(w) /\ HoldsWork(tree[w])
      BY <1>4, <3>1 DEF Watched
    <3>3. ~Stash(u)
      <4>1. SUFFICES ASSUME Stash(u) PROVE FALSE
        OBVIOUS
      <4>2. moved'[w] = Append(moved[w], "stash")
        BY <1>2, <1>4, <1>7, <4>1 DEF Stash, Works
      <4>3. moved[w] = <<>>
        BY <2>2, <3>1, EmptySeq
      <4>4. Append(<<>>, "stash") = <<"stash">>
        OBVIOUS
      <4> QED BY <2>5, <4>2, <4>3, <4>4
    <3>4. StatusKnown(w) => StashKnown
      BY <1>4, UnaskedTyped DEF StatusKnown, StashKnown, AInv, Phases
    <3>5. HoldsWork(tree'[w])
      BY <2>4, <2>5
    <3> QED BY <1>4, <1>7, <3>2, <3>3, <3>4, <3>5, FirstStepIsSpared DEF Watched
  <2>6. ~(Len(moved'[w]) = 0)
    BY <2>2
  <2> QED BY <1>2, <1>4, <1>5, <2>3, <2>4, <2>5, <2>6 DEF Watched
<1> QED BY <1>6, <1>7

LEMMA SparedNow ==
    AInv => \A w \in DOMAIN answers.list : Consistent(w) /\ HoldsWork(tree[w]) => Spared(w)
BY ConsistentIsSpared

LEMMA SparedNext ==
    (AInv => \A w \in DOMAIN answers.list : Consistent(w) /\ HoldsWork(tree[w]) => Spared(w))'
BY SparedNow, PTL

(* The inspection asks its questions of a tree that nobody moves meanwhile.   *)
LEMMA ListWatched ==
    ASSUME OInv, ListWorktrees
    PROVE  \A w \in DOMAIN answers'.list : Watched(w)'
<1> DEFINE linked == {w \in Linked : Home[w] = Current}
<1>1. /\ answers = Nothing /\ row = [w \in Linked |-> Unasked] /\ row' = row /\ tree' = tree
      /\ moved' = [w \in Linked |-> <<>>] /\ step' = "default"
      /\ held' = [w \in Linked |-> Home[w] = Current /\ HoldsWork(tree[w])]
  BY DEF ListWorktrees, Inspecting, OInv, AInv, Phases
<1>2. SUFFICES ASSUME NEW w \in DOMAIN answers'.list PROVE Watched(w)'
  OBVIOUS
<1>3. AInv'
  BY ListTyped DEF OInv
<1>4. w \in linked /\ answers'.list[w] = parse_worktree_porcelain(w) /\ answers'.stash = NoFact
  <2>1. CASE answers' = [Nothing EXCEPT !.errors = 1]
    BY <1>2, <2>1, NothingTyped DEF Answers
  <2>2. CASE answers' = [Nothing EXCEPT !.listed = TRUE, !.list = [v \in linked |-> parse_worktree_porcelain(v)]]
    BY <1>2, <2>2 DEF Nothing
  <2> QED BY <2>1, <2>2 DEF ListWorktrees
<1>5. row'[w] = Unasked /\ Unasked.at = "exists" /\ Unasked.merged # TRUE
  BY <1>1, <1>4, UnaskedTyped, WorktreesAssumption DEF Unasked
<1>6. Consistent(w)'
  <2>1. answers'.list[w].branch = tree[w].branch
    BY <1>4 DEF parse_worktree_porcelain
  <2> QED BY <1>1, <1>4, <1>5, <2>1 DEF Consistent, StatusKnown
<1>7. held'[w] => HoldsWork(tree'[w])
  BY <1>1, <1>4
<1>8. (Consistent(w) /\ HoldsWork(tree[w]) => Spared(w))'
  BY <1>2, <1>3, SparedNext
<1> QED BY <1>1, <1>4, <1>5, <1>6, <1>7, <1>8 DEF Watched, CleanIsMeant, StatusKnown, StashKnown

LEMMA QuestionWatched ==
    ASSUME OInv, ResolveDefaultBranch \/ ListStashes \/ CountObjects
    PROVE  \A w \in DOMAIN answers'.list : Watched(w)'
<1>1. answers'.list = answers.list /\ UNCHANGED <<tree, row, held, moved>>
  BY QuestionTyped DEF OInv, ResolveDefaultBranch, ListStashes, CountObjects
<1>2. /\ StashKnown => answers'.stash = answers.stash /\ StashKnown'
      /\ ~StashKnown /\ ~StashKnown' => answers'.stash = answers.stash
      /\ ~StashKnown /\ StashKnown' =>
            answers'.stash \in {answers.stash, [w \in Linked |-> tree[w].stashes]}
  <2>1. answers \in Answers
    BY DEF OInv, AInv, ReportTypeOK
  <2>2. CASE ResolveDefaultBranch
    BY <2>1, <2>2 DEF ResolveDefaultBranch, Inspecting, StashKnown, Answers
  <2>3. CASE ListStashes
    BY <2>1, <2>3 DEF ListStashes, Inspecting, StashKnown, Answers
  <2>4. CASE CountObjects
    BY <2>1, <2>4 DEF CountObjects, Inspecting, StashKnown, Answers
  <2> QED BY <2>2, <2>3, <2>4
<1>3. SUFFICES ASSUME NEW w \in DOMAIN answers.list PROVE Watched(w)'
  BY <1>1
<1>4. Watched(w) /\ w \in Linked /\ tree[w].stashes \in Nat
  BY ListedAreLinked DEF OInv, AInv, ReportTypeOK, Tree
<1>5. (StatusKnown(w))' = StatusKnown(w) /\ row[w].at # "MergedClean"
  <2>1. row = [v \in Linked |-> Unasked]
    BY DEF OInv, AInv, Phases, ResolveDefaultBranch, ListStashes, CountObjects, Inspecting
  <2> QED BY <1>1, <1>4, <2>1, UnaskedTyped DEF StatusKnown
<1>6. CASE StashKnown
  BY <1>1, <1>2, <1>4, <1>5, <1>6 DEF Watched, CleanIsMeant, Consistent, Spared
<1>7. CASE ~StashKnown /\ ~StashKnown'
  BY <1>1, <1>2, <1>4, <1>5, <1>7 DEF Watched, CleanIsMeant, Consistent, Spared
<1>8. CASE ~StashKnown /\ StashKnown'
  <2>1. answers'.stash = NoFact \/ answers'.stash[w] = tree[w].stashes
    BY <1>2, <1>4, <1>8 DEF Watched
  <2>2. Consistent(w) => Consistent(w)'
    BY <1>1, <1>5, <2>1 DEF Consistent
  <2>3. Spared(w) => Spared(w)'
    BY <1>1, <1>5, <1>8, <2>1 DEF Spared
  <2> QED BY <1>1, <1>4, <1>5, <1>8, <2>2, <2>3 DEF Watched, CleanIsMeant
<1> QED BY <1>6, <1>7, <1>8

(* A question about one worktree finds what is there.                         *)
LEMMA RowWatched ==
    ASSUME OInv, NEW u \in Linked, NEW new \in Facts, Asked(u, new),
           row[u].at \in {"exists", "status", "merged"},
           \/ new.at = "status" /\ row[u].at = "exists" /\ new.merged = row[u].merged
           \/ /\ new.at = "merged" /\ row[u].at = "status" /\ new.merged = row[u].merged
              /\ new.status # NoFact => new.status = tree[u].files /\ tree[u].exists
           \/ /\ new.at = "merged" /\ row[u].at = "merged" /\ new.status = row[u].status
              /\ new.merged = TRUE => row[u].merged = TRUE \/ tree[u].refs # {}
           \/ /\ new.at \in Class /\ row[u].at = "merged" /\ new.status = row[u].status
              /\ new.merged = row[u].merged
              /\ new.at = "MergedClean" =>
                   /\ answers.list[u].branch /\ u \notin OnDefault
                   /\ new.status # NoFact /\ new.status = {} /\ new.merged = TRUE
                   /\ answers.stash # NoFact /\ answers.stash[u] = 0
    PROVE  \A w \in DOMAIN answers'.list : Watched(w)'
<1>1. /\ UNCHANGED <<tree, step, answers, held, moved>> /\ row' = [row EXCEPT ![u] = new] /\ step = "rows"
      /\ row \in [Linked -> Facts]
  BY DEF Asked, Inspecting, OInv, AInv, ReportTypeOK
<1>2. StashKnown /\ StashKnown'
  BY <1>1 DEF StashKnown
<1>3. SUFFICES ASSUME NEW w \in DOMAIN answers.list PROVE Watched(w)'
  BY <1>1
<1>4. Watched(w) /\ w \in Linked
  BY ListedAreLinked DEF OInv
<1>5. CASE w # u
  <2>1. row'[w] = row[w]
    BY <1>1, <1>4, <1>5
  <2> QED BY <1>1, <1>2, <1>4, <2>1 DEF Watched, CleanIsMeant, Consistent, Spared, StatusKnown
<1>6. CASE w = u
  <2>1. row'[w] = new
    BY <1>1, <1>4, <1>6
  <2>2. (StatusKnown(w))' <=> new.at \notin {"exists", "status"}
    BY <2>1 DEF StatusKnown
  <2>3. CleanIsMeant(w)'
    BY <1>1, <1>2, <1>6, <2>1 DEF CleanIsMeant
  <2>4. ~(StatusKnown(w))' => new.merged # TRUE
    BY <1>4, <1>6, <2>2 DEF Watched, StatusKnown, Class
  <2>5. Consistent(w) => Consistent(w)'
    BY <1>1, <1>6, <2>1, <2>2 DEF Consistent, StatusKnown, Class
  <2>6. Spared(w) => Spared(w)'
    BY <1>1, <1>2, <1>6, <2>1, <2>2 DEF Spared, StatusKnown, Class
  <2> QED BY <1>1, <1>2, <1>4, <2>1, <2>3, <2>4, <2>5, <2>6 DEF Watched
<1> QED BY <1>5, <1>6

LEMMA QuestionsOfRowsWatched ==
    ASSUME OInv, NEW u \in Linked, SeeDirectory(u) \/ AskStatus(u) \/ AskMerged(u) \/ Classify(u)
    PROVE  \A w \in DOMAIN answers'.list : Watched(w)'
<1>1. AInv
  BY DEF OInv
<1>2. CASE SeeDirectory(u)
  BY <1>1, <1>2, SeeDirectoryAsked, RowWatched DEF SeeDirectory, Asks
<1>3. CASE AskStatus(u)
  BY <1>1, <1>3, AskStatusAsked, RowWatched DEF AskStatus, Asks
<1>4. CASE AskMerged(u)
  BY <1>1, <1>4, AskMergedAsked, RowWatched DEF AskMerged, Asks
<1>5. CASE Classify(u)
  <2> DEFINE class == classify_worktree(u, row[u].status, merged_into(u))
             new == [row[u] EXCEPT !.at = class]
  <2>1. /\ new \in Facts /\ Asked(u, new) /\ row[u].at = "merged" /\ new.at = class
        /\ new.status = row[u].status /\ new.merged = row[u].merged
    BY <1>1, <1>5, ClassifyAsked
  <2>2. class \in Class
    BY VerdictTyped DEF Verdicts
  <2>3. class = "MergedClean" =>
          /\ answers.list[u].branch /\ u \notin OnDefault
          /\ row[u].status # NoFact /\ row[u].status = {} /\ row[u].merged = TRUE
          /\ answers.stash # NoFact /\ answers.stash[u] = 0
    <3>1. SUFFICES ASSUME class = "MergedClean"
                   PROVE  /\ answers.list[u].branch /\ u \notin OnDefault
                          /\ row[u].status # NoFact /\ row[u].status = {} /\ row[u].merged = TRUE
                          /\ answers.stash # NoFact /\ answers.stash[u] = 0
      OBVIOUS
    <3>2. /\ answers.list[u].branch /\ u \notin OnDefault
          /\ row[u].status # NoFact /\ row[u].status = {}
          /\ merged_into(u) # NoFact /\ merged_into(u) # FALSE
          /\ count_stash_refs(u) # NoFact /\ ~(count_stash_refs(u) > 0)
      BY <3>1 DEF classify_worktree
    <3>3. row[u].merged = TRUE
      BY <3>2 DEF merged_into
    <3>4. answers.stash # NoFact /\ ~(answers.stash[u] > 0)
      BY <3>2 DEF count_stash_refs
    <3>5. answers.stash[u] \in Nat
      BY <1>1, <3>4 DEF AInv, ReportTypeOK, Answers
    <3> QED BY <3>2, <3>3, <3>4, <3>5
  <2> HIDE DEF class, new
  <2> QED BY <2>1, <2>2, <2>3, RowWatched
<1> QED BY <1>2, <1>3, <1>4, <1>5

LEMMA NextWatched == OInv /\ [ReportNext]_reportVars => OInv'
<1>1. ASSUME OInv, ReportNext PROVE \A w \in DOMAIN answers'.list : Watched(w)'
  <2>1. CASE Discover \/ Discovered \/ Summarize
    <3>1. UNCHANGED <<tree, answers, row, held, moved>> /\ answers = Nothing
      BY <1>1, <2>1 DEF Discover, Discovered, Summarize, OInv, AInv, Phases
    <3> QED BY <3>1, NothingTyped
  <2>2. CASE FinishRepository
    BY <2>2, NothingTyped DEF FinishRepository, NextRepository
  <2>3. CASE ListWorktrees
    BY <1>1, <2>3, ListWatched
  <2>4. CASE ResolveDefaultBranch \/ ListStashes \/ CountObjects
    BY <1>1, <2>4, QuestionWatched
  <2>5. CASE \E w \in Linked : SeeDirectory(w) \/ AskStatus(w) \/ AskMerged(w) \/ Classify(w)
    BY <1>1, <2>5, QuestionsOfRowsWatched
  <2>6. CASE \E w \in Linked : User(w)
    BY <1>1, <2>6, UserWatched
  <2> QED BY <1>1, <2>1, <2>2, <2>3, <2>4, <2>5, <2>6 DEF ReportNext
<1>2. ASSUME OInv, UNCHANGED reportVars PROVE \A w \in DOMAIN answers'.list : Watched(w)'
  BY <1>2 DEF OInv, reportVars, Watched, CleanIsMeant, Consistent, Spared, StatusKnown, StashKnown
<1> QED BY <1>1, <1>2, NextTyped DEF OInv

(* A worktree that held unsaved work ever since its repository was listed is  *)
(* called merged and clean only if the user did two things in it meanwhile,   *)
(* or stashed: the questions of git_health.rs come in an order in which one   *)
(* step cannot hide the work from all of them.                                *)
THEOREM StepsAreSeen == ReportSpec => []OneStepIsSeen
<1>1. ReportInit => OInv
  BY InitAInv, NothingTyped DEF OInv, ReportInit
<1> QED BY <1>1, NextWatched, OneStepFollows, PTL DEF ReportSpec

------------------------------------------------------------------------------
(* The totals. *)

LEMMA DisjointUnion ==
    ASSUME NEW S, NEW T, IsFiniteSet(S), IsFiniteSet(T), S \cap T = {}
    PROVE  /\ IsFiniteSet(S \cup T)
           /\ Cardinality(S \cup T) = Cardinality(S) + Cardinality(T)
<1>1. Cardinality(S) \in Nat /\ Cardinality(T) \in Nat
  BY FS_CardinalityType
<1>2. /\ IsFiniteSet(S \cup T)
      /\ Cardinality(S \cup T) = Cardinality(S) + Cardinality(T) - Cardinality(S \cap T)
  BY FS_Union
<1>3. Cardinality(S \cap T) = 0
  BY FS_EmptySet
<1> QED BY <1>1, <1>2, <1>3

LEMMA SplitRows ==
    ASSUME NEW s, IsFiniteSet(DOMAIN s.rows), NEW A, NEW B, A \cap B = {}
    PROVE  /\ IsFiniteSet(Rows(s, A)) /\ Cardinality(Rows(s, A)) \in Nat
           /\ Cardinality(Rows(s, A \cup B)) = Cardinality(Rows(s, A)) + Cardinality(Rows(s, B))
<1>1. IsFiniteSet(Rows(s, A)) /\ IsFiniteSet(Rows(s, B))
  BY FS_Subset DEF Rows
<1>2. Rows(s, A \cup B) = Rows(s, A) \cup Rows(s, B) /\ Rows(s, A) \cap Rows(s, B) = {}
  BY DEF Rows
<1> QED BY <1>1, <1>2, DisjointUnion, FS_CardinalityType

(* Every row but the main one is of exactly one of the seven classes.         *)
LEMMA RowsAddUp ==
    ASSUME NEW s, IsFiniteSet(DOMAIN s.rows)
    PROVE  LET n == [c \in Class |-> Cardinality(Rows(s, {c}))]
           IN  /\ n \in [Class -> Nat]
               /\ Cardinality(Rows(s, Class \ {"Main"})) =
                     n["Locked"] + n["Prunable"] + n["Unknown"] + n["Dirty"] + n["Detached"]
                     + n["Unmerged"] + n["MergedClean"]
               /\ Cardinality({w \in DOMAIN s.rows : is_reclaimable(s.rows[w])}) =
                     n["Prunable"] + n["MergedClean"]
<1> DEFINE C(c) == Cardinality(Rows(s, {c}))
<1>1. \A c : C(c) \in Nat
  <2>1. \A c : {c} \cap {} = {}
    OBVIOUS
  <2> QED BY <2>1, SplitRows
<1>2. Cardinality(Rows(s, {"Locked", "Prunable"})) = C("Locked") + C("Prunable")
  <2>1. {"Locked"} \cup {"Prunable"} = {"Locked", "Prunable"} /\ {"Locked"} \cap {"Prunable"} = {}
    OBVIOUS
  <2> QED BY <2>1, SplitRows
<1>3. Cardinality(Rows(s, {"Locked", "Prunable", "Unknown"})) = C("Locked") + C("Prunable") + C("Unknown")
  <2>1. /\ {"Locked", "Prunable"} \cup {"Unknown"} = {"Locked", "Prunable", "Unknown"}
        /\ {"Locked", "Prunable"} \cap {"Unknown"} = {}
    OBVIOUS
  <2> QED BY <1>2, <2>1, SplitRows
<1>4. Cardinality(Rows(s, {"Locked", "Prunable", "Unknown", "Dirty"})) =
        C("Locked") + C("Prunable") + C("Unknown") + C("Dirty")
  <2>1. /\ {"Locked", "Prunable", "Unknown"} \cup {"Dirty"} = {"Locked", "Prunable", "Unknown", "Dirty"}
        /\ {"Locked", "Prunable", "Unknown"} \cap {"Dirty"} = {}
    OBVIOUS
  <2> QED BY <1>3, <2>1, SplitRows
<1>5. Cardinality(Rows(s, {"Unmerged", "MergedClean"})) = C("Unmerged") + C("MergedClean")
  <2>1. {"Unmerged"} \cup {"MergedClean"} = {"Unmerged", "MergedClean"} /\ {"Unmerged"} \cap {"MergedClean"} = {}
    OBVIOUS
  <2> QED BY <2>1, SplitRows
<1>6. Cardinality(Rows(s, {"Detached", "Unmerged", "MergedClean"})) =
        C("Detached") + C("Unmerged") + C("MergedClean")
  <2>1. /\ {"Detached"} \cup {"Unmerged", "MergedClean"} = {"Detached", "Unmerged", "MergedClean"}
        /\ {"Detached"} \cap {"Unmerged", "MergedClean"} = {}
    OBVIOUS
  <2>2. Cardinality(Rows(s, {"Detached", "Unmerged", "MergedClean"})) =
          C("Detached") + Cardinality(Rows(s, {"Unmerged", "MergedClean"}))
    BY <2>1, SplitRows
  <2> HIDE DEF C
  <2> QED BY <1>1, <1>5, <2>2
<1>7. Cardinality(Rows(s, Class \ {"Main"})) =
        C("Locked") + C("Prunable") + C("Unknown") + C("Dirty") + C("Detached") + C("Unmerged") + C("MergedClean")
  <2>1. /\ {"Locked", "Prunable", "Unknown", "Dirty"} \cup {"Detached", "Unmerged", "MergedClean"} = Class \ {"Main"}
        /\ {"Locked", "Prunable", "Unknown", "Dirty"} \cap {"Detached", "Unmerged", "MergedClean"} = {}
    BY DEF Class
  <2>2. Cardinality(Rows(s, Class \ {"Main"})) =
          Cardinality(Rows(s, {"Locked", "Prunable", "Unknown", "Dirty"}))
          + Cardinality(Rows(s, {"Detached", "Unmerged", "MergedClean"}))
    BY <2>1, SplitRows
  <2> HIDE DEF C
  <2> QED BY <1>1, <1>4, <1>6, <2>2
<1>8. Cardinality({w \in DOMAIN s.rows : is_reclaimable(s.rows[w])}) = C("Prunable") + C("MergedClean")
  <2>1. {"Prunable"} \cup {"MergedClean"} = {"Prunable", "MergedClean"} /\ {"Prunable"} \cap {"MergedClean"} = {}
    OBVIOUS
  <2>2. {w \in DOMAIN s.rows : is_reclaimable(s.rows[w])} = Rows(s, {"Prunable", "MergedClean"})
    BY DEF is_reclaimable, Rows
  <2>3. Cardinality(Rows(s, {"Prunable", "MergedClean"})) = C("Prunable") + C("MergedClean")
    BY <2>1, SplitRows
  <2> HIDE DEF C
  <2> QED BY <2>2, <2>3
<1> DEFINE n == [c \in Class |-> Cardinality(Rows(s, {c}))]
<1>9. n \in [Class -> Nat] /\ \A c \in Class : n[c] = C(c)
  BY <1>1
<1>10. {"Locked", "Prunable", "Unknown", "Dirty", "Detached", "Unmerged", "MergedClean"} \subseteq Class
  BY DEF Class
<1> HIDE DEF n, C
<1>11. /\ Cardinality(Rows(s, Class \ {"Main"})) =
             n["Locked"] + n["Prunable"] + n["Unknown"] + n["Dirty"] + n["Detached"]
             + n["Unmerged"] + n["MergedClean"]
       /\ Cardinality({w \in DOMAIN s.rows : is_reclaimable(s.rows[w])}) = n["Prunable"] + n["MergedClean"]
  BY <1>7, <1>8, <1>9, <1>10
<1> QED BY <1>9, <1>11 DEF n

(* Each repository is taken up and reported once, and its rows are its own.   *)
EachOnce ==
    /\ \A i, j \in DOMAIN todo : todo[i] = todo[j] => i = j
    /\ \A i, j \in DOMAIN report : report[i].repo = report[j].repo => i = j
    /\ \A i \in DOMAIN todo, j \in DOMAIN report : todo[i] # report[j].repo

OwnRows(s) ==
    \A w \in DOMAIN s.rows :
        /\ w \in Linked \cup {s.repo}
        /\ w \in Linked => Home[w] = s.repo
        /\ s.rows[w] = "Main" <=> w \notin Linked

Counted(n) == UNION {DOMAIN report[i].rows : i \in 1 .. n}

Totals == [repos : Nat, linked : Nat, reclaimable : Nat, signalled : Nat, tally : [Class -> Nat]]

(* The totals are about the first standings of the report.                    *)
Sums ==
    /\ summary \in Totals /\ summary.repos <= Len(report)
    /\ summary.linked = Cardinality(Counted(summary.repos) \cap Linked)
    /\ summary.linked = summary.tally["Locked"] + summary.tally["Prunable"] + summary.tally["Unknown"]
                        + summary.tally["Dirty"] + summary.tally["Detached"]
                        + summary.tally["Unmerged"] + summary.tally["MergedClean"]
    /\ summary.reclaimable = summary.tally["Prunable"] + summary.tally["MergedClean"]
    /\ summary.tally["Main"] = 0

SumInv ==
    /\ AInv
    /\ EachOnce
    /\ \A i \in DOMAIN report : OwnRows(report[i])
    /\ Sums

LEMMA OwnRowsAreFinite ==
    ASSUME NEW s, OwnRows(s)
    PROVE  IsFiniteSet(DOMAIN s.rows) /\ Rows(s, Class \ {"Main"}) \subseteq Linked
<1>1. IsFiniteSet(Linked \cup {s.repo}) /\ DOMAIN s.rows \subseteq Linked \cup {s.repo}
  BY FS_AddElement, WorktreesAssumption DEF OwnRows
<1>2. IsFiniteSet(DOMAIN s.rows)
  BY <1>1, FS_Subset
<1>3. Rows(s, Class \ {"Main"}) \subseteq Linked
  BY DEF OwnRows, Rows
<1> QED BY <1>2, <1>3

LEMMA SummarizeSums ==
    ASSUME SumInv, Summarize
    PROVE  Sums'
<1> DEFINE k == summary.repos + 1
           s == report[k]
           n == [c \in Class |-> Cardinality(Rows(s, {c}))]
<1>1. summary \in Totals /\ summary.repos \in Nat /\ k \in DOMAIN report /\ k \in 1 .. Len(report)
      /\ report \in Seq(StandingRecord) /\ s \in StandingRecord /\ OwnRows(s)
  BY DEF SumInv, Sums, AInv, Summarize, Totals
<1>2. IsFiniteSet(DOMAIN s.rows)
  BY <1>1, OwnRowsAreFinite
<1>3. /\ n \in [Class -> Nat]
      /\ Cardinality(Rows(s, Class \ {"Main"})) =
           n["Locked"] + n["Prunable"] + n["Unknown"] + n["Dirty"] + n["Detached"]
           + n["Unmerged"] + n["MergedClean"]
      /\ Cardinality({w \in DOMAIN s.rows : is_reclaimable(s.rows[w])}) = n["Prunable"] + n["MergedClean"]
  BY <1>2, RowsAddUp
<1>4. /\ summary'.repos = k
      /\ summary'.linked = summary.linked + Cardinality(Rows(s, Class \ {"Main"}))
      /\ summary'.reclaimable = summary.reclaimable + n["Prunable"] + n["MergedClean"]
      /\ summary'.signalled = summary.signalled + (IF s.signals = {} THEN 0 ELSE 1)
      /\ summary'.tally = [c \in Class |-> summary.tally[c] + (IF c = "Main" THEN 0 ELSE n[c])]
      /\ summary' = [repos |-> summary'.repos, linked |-> summary'.linked, reclaimable |-> summary'.reclaimable,
                     signalled |-> summary'.signalled, tally |-> summary'.tally]
      /\ UNCHANGED report
  <2>1. summary' = summarize(summary, s)
    BY DEF Summarize
  <2>2. "Prunable" \in Class /\ "MergedClean" \in Class
    BY DEF Class
  <2>3. n["Prunable"] \in Nat /\ n["MergedClean"] \in Nat /\ summary.reclaimable \in Nat
    BY <1>1, <1>3, <2>2 DEF Totals
  <2>4. \A c \in Class : n[c] = Cardinality(Rows(s, {c}))
    OBVIOUS
  <2>5. summary'.reclaimable = summary.reclaimable + (n["Prunable"] + n["MergedClean"])
    BY <1>3, <2>1 DEF summarize
  <2>6. summary'.tally = [c \in Class |-> summary.tally[c] + (IF c = "Main" THEN 0 ELSE Cardinality(Rows(s, {c})))]
    BY <2>1 DEF summarize
  <2> HIDE DEF n
  <2>7. summary'.tally = [c \in Class |-> summary.tally[c] + (IF c = "Main" THEN 0 ELSE n[c])]
    BY <2>4, <2>6
  <2> HIDE DEF s
  <2> QED BY <2>1, <2>3, <2>5, <2>7 DEF summarize, Summarize
<1>5. Cardinality(Counted(k) \cap Linked) =
        Cardinality(Counted(summary.repos) \cap Linked) + Cardinality(Rows(s, Class \ {"Main"}))
  <2>1. Counted(k) = Counted(summary.repos) \cup DOMAIN s.rows
    <3>1. 1 .. k = (1 .. summary.repos) \cup {k}
      BY <1>1
    <3> QED BY <3>1 DEF Counted
  <2>2. (DOMAIN s.rows) \cap Linked = Rows(s, Class \ {"Main"})
    <3>1. \A w \in DOMAIN s.rows : s.rows[w] \in Class
      BY <1>1 DEF StandingRecord
    <3> QED BY <1>1, <3>1 DEF OwnRows, Rows
  <2>3. Counted(summary.repos) \cap (DOMAIN s.rows) \cap Linked = {}
    <3>1. SUFFICES ASSUME NEW i \in 1 .. summary.repos, NEW w \in Linked,
                          w \in DOMAIN report[i].rows, w \in DOMAIN s.rows
                   PROVE  FALSE
      BY DEF Counted
    <3>2. i \in DOMAIN report /\ i # k
      BY <1>1
    <3>3. Home[w] = report[i].repo /\ Home[w] = s.repo
      BY <1>1, <3>1, <3>2 DEF SumInv, OwnRows
    <3> QED BY <1>1, <3>2, <3>3 DEF SumInv, EachOnce
  <2>4. IsFiniteSet(Counted(summary.repos) \cap Linked) /\ IsFiniteSet(Rows(s, Class \ {"Main"}))
    BY <1>1, OwnRowsAreFinite, WorktreesAssumption, FS_Subset
  <2>5. Counted(k) \cap Linked = (Counted(summary.repos) \cap Linked) \cup Rows(s, Class \ {"Main"})
    BY <2>1, <2>2
  <2>6. (Counted(summary.repos) \cap Linked) \cap Rows(s, Class \ {"Main"}) = {}
    BY <2>2, <2>3
  <2> QED BY <2>4, <2>5, <2>6, DisjointUnion
<1>6. UNION {DOMAIN report'[i].rows : i \in 1 .. summary'.repos} = Counted(k)
  BY <1>4 DEF Counted
<1>7. {"Main", "Locked", "Prunable", "Unknown", "Dirty", "Detached", "Unmerged", "MergedClean"} = Class
  BY DEF Class
<1>8. summary.tally \in [Class -> Nat] /\ summary.linked \in Nat /\ summary.reclaimable \in Nat /\ summary.signalled \in Nat
  BY <1>1 DEF Totals
<1> HIDE DEF n, s
<1>9. /\ summary'.tally \in [Class -> Nat]
      /\ \A c \in Class \ {"Main"} : summary'.tally[c] = summary.tally[c] + n[c]
      /\ summary'.tally["Main"] = summary.tally["Main"]
  <2>1. \A c \in Class : summary.tally[c] \in Nat /\ n[c] \in Nat /\ summary.tally[c] + 0 = summary.tally[c]
    BY <1>3, <1>8
  <2>2. "Main" \in Class
    BY <1>7
  <2> QED BY <1>4, <2>1, <2>2
<1>10. Cardinality(Rows(s, Class \ {"Main"})) \in Nat
  BY <1>3, <1>7
<1>11. /\ summary.linked = Cardinality(Counted(summary.repos) \cap Linked)
       /\ summary.linked = summary.tally["Locked"] + summary.tally["Prunable"] + summary.tally["Unknown"]
                           + summary.tally["Dirty"] + summary.tally["Detached"]
                           + summary.tally["Unmerged"] + summary.tally["MergedClean"]
       /\ summary.reclaimable = summary.tally["Prunable"] + summary.tally["MergedClean"]
       /\ summary.tally["Main"] = 0
  BY DEF SumInv, Sums
<1>12. summary'.linked = Cardinality(Counted(k) \cap Linked)
  BY <1>4, <1>5, <1>11
<1>13. \A c \in {"Locked", "Prunable", "Unknown", "Dirty", "Detached", "Unmerged", "MergedClean"} :
          summary.tally[c] \in Nat /\ n[c] \in Nat /\ summary'.tally[c] = summary.tally[c] + n[c]
  BY <1>3, <1>7, <1>8, <1>9
<1>14. summary'.linked = summary'.tally["Locked"] + summary'.tally["Prunable"] + summary'.tally["Unknown"]
                        + summary'.tally["Dirty"] + summary'.tally["Detached"]
                        + summary'.tally["Unmerged"] + summary'.tally["MergedClean"]
  <2> DEFINE tly == summary'.tally
             old == summary.tally
  <2>1. /\ tly["Locked"] = old["Locked"] + n["Locked"] /\ tly["Prunable"] = old["Prunable"] + n["Prunable"]
        /\ tly["Unknown"] = old["Unknown"] + n["Unknown"] /\ tly["Dirty"] = old["Dirty"] + n["Dirty"]
        /\ tly["Detached"] = old["Detached"] + n["Detached"] /\ tly["Unmerged"] = old["Unmerged"] + n["Unmerged"]
        /\ tly["MergedClean"] = old["MergedClean"] + n["MergedClean"]
    BY <1>13
  <2>2. /\ old["Locked"] \in Nat /\ old["Prunable"] \in Nat /\ old["Unknown"] \in Nat /\ old["Dirty"] \in Nat
        /\ old["Detached"] \in Nat /\ old["Unmerged"] \in Nat /\ old["MergedClean"] \in Nat
        /\ n["Locked"] \in Nat /\ n["Prunable"] \in Nat /\ n["Unknown"] \in Nat /\ n["Dirty"] \in Nat
        /\ n["Detached"] \in Nat /\ n["Unmerged"] \in Nat /\ n["MergedClean"] \in Nat
    BY <1>13
  <2>3. summary'.linked = (old["Locked"] + old["Prunable"] + old["Unknown"] + old["Dirty"] + old["Detached"]
                           + old["Unmerged"] + old["MergedClean"])
                          + (n["Locked"] + n["Prunable"] + n["Unknown"] + n["Dirty"] + n["Detached"]
                             + n["Unmerged"] + n["MergedClean"])
    BY <1>3, <1>4, <1>11
  <2> HIDE DEF tly, old
  <2>4. summary'.linked = tly["Locked"] + tly["Prunable"] + tly["Unknown"] + tly["Dirty"] + tly["Detached"]
                          + tly["Unmerged"] + tly["MergedClean"]
    BY <2>1, <2>2, <2>3
  <2> QED BY <2>4 DEF tly
<1>15. summary'.reclaimable = summary'.tally["Prunable"] + summary'.tally["MergedClean"]
  <2>1. /\ summary'.tally["Prunable"] = summary.tally["Prunable"] + n["Prunable"]
        /\ summary'.tally["MergedClean"] = summary.tally["MergedClean"] + n["MergedClean"]
        /\ summary.tally["Prunable"] \in Nat /\ summary.tally["MergedClean"] \in Nat
        /\ n["Prunable"] \in Nat /\ n["MergedClean"] \in Nat
    BY <1>13
  <2>2. summary'.reclaimable = summary.reclaimable + n["Prunable"] + n["MergedClean"]
    BY <1>4
  <2> QED BY <1>11, <2>1, <2>2
<1>16. summary' \in Totals
  <2>1. n["Prunable"] \in Nat /\ n["MergedClean"] \in Nat
    BY <1>13
  <2>2. summary'.signalled \in Nat
    <3>1. summary.signalled + 0 \in Nat /\ summary.signalled + 1 \in Nat
      BY <1>8
    <3> QED BY <1>4, <3>1
  <2>3. summary'.repos \in Nat
    BY <1>1, <1>4
  <2>4. summary'.linked \in Nat
    BY <1>4, <1>8, <1>10
  <2>5. summary'.reclaimable \in Nat
    <3>1. summary'.reclaimable = summary.reclaimable + n["Prunable"] + n["MergedClean"]
      BY <1>4
    <3> QED BY <1>8, <2>1, <3>1
  <2> QED BY <1>4, <1>9, <2>2, <2>3, <2>4, <2>5 DEF Totals
<1>17. Len(report') = Len(report) /\ summary'.repos <= Len(report)
  BY <1>1, <1>4
<1>18. summary'.linked = Cardinality((UNION {DOMAIN report'[i].rows : i \in 1 .. summary'.repos}) \cap Linked)
  BY <1>6, <1>12
<1>19. summary'.tally["Main"] = 0
  BY <1>9, <1>11
<1> QED BY <1>14, <1>15, <1>16, <1>17, <1>18, <1>19 DEF Sums, Counted

(* Totals stay what they are while the standings they count stay in place.    *)
LEMMA SumsStay ==
    ASSUME Sums, UNCHANGED summary, Len(report) <= Len(report'),
           \A i \in 1 .. summary.repos : report'[i] = report[i],
           report \in Seq(StandingRecord), report' \in Seq(StandingRecord)
    PROVE  Sums'
<1>1. UNION {DOMAIN report'[i].rows : i \in 1 .. summary'.repos} = Counted(summary.repos)
  BY DEF Counted
<1>2. summary'.linked = Cardinality((UNION {DOMAIN report'[i].rows : i \in 1 .. summary'.repos}) \cap Linked)
  BY <1>1 DEF Sums
<1>3. summary'.repos <= Len(report')
  <2>1. summary.repos \in Nat /\ summary.repos <= Len(report) /\ Len(report) \in Nat /\ Len(report') \in Nat
    BY DEF Sums, Totals
  <2> QED BY <2>1
<1> QED BY <1>2, <1>3 DEF Sums, Counted

LEMMA InitSums == ReportInit => SumInv
<1> SUFFICES ASSUME ReportInit PROVE SumInv
  OBVIOUS
<1>1. todo = <<>> /\ report = <<>> /\ summary = NoSummary /\ DOMAIN todo = {} /\ DOMAIN report = {}
      /\ Len(report) = 0
  BY DEF ReportInit
<1>2. summary.repos = 0 /\ summary.linked = 0 /\ summary.reclaimable = 0 /\ summary.signalled = 0
      /\ \A c \in Class : summary.tally[c] = 0
  BY <1>1 DEF NoSummary
<1>3. summary \in Totals
  BY <1>1 DEF NoSummary, Totals
<1>4. Cardinality(Counted(summary.repos) \cap Linked) = 0
  <2>1. Counted(summary.repos) \cap Linked = {}
    BY <1>2 DEF Counted
  <2> QED BY <2>1, FS_EmptySet
<1>5. {"Main", "Locked", "Prunable", "Unknown", "Dirty", "Detached", "Unmerged", "MergedClean"} = Class
  BY DEF Class
<1>6. Sums
  BY <1>1, <1>2, <1>3, <1>4, <1>5 DEF Sums
<1> QED BY <1>1, <1>6, InitAInv DEF SumInv, EachOnce

(* A repository is taken up only if it is not yet.                            *)
LEMMA DiscoverOnce ==
    ASSUME SumInv, Discover
    PROVE  EachOnce' /\ UNCHANGED <<report, summary>>
<1>1. /\ todo \in Seq(MainRepo) /\ unasked # <<>> /\ unasked \in Seq(MainRepo \cup Linked)
      /\ report = <<>> /\ DOMAIN report = {} /\ UNCHANGED <<report, summary>>
  BY DEF SumInv, AInv, ReportTypeOK, Phases, Discover
<1> DEFINE c == Head(unasked)
<1>2. Common(c) \in MainRepo
  BY <1>1, WorktreesAssumption DEF Common
<1>3. ASSUME todo' = Append(todo, Common(c)), Common(c) \notin Listed(todo)
      PROVE  \A i, j \in DOMAIN todo' : todo'[i] = todo'[j] => i = j
  <2>1. /\ DOMAIN todo' = 1 .. Len(todo) + 1 /\ DOMAIN todo = 1 .. Len(todo) /\ Len(todo) \in Nat
        /\ todo'[Len(todo) + 1] = Common(c)
        /\ \A i \in DOMAIN todo : todo'[i] = todo[i] /\ todo'[i] # Common(c)
    BY <1>1, <1>2, <1>3 DEF Listed
  <2>2. \A i \in DOMAIN todo' : i \in DOMAIN todo \/ i = Len(todo) + 1
    BY <2>1
  <2> QED BY <2>1, <2>2 DEF SumInv, EachOnce
<1>4. \A i, j \in DOMAIN todo' : todo'[i] = todo'[j] => i = j
  <2>1. CASE todo' = todo
    BY <2>1 DEF SumInv, EachOnce
  <2>2. CASE todo' # todo
    BY <1>3, <2>2 DEF Discover, AddRepository
  <2> QED BY <2>1, <2>2
<1> QED BY <1>1, <1>4 DEF EachOnce

(* A finished repository leaves the list of those to inspect.                 *)
LEMMA FinishOnce ==
    ASSUME SumInv, FinishRepository
    PROVE  EachOnce' /\ (\A i \in DOMAIN report' : OwnRows(report'[i])) /\ Sums'
<1>1. /\ todo \in Seq(MainRepo) /\ todo # <<>> /\ report \in Seq(StandingRecord)
      /\ todo' = Tail(todo) /\ UNCHANGED summary
  BY DEF SumInv, AInv, ReportTypeOK, FinishRepository, NextRepository, Inspecting
<1> DEFINE n == Len(report)
<1>2. /\ n \in Nat /\ DOMAIN report = 1 .. n /\ DOMAIN report' = 1 .. n + 1
      /\ report' \in Seq(StandingRecord) /\ Len(report') = n + 1
      /\ \A i \in 1 .. n : report'[i] = report[i]
      /\ report'[n + 1] = NewStanding /\ report'[n + 1].repo = todo[1]
  <2>1. NewStanding.repo = todo[1]
    BY <1>1 DEF NewStanding, Current
  <2>2. report' = Append(report, NewStanding) /\ NewStanding \in StandingRecord
    BY StandingTyped DEF SumInv
  <2> HIDE DEF NewStanding
  <2> QED BY <1>1, <2>1, <2>2
<1>3. /\ DOMAIN todo' = 1 .. Len(todo) - 1 /\ DOMAIN todo = 1 .. Len(todo) /\ Len(todo) \in Nat
      /\ \A i \in DOMAIN todo' : todo'[i] = todo[i + 1] /\ i + 1 \in DOMAIN todo /\ i + 1 # 1
      /\ 1 \in DOMAIN todo
  BY <1>1
<1> HIDE DEF n
<1>4. \A i \in DOMAIN report' : (i \in DOMAIN report /\ report'[i] = report[i]) \/ i = n + 1
  BY <1>2
<1>5. \A i, j \in DOMAIN todo' : todo'[i] = todo'[j] => i = j
  <2>1. \A i, j \in DOMAIN todo' : i \in Int /\ j \in Int /\ (i + 1 = j + 1 => i = j)
    BY <1>3
  <2> QED BY <1>3, <2>1 DEF SumInv, EachOnce
<1>6. \A i, j \in DOMAIN report' : report'[i].repo = report'[j].repo => i = j
  <2>1. \A i \in DOMAIN report : report[i].repo # todo[1]
    BY <1>3 DEF SumInv, EachOnce
  <2> QED BY <1>2, <1>4, <2>1 DEF SumInv, EachOnce
<1>7. \A i \in DOMAIN todo', j \in DOMAIN report' : todo'[i] # report'[j].repo
  <2>1. \A i \in DOMAIN todo' : todo'[i] # todo[1]
    BY <1>3 DEF SumInv, EachOnce
  <2> QED BY <1>2, <1>3, <1>4, <2>1 DEF SumInv, EachOnce
<1>8. \A i \in DOMAIN report' : OwnRows(report'[i])
  <2>1. OwnRows(NewStanding)
    <3>1. NewStanding.repo = Current
      BY DEF NewStanding
    <3> QED BY <3>1, StandingTyped DEF SumInv, OwnRows
  <2> HIDE DEF NewStanding
  <2> QED BY <1>2, <1>4, <2>1 DEF SumInv
<1>9. Sums'
  <2>1. summary.repos \in Nat /\ summary.repos <= n
    BY DEF SumInv, Sums, Totals, n
  <2>2. \A i \in 1 .. summary.repos : report'[i] = report[i]
    BY <1>2, <2>1
  <2>3. Len(report) <= Len(report')
    BY <1>2 DEF n
  <2> QED BY <1>1, <1>2, <2>2, <2>3, SumsStay DEF SumInv
<1> QED BY <1>5, <1>6, <1>7, <1>8, <1>9 DEF EachOnce

LEMMA NextSums == SumInv /\ [ReportNext]_reportVars => SumInv'
<1> SUFFICES ASSUME SumInv, [ReportNext]_reportVars PROVE SumInv'
  OBVIOUS
<1>1. AInv'
  BY NextTyped DEF SumInv
<1>2. ASSUME UNCHANGED <<report, summary>>
      PROVE  Sums' /\ \A i \in DOMAIN report' : OwnRows(report'[i])
  <2>1. Len(report) <= Len(report') /\ report \in Seq(StandingRecord) /\ report' \in Seq(StandingRecord)
    BY <1>2 DEF SumInv, AInv
  <2> QED BY <1>2, <2>1, SumsStay DEF SumInv
<1>3. ASSUME UNCHANGED <<todo, report, summary>> PROVE SumInv'
  BY <1>1, <1>2, <1>3 DEF SumInv, EachOnce, OwnRows
<1>4. CASE UNCHANGED reportVars
  BY <1>3, <1>4 DEF reportVars
<1>5. CASE Discover
  BY <1>1, <1>2, <1>5, DiscoverOnce DEF SumInv, OwnRows
<1>6. CASE FinishRepository
  BY <1>1, <1>6, FinishOnce DEF SumInv, OwnRows
<1>7. CASE Summarize
  BY <1>1, <1>7, SummarizeSums DEF SumInv, EachOnce, OwnRows, Summarize
<1>8. CASE Discovered \/ ListWorktrees \/ ResolveDefaultBranch \/ ListStashes \/ CountObjects
  BY <1>3, <1>8 DEF Discovered, ListWorktrees, ResolveDefaultBranch, ListStashes, CountObjects
<1>9. CASE \E w \in Linked : SeeDirectory(w) \/ AskStatus(w) \/ AskMerged(w) \/ Classify(w)
  BY <1>3, <1>9 DEF SeeDirectory, AskStatus, AskMerged, Classify, Asks
<1>10. CASE \E w \in Linked : User(w)
  BY <1>3, <1>10 DEF User, Edit, Commit, Stash, Pop, Merge, Detach, Lock, RemoveTree, Works, inspection
<1> QED BY <1>4, <1>5, <1>6, <1>7, <1>8, <1>9, <1>10 DEF ReportNext

(* However many checkouts of a repository lie below the roots, it is reported *)
(* once, and the totals count each linked worktree of the rows in one class.  *)
THEOREM TotalsAddUp == ReportSpec => []TotalsAgree
<1>1. SumInv => TotalsAgree
  BY DEF SumInv, EachOnce, Sums, Counted, TotalsAgree
<1> QED BY <1>1, InitSums, NextSums, PTL DEF ReportSpec
=============================================================================

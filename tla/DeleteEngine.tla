----------------------------- MODULE DeleteEngine -----------------------------
(***************************************************************************)
(* One run of delete execute --yes, from the admitted plan to its receipt: *)
(* the concurrent item loop of src/src/nouns/delete.rs, the removers of    *)
(* src/src/integration/fs.rs and the verifier of src/src/domain/receipt.rs *)
(* on a volume that other processes keep changing.  A killed run is a      *)
(* prefix of one of these behaviours: Spec never forces a step.            *)
(***************************************************************************)
EXTENDS Naturals, FiniteSets

CONSTANTS
    Path, Below,        \* the paths, and those strictly inside each of them
    Plan,               \* the item paths of the approved plan
    FileItem,           \* the items planned as PlanItemKind::File
    GithubItem,         \* the items planned as one of the Github kinds
    Target,             \* the directory that a planted symlink points to
    Alias,              \* Alias[p]: the names initially sharing p's inode
    PlannedBytes,       \* what the plan recorded for a file (a real file has 1)
    Volumes,            \* the states the volume may be in when the run starts
    MaxConcurrent,      \* --max-concurrent, or rayon's default width
    MaxClock, MaxMoves  \* bounds: seconds, and moves of other processes

VARIABLES
    node,       \* what each path is
    prot,       \* what resists its unlinking: nothing, a flag that chflags
                \* clears, or something only root can change
    born,       \* when it was created: 0 before the run
    clock,      \* the wall clock, in whole seconds
    phase,      \* running, then sealed in memory, then the receipt's fate
    at,         \* where each item's worker stands
    todo,       \* the entries its walk listed and has not handled yet
    cur,        \* the entry it has just measured
    stat,       \* that measurement
    freed,      \* the bytes it has reported so far
    result,     \* its verdict
    gained,     \* history: the bytes its unlinks really released
    removed,    \* history: the paths unlinked by this run
    moves, meddled \* history: how many moves other processes made, and where

engineVars == <<phase, at, todo, cur, stat, freed, result, gained, removed>>
envVars == <<clock, moves, meddled>>
vars == <<node, prot, born, engineVars, envVars>>

Kind == {"absent", "file", "dir", "link", "dangling"}
Ended == {"written", "dumped", "lost"}
started == 1

Above(p) == {q \in Path : p \in Below[q]}
Subtree(p) == {p} \cup Below[p]

(* An object sits in a directory. *)
IsVolume(nodes) == \A p \in Path : nodes[p] # "absent" => \A q \in Above(p) : nodes[q] = "dir"

ASSUME EngineAssumption ==
    /\ Below \in [Path -> SUBSET Path]
    /\ \A p \in Path : p \notin Below[p]
    /\ \A p \in Path : \A q \in Below[p] : Below[q] \subseteq Below[p]
    /\ Plan \subseteq Path /\ FileItem \subseteq Plan /\ GithubItem \subseteq Plan
    /\ Target \in Path
    /\ Alias \in [Path -> SUBSET Path]
    /\ PlannedBytes \in Nat
    /\ Volumes \subseteq [node : [Path -> Kind], prot : [Path -> {"none", "flag", "root"}]]
    /\ \A v \in Volumes : IsVolume(v.node)
    /\ MaxConcurrent \in Nat \ {0} /\ MaxClock \in Nat \ {0} /\ MaxMoves \in Nat

(* A volume holds finitely many paths.                                        *)
ASSUME FiniteAssumption == IsFiniteSet(Path)

(* A path that is a file has nothing inside it, so Recreate never makes a     *)
(* directory of it.                                                           *)
ASSUME LeafAssumption ==
    \A v \in Volumes : \A p \in Path : v.node[p] = "file" => Below[p] = {}

(* partition_nested_items: an item inside another item is not deleted itself. *)
Nested == {i \in Plan : Above(i) \cap Plan # {}}
TopLevel == Plan \ Nested

Init ==
    /\ \E v \in Volumes : node = v.node /\ prot = v.prot
    /\ born = [p \in Path |-> 0]
    /\ clock = started
    /\ phase = "running"
    /\ at = [i \in TopLevel |-> "queued"]
    /\ todo = [i \in TopLevel |-> {}]
    /\ cur = [i \in TopLevel |-> i]
    /\ stat = [i \in TopLevel |-> 0]
    /\ freed = [i \in TopLevel |-> 0]
    /\ result = [i \in Plan |-> "none"]
    /\ gained = [i \in TopLevel |-> 0]
    /\ removed = {}
    /\ moves = 0
    /\ meddled = {}

------------------------------------------------------------------------------
(* Path::exists follows symlinks. *)
exists(p) == node[p] \notin {"absent", "dangling"}
Children(p) == {q \in Below[p] : node[q] # "absent"}

(* nlink <= 1: no other name of the inode is left.  A path recreated since   *)
(* the run started has an inode of its own.                                  *)
LastName(p) == born[p] > 0 \/ \A q \in Alias[p] \ {p} : node[q] # "file" \/ born[q] > 0
Releases(p) == IF node[p] = "file" /\ LastName(p) THEN 1 ELSE 0

Finish(i, status) ==
    /\ at' = [at EXCEPT ![i] = "done"]
    /\ result' = [result EXCEPT ![i] = status]

(* The unlink or rmdir of one object, on behalf of item i. *)
Remove(i, p) ==
    /\ node' = [node EXCEPT ![p] = "absent"]
    /\ gained' = [gained EXCEPT ![i] = @ + Releases(p)]
    /\ removed' = removed \cup {p}

(* A rayon worker takes the item; classify_nonmutating_outcome decides it if *)
(* it is a GitHub resource or the path is missing.                           *)
CheckExists(i) ==
    /\ phase = "running" /\ at[i] = "queued"
    /\ Cardinality({j \in TopLevel : at[j] \notin {"queued", "done"}}) < MaxConcurrent
    /\ \/ i \in GithubItem /\ Finish(i, "Failed")
       \/ i \notin GithubItem /\ ~exists(i) /\ Finish(i, "SkippedMissing")
       \/ /\ i \notin GithubItem /\ exists(i)
          /\ at' = [at EXCEPT ![i] = IF i \in FileItem THEN "file" ELSE "dir"]
          /\ UNCHANGED result
    /\ UNCHANGED <<node, prot, born, phase, todo, cur, stat, freed, gained, removed, envVars>>

------------------------------------------------------------------------------
(* A file item is measured (the planned size if the stat fails) ... *)
MeasureFile(i) ==
    /\ phase = "running" /\ at[i] = "file"
    /\ stat' = [stat EXCEPT ![i] = IF node[i] = "absent" THEN PlannedBytes ELSE Releases(i)]
    /\ at' = [at EXCEPT ![i] = "measured"]
    /\ UNCHANGED <<node, prot, born, phase, todo, cur, freed, result, gained, removed, envVars>>

(* ... and removed by delete_file, which refuses a symlink and a directory. *)
DeleteFile(i) ==
    /\ phase = "running" /\ at[i] = "measured"
    /\ \/ /\ node[i] = "file" /\ prot[i] = "none"
          /\ Remove(i, i)
          /\ freed' = [freed EXCEPT ![i] = stat[i]]
          /\ Finish(i, "Deleted")
       \/ /\ node[i] # "file" \/ prot[i] # "none"
          /\ Finish(i, "Failed")
          /\ UNCHANGED <<node, freed, gained, removed>>
    /\ UNCHANGED <<prot, born, phase, todo, cur, stat, envVars>>

------------------------------------------------------------------------------
(* Not the code: walking whatever the path resolves to. *)
OpenDirFollowing(i) ==
    /\ phase = "running" /\ at[i] = "dir"
    /\ \/ /\ node[i] \in {"dir", "link"}
          /\ todo' = [todo EXCEPT ![i] = Children(IF node[i] = "dir" THEN i ELSE Target)]
          /\ at' = [at EXCEPT ![i] = "walk"]
          /\ UNCHANGED result
       \/ /\ node[i] \notin {"dir", "link"}
          /\ Finish(i, "Failed")
          /\ UNCHANGED todo
    /\ UNCHANGED <<node, prot, born, phase, cur, stat, freed, gained, removed, envVars>>

(* delete_dir_all_with_progress refuses a symlink and anything that is not a *)
(* directory, then lists the whole subtree.  Checks and listing are one step: *)
(* a path replaced between those system calls is outside this model.          *)
OpenDir(i) ==
    /\ phase = "running" /\ at[i] = "dir"
    /\ \/ /\ node[i] = "dir"
          /\ todo' = [todo EXCEPT ![i] = Children(i)]
          /\ at' = [at EXCEPT ![i] = "walk"]
          /\ UNCHANGED result
       \/ /\ node[i] # "dir"
          /\ Finish(i, "Failed")
          /\ UNCHANGED todo
    /\ UNCHANGED <<node, prot, born, phase, cur, stat, freed, gained, removed, envVars>>

(* The deepest listed entry is measured just before its removal. *)
StatEntry(i, p) ==
    /\ phase = "running" /\ at[i] = "walk"
    /\ p \in todo[i]
    /\ \A q \in todo[i] : Cardinality(Above(q)) <= Cardinality(Above(p))
    /\ cur' = [cur EXCEPT ![i] = p]
    /\ stat' = [stat EXCEPT ![i] = Releases(p)]
    /\ at' = [at EXCEPT ![i] = "entry"]
    /\ UNCHANGED <<node, prot, born, phase, todo, freed, result, gained, removed, envVars>>

Removable(p) == node[p] # "absent" /\ prot[p] = "none" /\ Children(p) = {}

(* Not the code: retrying the entry until it is gone. *)
RemoveEntryRetrying(i) ==
    LET p == cur[i] IN
    /\ phase = "running" /\ at[i] = "entry"
    /\ at' = [at EXCEPT ![i] = "walk"]
    /\ \/ /\ Removable(p)
          /\ Remove(i, p)
          /\ todo' = [todo EXCEPT ![i] = @ \ {p}]
          /\ freed' = [freed EXCEPT ![i] = @ + stat[i]]
       \/ ~Removable(p) /\ UNCHANGED <<node, freed, gained, removed, todo>>
    /\ UNCHANGED <<prot, born, phase, cur, stat, result, envVars>>

(* Not the code: counting the entry whether or not its removal succeeded. *)
RemoveEntryUnchecked(i) ==
    LET p == cur[i] IN
    /\ phase = "running" /\ at[i] = "entry"
    /\ todo' = [todo EXCEPT ![i] = @ \ {p}]
    /\ at' = [at EXCEPT ![i] = "walk"]
    /\ freed' = [freed EXCEPT ![i] = @ + stat[i]]
    /\ \/ Removable(p) /\ Remove(i, p)
       \/ ~Removable(p) /\ UNCHANGED <<node, gained, removed>>
    /\ UNCHANGED <<prot, born, phase, cur, stat, result, envVars>>

(* Its bytes count only if the removal succeeds; a failure is left to the sweep. *)
RemoveEntry(i) ==
    LET p == cur[i] IN
    /\ phase = "running" /\ at[i] = "entry"
    /\ todo' = [todo EXCEPT ![i] = @ \ {p}]
    /\ at' = [at EXCEPT ![i] = "walk"]
    /\ \/ /\ Removable(p)
          /\ Remove(i, p)
          /\ freed' = [freed EXCEPT ![i] = @ + stat[i]]
       \/ ~Removable(p) /\ UNCHANGED <<node, freed, gained, removed>>
    /\ UNCHANGED <<prot, born, phase, cur, stat, result, envVars>>

(* Not the code: taking the end of the walk for the end of the directory. *)
SweepTrusting(i) ==
    /\ phase = "running" /\ at[i] = "walk" /\ todo[i] = {}
    /\ Finish(i, "Deleted")
    /\ UNCHANGED <<node, prot, born, phase, todo, cur, stat, freed, gained, removed, envVars>>

(* After the walk the root always remains: force_remove_dir_all clears the    *)
(* flags it can and goes over the tree again.                                 *)
Sweep(i) ==
    /\ phase = "running" /\ at[i] = "walk" /\ todo[i] = {}
    /\ \/ exists(i)
          /\ at' = [at EXCEPT ![i] = "force"]
          /\ prot' = [p \in Path |-> IF p \in Subtree(i) /\ prot[p] = "flag"
                                     THEN "none" ELSE prot[p]]
          /\ UNCHANGED result
       \/ ~exists(i) /\ Finish(i, "Deleted") /\ UNCHANGED prot
    /\ UNCHANGED <<node, born, phase, todo, cur, stat, freed, gained, removed, envVars>>

(* remove_dir_all takes objects from the leaves up and reports no bytes. *)
ForceRemove(i, p) ==
    /\ phase = "running" /\ at[i] = "force"
    /\ p \in Subtree(i) /\ Removable(p)
    /\ Remove(i, p)
    /\ UNCHANGED <<prot, born, phase, at, todo, cur, stat, freed, result, envVars>>

(* Not the code: an error of the forced removal taken for a missing path. *)
ForceFailsSkipping(i) ==
    /\ phase = "running" /\ at[i] = "force"
    /\ \E p \in Subtree(i) : node[p] # "absent" /\ prot[p] = "root"
    /\ Finish(i, "SkippedMissing")
    /\ UNCHANGED <<node, prot, born, phase, todo, cur, stat, freed, gained, removed, envVars>>

(* It stops at the first object it cannot remove: a protected one, or a       *)
(* directory in which something was created behind its back.                  *)
ForceFails(i) ==
    /\ phase = "running" /\ at[i] = "force"
    /\ \/ \E p \in Subtree(i) : node[p] # "absent" /\ prot[p] = "root"
       \/ \E p \in Below[i] : node[p] # "absent" /\ born[p] > 0
    /\ Finish(i, "Failed")
    /\ UNCHANGED <<node, prot, born, phase, todo, cur, stat, freed, gained, removed, envVars>>

(* Nothing is left at the root: it succeeded, or NotFound says it has been done. *)
ForceDone(i) ==
    /\ phase = "running" /\ at[i] = "force"
    /\ node[i] = "absent"
    /\ Finish(i, "Deleted")
    /\ UNCHANGED <<node, prot, born, phase, todo, cur, stat, freed, gained, removed, envVars>>

------------------------------------------------------------------------------
(* All workers have joined: the nested items' entries, prepared before the   *)
(* loop, are appended and the receipt is sealed.                             *)
Seal ==
    /\ phase = "running"
    /\ \A i \in TopLevel : at[i] = "done"
    /\ phase' = "sealed"
    /\ result' = [i \in Plan |-> IF i \in Nested THEN "SkippedMissing" ELSE result[i]]
    /\ UNCHANGED <<node, prot, born, at, todo, cur, stat, freed, gained, removed, envVars>>

(* write_or_dump_on_full: the file, stdout if the volume is full, or neither. *)
WriteReceipt ==
    /\ phase = "sealed"
    /\ phase' \in Ended
    /\ UNCHANGED <<node, prot, born, at, todo, cur, stat, freed, result, gained, removed, envVars>>

------------------------------------------------------------------------------
(* Other processes: a build recreates what was deleted, a cleaner removes,   *)
(* somebody moves a directory away and leaves a symlink in its place.  None  *)
(* of them renames or relinks inside a directory while it is being walked.   *)
Move(p, kind) ==
    /\ moves < MaxMoves
    /\ moves' = moves + 1
    /\ meddled' = meddled \cup {p}
    /\ node' = [node EXCEPT ![p] = kind]
    /\ born' = [born EXCEPT ![p] = IF kind = "absent" THEN 0 ELSE clock]
    /\ prot' = [prot EXCEPT ![p] = "none"]
    /\ UNCHANGED <<clock, engineVars>>

Recreate(p) ==
    /\ node[p] = "absent"
    /\ \A q \in Above(p) : node[q] = "dir"
    /\ Move(p, IF Below[p] = {} THEN "file" ELSE "dir")

RemoveElsewhere(p) ==
    /\ node[p] # "absent" /\ Children(p) = {}
    /\ Move(p, "absent")

PlantLink(i, kind) ==
    /\ at[i] \in {"queued", "file", "dir", "measured", "done"}
    /\ node[i] = "absent"
    /\ \A q \in Above(i) : node[q] = "dir"
    /\ Move(i, kind)

Tick ==
    /\ clock < MaxClock
    /\ clock' = clock + 1
    /\ UNCHANGED <<node, prot, born, engineVars, moves, meddled>>

------------------------------------------------------------------------------
ItemStep(i) ==
    \/ CheckExists(i) \/ MeasureFile(i) \/ DeleteFile(i) \/ OpenDir(i)
    \/ \E p \in Path : StatEntry(i, p)
    \/ RemoveEntry(i) \/ Sweep(i)
    \/ \E p \in Path : ForceRemove(i, p)
    \/ ForceFails(i) \/ ForceDone(i)

EngineStep == (\E i \in TopLevel : ItemStep(i)) \/ Seal \/ WriteReceipt

Environment ==
    \/ \E p \in Path : Recreate(p) \/ RemoveElsewhere(p)
    \/ \E i \in TopLevel, kind \in {"link", "dangling"} : PlantLink(i, kind)
    \/ Tick

Next == EngineStep \/ Environment

Spec == Init /\ [][Next]_vars

(* The run's own threads keep running until it ends. *)
FairSpec == Spec /\ WF_vars(EngineStep)

------------------------------------------------------------------------------
(* Every variable ranges over what the run and the volume can hold, and the   *)
(* objects of the volume sit in directories.                                  *)
TypeOK ==
    /\ node \in [Path -> Kind] /\ IsVolume(node)
    /\ prot \in [Path -> {"none", "flag", "root"}]
    /\ born \in [Path -> Nat] /\ clock \in Nat \ {0}
    /\ phase \in {"running", "sealed"} \cup Ended
    /\ at \in [TopLevel -> {"queued", "file", "measured", "dir", "walk", "entry", "force", "done"}]
    /\ todo \in [TopLevel -> SUBSET Path]
    /\ cur \in [TopLevel -> Path]
    /\ stat \in [TopLevel -> Nat] /\ freed \in [TopLevel -> Nat] /\ gained \in [TopLevel -> Nat]
    /\ result \in [Plan -> {"none", "Deleted", "SkippedMissing", "Failed"}]
    /\ removed \subseteq Path /\ meddled \subseteq Path /\ moves \in Nat

Gone(p) == node[p] = "absent" \/ born[p] > 0

(* An item is reported Deleted only when nothing that was there before the    *)
(* run is left of it, whatever protects entries of the tree, however the      *)
(* workers interleave and whatever other processes put there meanwhile.       *)
DeletedMeansGone ==
    \A i \in TopLevel : result[i] = "Deleted" => \A p \in Subtree(i) : Gone(p)

(* bytes_freed never exceeds what the run released: hard links are counted    *)
(* with their last name and failed unlinks not at all.  The one exception is  *)
(* a file item that vanished before it was measured and came back before it   *)
(* was unlinked, which is credited with its planned size.                     *)
NeverOverclaims ==
    \A i \in TopLevel : freed[i] <= gained[i] \/ i \in FileItem \cap meddled

(* Every path the run removed is accounted for by an entry of its receipt     *)
(* that admits to having deleted: an item reported skipped lost nothing.      *)
RemovalIsAccounted ==
    phase # "running" =>
        \A p \in removed : \E i \in TopLevel :
            p \in Subtree(i) /\ result[i] \in {"Deleted", "Failed"}

(* Not the code: looking only at the entries reported deleted. *)
ObservedDeleted(i) == phase = "written" /\ result[i] = "Deleted" /\ node[i] # "absent"

(* DeletionReceipt::verify_with, for one entry of a written receipt.          *)
Observed(i) ==
    /\ phase = "written"
    /\ result[i] \in {"Deleted", "SkippedMissing"} /\ i \notin GithubItem
    /\ node[i] # "absent"
    /\ ~(node[i] \in {"link", "dangling"} /\ result[i] = "SkippedMissing")

PathStillExists(i) == Observed(i) /\ born[i] <= started

(* A receipt that verifies vouches for the disk: when no entry is contested,  *)
(* nothing from before the run is left of any item reported deleted or        *)
(* missing, the nested ones included, except a symlink where it was skipped.  *)
AcceptedMeansGone ==
    phase = "written" /\ (\A i \in Plan : ~PathStillExists(i)) =>
        \A i \in Plan \ GithubItem : result[i] \in {"Deleted", "SkippedMissing"} =>
            \A p \in Subtree(i) : Gone(p) \/ node[p] \in {"link", "dangling"}

(* A receipt is rejected as PathStillExists for two reasons only: the path    *)
(* was recreated within the second in which the run started, or the entry is  *)
(* a nested item whose enclosing item failed.                                 *)
RejectionExplained ==
    \A i \in Plan : PathStillExists(i) =>
        \/ born[i] = started
        \/ \E j \in TopLevel : i \in Below[j] /\ result[j] = "Failed"

(* What receipt verify says of a receipt is so, on a volume that builds and    *)
(* cleaners have been changing since: what it accepts is gone, and what it     *)
(* contests it contests for one of the two reasons.                            *)
VerdictIsTrue == AcceptedMeansGone /\ RejectionExplained

Promise == INSTANCE ApprovedDeletion
    WITH OsPath <- {}, Unsure <- {},
         approved <- {[items |-> Plan, acked |-> TRUE]}, gone <- removed

(* The run implements ApprovedDeletion for its plan: no interleaving, planted *)
(* symlink, forced removal or failure makes it remove a path that no item of  *)
(* the approved plan covers.                                                  *)
StaysInPlan == Promise!Spec

(* The workers join and the run reaches the fate of its receipt: no protected *)
(* entry, lost race or recreated path keeps a walk or a sweep going forever.  *)
Terminates == <>(phase \in Ended)

==============================================================================

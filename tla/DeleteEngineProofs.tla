-------------------------- MODULE DeleteEngineProofs --------------------------
(***************************************************************************)
(* Proofs about DeleteEngine, for any volume, plan, number of workers and  *)
(* interference by other processes.                                        *)
(***************************************************************************)
EXTENDS DeleteEngine, FiniteSetTheorems, WellFoundedInduction, TLAPS

(* A walk only lists what is inside its item, and while it lasts nobody     *)
(* puts a symlink in the item's place.                                      *)
Walks ==
    \A i \in TopLevel :
        /\ at[i] \in {"walk", "entry"} => todo[i] \subseteq Below[i]
        /\ at[i] = "entry" => cur[i] \in Below[i]
        /\ at[i] \in {"walk", "entry", "force"} => node[i] \notin {"link", "dangling"}

DInv == TypeOK /\ Walks /\ DeletedMeansGone

LEMMA TopLevelItems == TopLevel \subseteq Plan /\ TopLevel \subseteq Path
BY EngineAssumption DEF TopLevel

LEMMA ReleasesIsNat == \A p : Releases(p) \in Nat
BY DEF Releases

LEMMA SubtreeInPath == \A i \in Path : Subtree(i) \subseteq Path
BY EngineAssumption DEF Subtree

(* An object that is no directory has nothing inside it.                    *)
LEMMA InsideDirectory ==
    ASSUME TypeOK, NEW p \in Path, node[p] # "dir"
    PROVE  \A q \in Below[p] : node[q] = "absent"
BY EngineAssumption DEF TypeOK, IsVolume, Above

(* Taking a childless object away leaves a volume.                          *)
LEMMA RemoveKeepsVolume ==
    ASSUME TypeOK, NEW p \in Path, Children(p) = {},
           node' = [node EXCEPT ![p] = "absent"]
    PROVE  node' \in [Path -> Kind] /\ IsVolume(node)'
BY EngineAssumption DEF TypeOK, IsVolume, Above, Children, Kind

(* Creating an object inside directories leaves a volume.                   *)
LEMMA CreateKeepsVolume ==
    ASSUME TypeOK, NEW p \in Path, NEW kind \in Kind,
           node[p] = "absent", \A q \in Above(p) : node[q] = "dir",
           node' = [node EXCEPT ![p] = kind]
    PROVE  node' \in [Path -> Kind] /\ IsVolume(node)'
BY InsideDirectory, EngineAssumption DEF TypeOK, IsVolume, Above, Kind

------------------------------------------------------------------------------
(* What the steps of one worker do to the types.                            *)
LEMMA ItemKeepsTypeOK ==
    ASSUME TypeOK, Walks, NEW i \in TopLevel, ItemStep(i)
    PROVE  TypeOK'
<1> USE TopLevelItems, ReleasesIsNat DEF Finish, envVars
<1>1. i \in Plan /\ i \in Path
  BY TopLevelItems
<1>2. ASSUME NEW p \in Path, Remove(i, p), Children(p) = {}
      PROVE  /\ node' \in [Path -> Kind] /\ IsVolume(node)'
             /\ gained' \in [TopLevel -> Nat] /\ removed' \subseteq Path
  <2>1. node' \in [Path -> Kind] /\ IsVolume(node)'
    BY <1>2, RemoveKeepsVolume DEF Remove
  <2>2. gained' \in [TopLevel -> Nat] /\ removed' \subseteq Path
    BY <1>2 DEF Remove, TypeOK
  <2>3. QED
    BY <2>1, <2>2
<1>3. CASE CheckExists(i)
  BY <1>1, <1>3 DEF CheckExists, TypeOK
<1>4. CASE MeasureFile(i)
  BY <1>1, <1>4, EngineAssumption DEF MeasureFile, TypeOK
<1>5. CASE DeleteFile(i)
  <2>1. node[i] = "file" => Children(i) = {}
    BY <1>1, InsideDirectory DEF Children
  <2>2. /\ node' \in [Path -> Kind] /\ IsVolume(node)'
        /\ gained' \in [TopLevel -> Nat] /\ removed' \subseteq Path
    BY <1>1, <1>2, <1>5, <2>1 DEF DeleteFile, TypeOK
  <2>3. freed' \in [TopLevel -> Nat]
    BY <1>5 DEF DeleteFile, TypeOK
  <2>4. QED
    BY <1>1, <1>5, <2>2, <2>3 DEF DeleteFile, TypeOK
<1>6. CASE OpenDir(i)
  <2>1. Children(i) \subseteq Path
    BY <1>1, EngineAssumption DEF Children
  <2>2. QED
    BY <1>1, <1>6, <2>1 DEF OpenDir, TypeOK
<1>7. CASE \E p \in Path : StatEntry(i, p)
  BY <1>1, <1>7 DEF StatEntry, TypeOK
<1>8. CASE RemoveEntry(i)
  <2>1. cur[i] \in Path
    BY <1>1 DEF TypeOK
  <2>2. /\ node' \in [Path -> Kind] /\ IsVolume(node)'
        /\ gained' \in [TopLevel -> Nat] /\ removed' \subseteq Path
    BY <1>2, <1>8, <2>1 DEF RemoveEntry, Removable, TypeOK
  <2>3. freed' \in [TopLevel -> Nat] /\ todo' \in [TopLevel -> SUBSET Path]
    BY <1>1, <1>8 DEF RemoveEntry, TypeOK
  <2>4. QED
    BY <1>1, <1>8, <2>2, <2>3 DEF RemoveEntry, TypeOK
<1>9. CASE Sweep(i)
  <2>1. prot' \in [Path -> {"none", "flag", "root"}]
    BY <1>9 DEF Sweep, TypeOK
  <2>2. QED
    BY <1>1, <1>9, <2>1 DEF Sweep, TypeOK
<1>10. ASSUME NEW p \in Path, ForceRemove(i, p)
       PROVE  TypeOK'
  <2>1. /\ node' \in [Path -> Kind] /\ IsVolume(node)'
        /\ gained' \in [TopLevel -> Nat] /\ removed' \subseteq Path
    BY <1>2, <1>10 DEF ForceRemove, Removable
  <2>2. QED
    BY <1>1, <1>10, <2>1 DEF ForceRemove, TypeOK
<1>11. CASE ForceFails(i)
  BY <1>1, <1>11 DEF ForceFails, TypeOK
<1>12. CASE ForceDone(i)
  BY <1>1, <1>12 DEF ForceDone, TypeOK
<1>13. QED
  BY <1>3, <1>4, <1>5, <1>6, <1>7, <1>8, <1>9, <1>10, <1>11, <1>12 DEF ItemStep

(* A move of another process, which creates or removes one object.          *)
LEMMA MoveKeepsTypeOK ==
    ASSUME TypeOK, NEW p \in Path, NEW kind \in Kind, Move(p, kind),
           node' \in [Path -> Kind], IsVolume(node)'
    PROVE  TypeOK'
BY DEF Move, TypeOK, engineVars

LEMMA EnvironmentMoves ==
    ASSUME TypeOK, Environment
    PROVE  \/ Tick
           \/ \E p \in Path, kind \in Kind :
                 /\ Move(p, kind)
                 /\ node' \in [Path -> Kind] /\ IsVolume(node)'
                 /\ kind \in {"link", "dangling"} =>
                        (p \in TopLevel =>
                             at[p] \in {"queued", "file", "dir", "measured", "done"})
<1>1. ASSUME NEW p \in Path, Recreate(p)
      PROVE  \E kind \in {"file", "dir"} :
                Move(p, kind) /\ node' \in [Path -> Kind] /\ IsVolume(node)'
  BY <1>1, CreateKeepsVolume DEF Recreate, Move, Kind
<1>2. ASSUME NEW p \in Path, RemoveElsewhere(p)
      PROVE  Move(p, "absent") /\ node' \in [Path -> Kind] /\ IsVolume(node)'
  BY <1>2, RemoveKeepsVolume DEF RemoveElsewhere, Move
<1>3. ASSUME NEW i \in TopLevel, NEW kind \in {"link", "dangling"}, PlantLink(i, kind)
      PROVE  /\ Move(i, kind) /\ node' \in [Path -> Kind] /\ IsVolume(node)'
             /\ at[i] \in {"queued", "file", "dir", "measured", "done"}
  BY <1>3, CreateKeepsVolume, TopLevelItems DEF PlantLink, Move, Kind
<1>4. QED
  BY <1>1, <1>2, <1>3, TopLevelItems DEF Environment, Kind

LEMMA StepKeepsTypeOK ==
    ASSUME TypeOK, Walks, Next
    PROVE  TypeOK'
<1>1. CASE \E i \in TopLevel : ItemStep(i)
  BY <1>1, ItemKeepsTypeOK
<1>2. CASE Seal
  <2>1. result' \in [Plan -> {"none", "Deleted", "SkippedMissing", "Failed"}]
    BY <1>2 DEF Seal, TypeOK
  <2>2. QED
    BY <1>2, <2>1 DEF Seal, TypeOK, envVars
<1>3. CASE WriteReceipt
  BY <1>3 DEF WriteReceipt, TypeOK, Ended, envVars
<1>4. CASE Tick
  BY <1>4 DEF Tick, TypeOK, engineVars
<1>5. CASE Environment
  BY <1>4, <1>5, EnvironmentMoves, MoveKeepsTypeOK
<1>6. QED
  BY <1>1, <1>2, <1>3, <1>5 DEF Next, EngineStep

------------------------------------------------------------------------------
LEMMA ItemKeepsWalks ==
    ASSUME TypeOK, Walks, NEW i \in TopLevel, ItemStep(i)
    PROVE  Walks'
<1> USE TopLevelItems DEF Walks, TypeOK, Finish, Remove
<1>1. CASE CheckExists(i)
  BY <1>1 DEF CheckExists
<1>2. CASE MeasureFile(i)
  BY <1>2 DEF MeasureFile
<1>3. CASE DeleteFile(i)
  BY <1>3 DEF DeleteFile
<1>4. CASE OpenDir(i)
  BY <1>4 DEF OpenDir, Children
<1>5. CASE \E p \in Path : StatEntry(i, p)
  BY <1>5 DEF StatEntry
<1>6. CASE RemoveEntry(i)
  BY <1>6 DEF RemoveEntry
<1>7. CASE Sweep(i)
  BY <1>7 DEF Sweep
<1>8. CASE \E p \in Path : ForceRemove(i, p)
  BY <1>8 DEF ForceRemove
<1>9. CASE ForceFails(i) \/ ForceDone(i)
  BY <1>9 DEF ForceFails, ForceDone
<1>10. QED
  BY <1>1, <1>2, <1>3, <1>4, <1>5, <1>6, <1>7, <1>8, <1>9 DEF ItemStep

LEMMA StepKeepsWalks ==
    ASSUME TypeOK, Walks, Next
    PROVE  Walks'
<1>1. CASE \E i \in TopLevel : ItemStep(i)
  BY <1>1, ItemKeepsWalks
<1>2. CASE Seal \/ WriteReceipt \/ Tick
  BY <1>2 DEF Seal, WriteReceipt, Tick, Walks, engineVars
<1>3. ASSUME NEW p \in Path, NEW kind \in Kind, Move(p, kind),
             kind \in {"link", "dangling"} =>
                 (p \in TopLevel => at[p] \in {"queued", "file", "dir", "measured", "done"})
      PROVE  Walks'
  BY <1>3, TopLevelItems DEF Move, Walks, TypeOK, engineVars
<1>4. QED
  BY <1>1, <1>2, <1>3, EnvironmentMoves DEF Next, EngineStep

------------------------------------------------------------------------------
(* What is gone stays gone: the run only takes away, and whatever another    *)
(* process creates carries a later birth time.                               *)
LEMMA GoneStaysGone ==
    ASSUME TypeOK, Next, NEW p \in Path, Gone(p)
    PROVE  Gone(p)'
<1>1. ASSUME NEW q \in Path, NEW kind \in Kind, Move(q, kind)
      PROVE  Gone(p)'
  BY <1>1 DEF Move, Gone, TypeOK
<1>2. CASE Environment
  BY <1>1, <1>2, EnvironmentMoves DEF Tick, Gone
<1>3. CASE EngineStep
  BY <1>3, TopLevelItems
     DEF EngineStep, ItemStep, Gone, TypeOK, CheckExists, MeasureFile, DeleteFile, OpenDir,
         StatEntry, RemoveEntry, Sweep, ForceRemove, ForceFails, ForceDone, Remove, Seal,
         WriteReceipt
<1>4. QED
  BY <1>2, <1>3 DEF Next

(* An item is given the verdict Deleted only once its tree is gone.          *)
LEMMA VerdictDeleted ==
    ASSUME TypeOK, Walks, NEW i \in TopLevel, NEW j \in TopLevel, ItemStep(i),
           result[j] # "Deleted", result'[j] = "Deleted"
    PROVE  \A p \in Subtree(j) : Gone(p)'
<1>1. i = j /\ i \in Path /\ i \in Plan
  BY TopLevelItems
     DEF TypeOK, ItemStep, Finish, CheckExists, MeasureFile, DeleteFile, OpenDir, StatEntry,
         RemoveEntry, Sweep, ForceRemove, ForceFails, ForceDone
<1>2. \/ DeleteFile(i) /\ node[i] = "file" /\ Remove(i, i)
      \/ Sweep(i) /\ ~exists(i)
      \/ ForceDone(i)
  BY <1>1
     DEF TypeOK, ItemStep, Finish, CheckExists, MeasureFile, DeleteFile, OpenDir, StatEntry,
         RemoveEntry, Sweep, ForceRemove, ForceFails, ForceDone
<1>3. CASE DeleteFile(i) /\ node[i] = "file" /\ Remove(i, i)
  <2>1. \A q \in Below[i] : node[q] = "absent"
    BY <1>1, <1>3, InsideDirectory
  <2>2. node'[i] = "absent" /\ \A q \in Below[i] : node'[q] = "absent"
    BY <1>1, <1>3, <2>1, EngineAssumption DEF Remove, TypeOK
  <2>3. QED
    BY <1>1, <2>2 DEF Subtree, Gone
<1>4. CASE (Sweep(i) /\ ~exists(i)) \/ ForceDone(i)
  <2>1. node[i] = "absent" /\ node' = node
    BY <1>4 DEF Sweep, ForceDone, exists, Walks
  <2>2. \A q \in Below[i] : node[q] = "absent"
    BY <1>1, <2>1, InsideDirectory
  <2>3. QED
    BY <1>1, <2>1, <2>2 DEF Subtree, Gone
<1>5. QED
  BY <1>2, <1>3, <1>4

LEMMA StepKeepsDeletedMeansGone ==
    ASSUME DInv, Next
    PROVE  DeletedMeansGone'
<1> SUFFICES ASSUME NEW j \in TopLevel, result'[j] = "Deleted"
             PROVE  \A p \in Subtree(j) : Gone(p)'
  BY DEF DeletedMeansGone
<1>1. CASE result[j] = "Deleted"
  BY <1>1, GoneStaysGone, SubtreeInPath, TopLevelItems DEF DInv, DeletedMeansGone
<1>2. CASE result[j] # "Deleted"
  <2>1. \E i \in TopLevel : ItemStep(i)
    <3>1. ~Seal
      BY <1>2, TopLevelItems DEF Seal, TopLevel
    <3>2. ~WriteReceipt
      BY <1>2 DEF WriteReceipt
    <3>3. ~Environment
      BY <1>2 DEF Environment, Recreate, RemoveElsewhere, PlantLink, Move, Tick, engineVars
    <3>4. QED
      BY <3>1, <3>2, <3>3 DEF Next, EngineStep
  <2>2. QED
    BY <1>2, <2>1, VerdictDeleted DEF DInv
<1>3. QED
  BY <1>1, <1>2

LEMMA InitDInv == Init => DInv
BY EngineAssumption, TopLevelItems
   DEF Init, DInv, TypeOK, Walks, DeletedMeansGone, started, Ended

LEMMA NextKeepsDInv == DInv /\ [Next]_vars => DInv'
<1>1. ASSUME DInv, Next
      PROVE  DInv'
  BY <1>1, StepKeepsTypeOK, StepKeepsWalks, StepKeepsDeletedMeansGone DEF DInv
<1>2. ASSUME DInv, UNCHANGED vars
      PROVE  DInv'
  BY <1>2 DEF DInv, TypeOK, Walks, DeletedMeansGone, Gone, vars, engineVars, envVars
<1>3. QED
  BY <1>1, <1>2

LEMMA DInvHolds == Spec => []DInv
BY InitDInv, NextKeepsDInv, PTL DEF Spec

------------------------------------------------------------------------------
(* Type correctness of the run, and the volume stays a tree.                 *)
THEOREM EngineTypeCorrect == Spec => []TypeOK
<1>1. DInv => TypeOK
  BY DEF DInv
<1>2. QED
  BY <1>1, DInvHolds, PTL

(* Whatever the plan, the volume, the number of workers and the moves of     *)
(* other processes: an item reported Deleted has nothing left of what was    *)
(* there before the run.                                                     *)
THEOREM DeletedIsGone == Spec => []DeletedMeansGone
<1>1. DInv => DeletedMeansGone
  BY DEF DInv
<1>2. QED
  BY <1>1, DInvHolds, PTL

(* The run implements ApprovedDeletion: it removes nothing that no item of   *)
(* the approved plan covers.                                                 *)
THEOREM EngineStaysInPlan == Spec => StaysInPlan
<1> DEFINE given == [items |-> Plan, acked |-> TRUE]
<1>1. Init => Promise!Init
  BY EngineAssumption DEF Init, Promise!Init, Promise!Approval, Promise!Admissible
<1>2. ASSUME DInv, NEW i \in TopLevel, ItemStep(i)
      PROVE  Promise!Remove \/ UNCHANGED removed
  <2>1. ASSUME NEW p \in Path, p \in Subtree(i), removed' = removed \cup {p}
        PROVE  Promise!Remove
    BY <2>1, TopLevelItems DEF Promise!Remove, Promise!Covered, Subtree
  <2>2. i \in Path /\ i \in Subtree(i)
    BY TopLevelItems DEF Subtree
  <2>3. CASE DeleteFile(i)
    BY <2>1, <2>2, <2>3 DEF DeleteFile, Remove
  <2>4. CASE RemoveEntry(i)
    <3>1. cur[i] \in Path /\ cur[i] \in Subtree(i)
      BY <1>2, <2>4 DEF RemoveEntry, DInv, Walks, TypeOK, Subtree
    <3>2. QED
      BY <2>1, <2>4, <3>1 DEF RemoveEntry, Remove
  <2>5. CASE \E p \in Path : ForceRemove(i, p)
    BY <2>1, <2>5 DEF ForceRemove, Remove
  <2>6. CASE UNCHANGED removed
    BY <2>6
  <2>7. QED
    BY <1>2, <2>3, <2>4, <2>5, <2>6
       DEF ItemStep, CheckExists, MeasureFile, OpenDir, StatEntry, Sweep, ForceFails, ForceDone
<1>3. DInv /\ [Next]_vars => [Promise!Next]_<<{given}, removed>>
  <2> SUFFICES ASSUME DInv, [Next]_vars
               PROVE  Promise!Remove \/ UNCHANGED removed
    BY DEF Promise!Next
  <2>1. CASE \E i \in TopLevel : ItemStep(i)
    BY <1>2, <2>1
  <2>2. CASE Seal \/ WriteReceipt
    BY <2>2 DEF Seal, WriteReceipt
  <2>3. CASE Environment
    BY <2>3 DEF Environment, Recreate, RemoveElsewhere, PlantLink, Move, Tick, engineVars
  <2>4. CASE UNCHANGED vars
    BY <2>4 DEF vars, engineVars
  <2>5. QED
    BY <2>1, <2>2, <2>3, <2>4 DEF Next, EngineStep
<1>4. QED
  BY <1>1, <1>3, DInvHolds, PTL DEF Spec, StaysInPlan, Promise!Spec

------------------------------------------------------------------------------
(* Where an item's worker stands and what it has found agree.               *)
StagesAgree ==
    /\ \A i \in TopLevel :
          /\ at[i] \in {"queued", "file", "measured", "dir"} => freed[i] = 0
          /\ at[i] \in {"file", "measured"} => i \in FileItem
          /\ at[i] = "done" => result[i] # "none"
    /\ phase # "running" =>
          /\ \A i \in TopLevel : at[i] = "done"
          /\ \A i \in Nested : result[i] = "SkippedMissing"

(* What has been removed was removed on behalf of an item whose worker walks *)
(* it, or has ended with a verdict that admits to it.                        *)
Admits(i) ==
    \/ at[i] \in {"walk", "entry", "force"}
    \/ at[i] = "done" /\ result[i] \in {"Deleted", "Failed"}
RemovedByWalkers == \A p \in removed : \E i \in TopLevel : p \in Subtree(i) /\ Admits(i)

(* A missing item was missing, or a symlink to nowhere.                      *)
SkippedAreMissing ==
    \A i \in TopLevel : result[i] = "SkippedMissing" => Gone(i) \/ node[i] = "dangling"

(* Nothing from before the run is in a directory that was created during it. *)
NewInsideNew == \A p \in Path : born[p] > 0 => \A q \in Below[p] : Gone(q)

VInv == DInv /\ StagesAgree /\ RemovedByWalkers /\ SkippedAreMissing /\ NewInsideNew

LEMMA StepKeepsStagesAgree ==
    ASSUME DInv, StagesAgree, Next
    PROVE  StagesAgree'
<1> USE TopLevelItems DEF StagesAgree, DInv, TypeOK
<1>1. ASSUME NEW i \in TopLevel, ItemStep(i)
      PROVE  StagesAgree'
  <2>1. phase = "running" /\ phase' = "running"
    BY <1>1 DEF ItemStep, CheckExists, MeasureFile, DeleteFile, OpenDir, StatEntry, RemoveEntry,
                Sweep, ForceRemove, ForceFails, ForceDone
  <2>2. CASE CheckExists(i)
    BY <2>1, <2>2 DEF CheckExists, Finish
  <2>3. CASE DeleteFile(i) \/ MeasureFile(i) \/ OpenDir(i)
    BY <2>1, <2>3 DEF DeleteFile, MeasureFile, OpenDir, Finish
  <2>4. CASE (\E p \in Path : StatEntry(i, p)) \/ RemoveEntry(i)
    BY <2>1, <2>4 DEF StatEntry, RemoveEntry
  <2>5. CASE Sweep(i) \/ (\E p \in Path : ForceRemove(i, p)) \/ ForceFails(i) \/ ForceDone(i)
    BY <2>1, <2>5 DEF Sweep, ForceRemove, ForceFails, ForceDone, Finish
  <2>6. QED
    BY <1>1, <2>2, <2>3, <2>4, <2>5 DEF ItemStep
<1>2. CASE Seal
  BY <1>2 DEF Seal, TopLevel, Nested
<1>3. CASE WriteReceipt
  BY <1>3 DEF WriteReceipt
<1>4. CASE Environment
  BY <1>4 DEF Environment, Recreate, RemoveElsewhere, PlantLink, Move, Tick, engineVars
<1>5. QED
  BY <1>1, <1>2, <1>3, <1>4 DEF Next, EngineStep

LEMMA StepKeepsRemovedByWalkers ==
    ASSUME DInv, RemovedByWalkers, Next
    PROVE  RemovedByWalkers'
<1> USE TopLevelItems DEF DInv, TypeOK
<1>1. ASSUME NEW i \in TopLevel, ItemStep(i)
      PROVE  RemovedByWalkers'
  <2>1. \A j \in TopLevel : Admits(j) => Admits(j)'
    BY <1>1 DEF Admits, Finish, ItemStep, CheckExists, MeasureFile, DeleteFile, OpenDir,
                StatEntry, RemoveEntry, Sweep, ForceRemove, ForceFails, ForceDone
  <2>2. \A p \in removed' \ removed : p \in Subtree(i) /\ Admits(i)'
    <3>1. CASE DeleteFile(i)
      BY <3>1 DEF DeleteFile, Remove, Finish, Subtree, Admits
    <3>2. CASE RemoveEntry(i)
      BY <3>2 DEF RemoveEntry, Remove, Subtree, Admits, Walks
    <3>3. CASE \E p \in Path : ForceRemove(i, p)
      BY <3>3 DEF ForceRemove, Remove, Admits
    <3>4. CASE UNCHANGED removed
      BY <3>4
    <3>5. QED
      BY <1>1, <3>1, <3>2, <3>3, <3>4
         DEF ItemStep, CheckExists, MeasureFile, OpenDir, StatEntry, Sweep, ForceFails, ForceDone
  <2>3. QED
    BY <2>1, <2>2 DEF RemovedByWalkers, Subtree
<1>2. CASE Seal
  BY <1>2 DEF Seal, TopLevel, RemovedByWalkers, Admits, Subtree
<1>3. CASE WriteReceipt
  BY <1>3 DEF WriteReceipt, RemovedByWalkers, Admits, Subtree
<1>4. CASE Environment
  BY <1>4 DEF Environment, Recreate, RemoveElsewhere, PlantLink, Move, Tick, engineVars,
              RemovedByWalkers, Admits, Subtree
<1>5. QED
  BY <1>1, <1>2, <1>3, <1>4 DEF Next, EngineStep

LEMMA StepKeepsSkippedAreMissing ==
    ASSUME DInv, SkippedAreMissing, Next
    PROVE  SkippedAreMissing'
<1> USE TopLevelItems DEF DInv, TypeOK
<1> SUFFICES ASSUME NEW j \in TopLevel, result'[j] = "SkippedMissing",
                    ~Gone(j), ~Gone(j)'
             PROVE  node'[j] = "dangling"
  BY GoneStaysGone DEF SkippedAreMissing
<1>1. CASE result[j] = "SkippedMissing"
  <2>1. node[j] = "dangling"
    BY <1>1 DEF SkippedAreMissing
  <2>2. CASE EngineStep
    BY <2>1, <2>2
       DEF EngineStep, ItemStep, Gone, CheckExists, MeasureFile, DeleteFile, OpenDir, StatEntry,
           RemoveEntry, Sweep, ForceRemove, ForceFails, ForceDone, Remove, Seal, WriteReceipt
  <2>3. CASE Environment
    BY <2>1, <2>3 DEF Environment, Recreate, RemoveElsewhere, PlantLink, Move, Tick, Gone
  <2>4. QED
    BY <2>2, <2>3 DEF Next
<1>2. CASE result[j] # "SkippedMissing"
  <2>1. ASSUME NEW i \in TopLevel, ItemStep(i)
        PROVE  j \notin GithubItem /\ ~exists(j) /\ node' = node
    BY <1>2, <2>1
       DEF ItemStep, Finish, CheckExists, MeasureFile, DeleteFile, OpenDir, StatEntry,
           RemoveEntry, Sweep, ForceRemove, ForceFails, ForceDone
  <2>2. ~Seal
    BY <1>2 DEF Seal, TopLevel
  <2>3. ~WriteReceipt /\ ~Environment
    BY <1>2 DEF WriteReceipt, Environment, Recreate, RemoveElsewhere, PlantLink, Move, Tick,
                engineVars
  <2>4. QED
    BY <2>1, <2>2, <2>3 DEF Next, EngineStep, exists, Gone
<1>3. QED
  BY <1>1, <1>2

LEMMA StepKeepsNewInsideNew ==
    ASSUME DInv, NewInsideNew, Next
    PROVE  NewInsideNew'
<1> USE DEF DInv
<1> SUFFICES ASSUME NEW p \in Path, born'[p] > 0, NEW q \in Below[p]
             PROVE  Gone(q)'
  BY DEF NewInsideNew
<1>1. q \in Path /\ q # p
  BY EngineAssumption
<1>2. CASE born[p] > 0
  BY <1>1, <1>2, GoneStaysGone DEF NewInsideNew
<1>3. CASE ~(born[p] > 0)
  <2>1. \E kind \in Kind : Move(p, kind) /\ kind # "absent"
    <3>1. ~EngineStep
      BY <1>3, TopLevelItems
         DEF EngineStep, ItemStep, CheckExists, MeasureFile, DeleteFile, OpenDir, StatEntry,
             RemoveEntry, Sweep, ForceRemove, ForceFails, ForceDone, Seal, WriteReceipt
    <3>2. ~Tick
      BY <1>3 DEF Tick
    <3>3. \A r \in Path, kind \in Kind : Move(r, kind) => r = p /\ kind # "absent"
      BY <1>3 DEF Move, TypeOK
    <3>4. QED
      BY <3>1, <3>2, <3>3, EnvironmentMoves DEF Next
  <2>2. node[p] = "absent"
    <3>1. \A r \in Path, kind \in Kind :
             Move(r, kind) => r = p /\ kind # "absent"
      BY <1>3 DEF Move, TypeOK
    <3>2. Environment
      BY <1>3, TopLevelItems
         DEF Next, EngineStep, ItemStep, CheckExists, MeasureFile, DeleteFile, OpenDir,
             StatEntry, RemoveEntry, Sweep, ForceRemove, ForceFails, ForceDone, Seal,
             WriteReceipt
    <3>3. ASSUME NEW r \in Path, Recreate(r)
          PROVE  r = p
      BY <3>1, <3>3 DEF Recreate, Kind
    <3>4. ASSUME NEW r \in Path, RemoveElsewhere(r)
          PROVE  FALSE
      BY <3>1, <3>4 DEF RemoveElsewhere, Kind
    <3>5. ASSUME NEW i \in TopLevel, NEW kind \in {"link", "dangling"}, PlantLink(i, kind)
          PROVE  i = p
      BY <3>1, <3>5, TopLevelItems DEF PlantLink, Kind
    <3>6. ~Tick
      BY <1>3 DEF Tick
    <3>7. QED
      BY <3>2, <3>3, <3>4, <3>5, <3>6 DEF Environment, Recreate, PlantLink
  <2>3. node[q] = "absent"
    BY <2>2, InsideDirectory
  <2>4. Gone(q)
    BY <2>3 DEF Gone
  <2>5. QED
    BY <1>1, <2>4, GoneStaysGone
<1>4. QED
  BY <1>2, <1>3

LEMMA VInvHolds == Spec => []VInv
<1>1. Init => VInv
  BY InitDInv, EngineAssumption, TopLevelItems
     DEF Init, VInv, StagesAgree, RemovedByWalkers, SkippedAreMissing, NewInsideNew
<1>2. VInv /\ [Next]_vars => VInv'
  <2>1. CASE VInv /\ Next
    BY <2>1, NextKeepsDInv, StepKeepsStagesAgree, StepKeepsRemovedByWalkers,
       StepKeepsSkippedAreMissing, StepKeepsNewInsideNew DEF VInv
  <2>2. CASE VInv /\ UNCHANGED vars
    <3>1. DInv'
      BY <2>2, NextKeepsDInv DEF VInv
    <3>2. QED
      BY <2>2, <3>1 DEF VInv, StagesAgree, RemovedByWalkers, Admits, SkippedAreMissing,
                        NewInsideNew, Gone, vars, engineVars, envVars
  <2>3. QED
    BY <2>1, <2>2
<1>3. QED
  BY <1>1, <1>2, PTL DEF Spec

(* A nested item lies in an item that is not: of the items around it, one    *)
(* with the fewest directories above it.                                     *)
LEMMA NestedIsCovered ==
    ASSUME NEW i \in Nested
    PROVE  \E j \in TopLevel : i \in Below[j]
<1> DEFINE around == {Above(q) : q \in Above(i) \cap Plan}
<1>1. around \subseteq FiniteSubsetsOf(Path) /\ around # {}
  <2>1. \A q \in Path : Above(q) \in SUBSET Path /\ IsFiniteSet(Above(q))
    <3>1. \A q \in Path : Above(q) \in SUBSET Path
      BY DEF Above
    <3>2. QED
      BY <3>1, FS_Subset, FiniteAssumption
  <2>2. around \subseteq FiniteSubsetsOf(Path)
    BY <2>1, Zenon DEF FiniteSubsetsOf, Above
  <2>3. Above(i) \cap Plan # {}
    BY DEF Nested
  <2>4. QED
    BY <2>2, <2>3
<1>2. \E A \in around : \A B \in around : <<B, A>> \notin StrictSubsetOrdering(Path)
  <2>1. IsWellFoundedOn(StrictSubsetOrdering(Path), FiniteSubsetsOf(Path))
    BY FS_StrictSubsetOrderingWellFounded
  <2> HIDE DEF around
  <2>2. QED
    BY <1>1, <2>1, WFMin
<1>3. PICK j \in Above(i) \cap Plan :
          \A k \in Above(i) \cap Plan : <<Above(k), Above(j)>> \notin StrictSubsetOrdering(Path)
  BY <1>2
<1>4. j \in Path /\ j \in Plan /\ i \in Below[j]
  BY <1>3 DEF Above
<1>5. ASSUME NEW k \in Above(j) \cap Plan
      PROVE  FALSE
  <2>1. k \in Path /\ j \in Below[k]
    BY DEF Above
  <2>2. k \in Above(i) \cap Plan
    BY <1>4, <2>1, EngineAssumption DEF Above
  <2>3. Above(k) \subseteq Above(j)
    BY <1>4, <2>1, EngineAssumption DEF Above
  <2>4. k \in Above(j) /\ k \notin Above(k)
    BY <2>1, EngineAssumption DEF Above
  <2>5. <<Above(k), Above(j)>> \in StrictSubsetOrdering(Path)
    BY <2>3, <2>4 DEF StrictSubsetOrdering, Above
  <2>6. QED
    BY <1>3, <2>2, <2>5
<1>6. QED
  BY <1>4, <1>5 DEF TopLevel, Nested

(* Every removal is admitted to: what a run has taken away lies in an item   *)
(* that its receipt reports deleted or failed, never skipped.                *)
THEOREM RemovalsAreAccounted == Spec => []RemovalIsAccounted
<1>1. VInv => RemovalIsAccounted
  BY DEF VInv, StagesAgree, RemovedByWalkers, Admits, RemovalIsAccounted
<1>2. QED
  BY <1>1, VInvHolds, PTL

(* An entry is contested only for an untruth or the second it was born in.   *)
LEMMA RejectionsExplained == VInv => RejectionExplained
<1> SUFFICES ASSUME VInv, NEW i \in Plan, PathStillExists(i), born[i] # started
             PROVE  \E j \in TopLevel : i \in Below[j] /\ result[j] = "Failed"
  BY DEF RejectionExplained
<1> USE DEF VInv, DInv, TypeOK
<1>1. i \in Path /\ born[i] = 0 /\ node[i] # "absent" /\ ~Gone(i)
  <2>1. i \in Path
    BY EngineAssumption
  <2>2. born[i] \in Nat /\ born[i] <= 1 /\ born[i] # 1
    BY <2>1 DEF PathStillExists, started
  <2>3. QED
    BY <2>1, <2>2 DEF PathStillExists, Observed, Gone
<1>2. i \notin TopLevel
  BY <1>1 DEF PathStillExists, Observed, DeletedMeansGone, SkippedAreMissing, Subtree
<1>3. PICK j \in TopLevel : i \in Below[j]
  BY <1>2, NestedIsCovered DEF TopLevel
<1>4. j \in Path /\ j \in Plan /\ node[j] = "dir"
  <2>1. j \in Path /\ j \in Plan
    BY TopLevelItems
  <2>2. QED
    BY <1>1, <1>3, <2>1, InsideDirectory
<1>5. result[j] \notin {"none", "Deleted", "SkippedMissing"}
  <2>1. result[j] # "none"
    BY DEF StagesAgree, PathStillExists, Observed
  <2>2. result[j] # "Deleted"
    BY <1>1, <1>3 DEF DeletedMeansGone, Subtree
  <2>3. result[j] # "SkippedMissing"
    BY <1>1, <1>3, <1>4 DEF SkippedAreMissing, NewInsideNew, Gone
  <2>4. QED
    BY <2>1, <2>2, <2>3
<1>6. QED
  BY <1>3, <1>4, <1>5

(* What no check of a path contests is gone with all that was in it.         *)
LEMMA AcceptedIsGone == VInv => AcceptedMeansGone
<1> SUFFICES ASSUME VInv, phase = "written", \A i \in Plan : ~PathStillExists(i),
                    NEW i \in Plan \ GithubItem, result[i] \in {"Deleted", "SkippedMissing"},
                    NEW p \in Subtree(i), ~Gone(p)
             PROVE  node[p] \in {"link", "dangling"}
  BY DEF AcceptedMeansGone
<1> USE DEF VInv, DInv, TypeOK
<1>1. i \in Path /\ p \in Path
  BY EngineAssumption, SubtreeInPath
<1>2. \/ node[i] = "absent"
      \/ node[i] \in {"link", "dangling"}
      \/ born[i] > 0
  BY <1>1 DEF PathStillExists, Observed, started
<1>3. CASE p = i
  BY <1>1, <1>2, <1>3 DEF Gone
<1>4. CASE p \in Below[i]
  <2>1. CASE node[i] # "dir"
    BY <1>1, <1>4, <2>1, InsideDirectory DEF Gone
  <2>2. CASE node[i] = "dir"
    BY <1>1, <1>2, <1>4, <2>2 DEF NewInsideNew
  <2>3. QED
    BY <2>1, <2>2
<1>5. QED
  BY <1>3, <1>4 DEF Subtree

(* For any plan, volume and interference before and after the receipt was    *)
(* written: what verification accepts is gone, and what it contests it       *)
(* contests for one of two reasons.                                          *)
THEOREM VerdictsAreTrue == Spec => []VerdictIsTrue
<1>1. VInv => VerdictIsTrue
  BY RejectionsExplained, AcceptedIsGone DEF VerdictIsTrue
<1>2. QED
  BY <1>1, VInvHolds, PTL

------------------------------------------------------------------------------
(* A file has nothing inside it, now or later.                               *)
FilesAreLeaves == \A p \in Path : node[p] = "file" => Below[p] = {}

(* A measurement is at most what the unlinking will release: an object that  *)
(* is still there has kept its kind or has come back as a file with one name. *)
Within(i, p) == node[p] # "absent" => stat[i] <= Releases(p)
EntryIsMeasured(i) ==
    /\ Within(i, cur[i])
    /\ stat[i] <= 1
    /\ Below[cur[i]] # {} => stat[i] = 0
Measured ==
    \A i \in TopLevel :
        /\ at[i] = "entry" => EntryIsMeasured(i)
        /\ at[i] = "measured" /\ i \notin meddled => Within(i, i)

CInv == DInv /\ StagesAgree /\ FilesAreLeaves /\ Measured /\ NeverOverclaims

LEMMA StepKeepsFilesAreLeaves ==
    ASSUME DInv, FilesAreLeaves, Next
    PROVE  FilesAreLeaves'
<1> USE TopLevelItems DEF FilesAreLeaves, DInv, TypeOK
<1>1. CASE EngineStep
  BY <1>1 DEF EngineStep, ItemStep, CheckExists, MeasureFile, DeleteFile, OpenDir, StatEntry,
              RemoveEntry, Sweep, ForceRemove, ForceFails, ForceDone, Remove, Seal, WriteReceipt
<1>2. CASE Environment
  BY <1>2 DEF Environment, Recreate, RemoveElsewhere, PlantLink, Move, Tick
<1>3. QED
  BY <1>1, <1>2 DEF Next

(* An inode's names from before the run only become fewer.                   *)
LEMMA NamesBecomeFewer ==
    ASSUME DInv, Next, NEW q \in Path, node'[q] = "file", born'[q] = 0
    PROVE  node[q] = "file" /\ born[q] = 0
<1> USE TopLevelItems DEF DInv, TypeOK
<1>1. CASE EngineStep
  BY <1>1 DEF EngineStep, ItemStep, CheckExists, MeasureFile, DeleteFile, OpenDir, StatEntry,
              RemoveEntry, Sweep, ForceRemove, ForceFails, ForceDone, Remove, Seal, WriteReceipt
<1>2. CASE Environment
  BY <1>2 DEF Environment, Recreate, RemoveElsewhere, PlantLink, Move, Tick
<1>3. QED
  BY <1>1, <1>2 DEF Next

(* So what the unlinking of a path would release does not shrink.            *)
LEMMA ReleasesGrow ==
    ASSUME DInv, Next, NEW p \in Path, node'[p] = node[p], born'[p] = born[p]
    PROVE  Releases(p) <= Releases(p)'
<1>1. LastName(p) => LastName(p)'
  <2>1. \A q \in Alias[p] : q \in Path
    BY EngineAssumption
  <2>2. \A q \in Alias[p] : node'[q] = "file" /\ ~(born'[q] > 0) =>
                            node[q] = "file" /\ ~(born[q] > 0)
    <3>1. \A q \in Alias[p] : born'[q] \in Nat /\ born[q] \in Nat
      BY <2>1, NextKeepsDInv DEF DInv, TypeOK
    <3>2. QED
      BY <2>1, <3>1, NamesBecomeFewer
  <2>3. QED
    BY <2>2 DEF LastName
<1>2. QED
  BY <1>1 DEF Releases

(* Who keeps a path from an unlink to its coming back is another process.    *)
LEMMA PathsComeBackNew ==
    ASSUME DInv, Next, NEW p \in Path, node'[p] # "absent"
    PROVE  \/ node'[p] = node[p] /\ born'[p] = born[p]
           \/ /\ node[p] = "absent" /\ born'[p] > 0 /\ p \in meddled'
              /\ \/ node'[p] \in {"file", "dir"} /\ (node'[p] = "file" <=> Below[p] = {})
                 \/ node'[p] \in {"link", "dangling"} /\ p \in TopLevel
<1> USE TopLevelItems DEF DInv, TypeOK
<1>1. CASE EngineStep
  BY <1>1 DEF EngineStep, ItemStep, CheckExists, MeasureFile, DeleteFile, OpenDir, StatEntry,
              RemoveEntry, Sweep, ForceRemove, ForceFails, ForceDone, Remove, Seal, WriteReceipt
<1>2. CASE Environment
  BY <1>2 DEF Environment, Recreate, RemoveElsewhere, PlantLink, Move, Tick
<1>3. QED
  BY <1>1, <1>2 DEF Next

(* A worker keeps its own books, and no move of another process is forgotten. *)
Books(j) == <<at[j], cur[j], stat[j], freed[j], gained[j]>>
LEMMA OthersKeepOff ==
    ASSUME DInv, Next, NEW j \in TopLevel
    PROVE  /\ ItemStep(j) \/ Books(j)' = Books(j)
           /\ meddled \subseteq meddled'
<1> USE DEF DInv, TypeOK, Books
<1>1. ASSUME NEW i \in TopLevel, ItemStep(i), i # j
      PROVE  Books(j)' = Books(j)
  BY <1>1, TopLevelItems
     DEF ItemStep, Finish, CheckExists, MeasureFile, DeleteFile, OpenDir, StatEntry,
         RemoveEntry, Sweep, ForceRemove, ForceFails, ForceDone, Remove
<1>2. ASSUME Seal \/ WriteReceipt \/ Environment
      PROVE  Books(j)' = Books(j)
  <2>1. UNCHANGED <<at, cur, stat, freed, gained>>
    BY <1>2 DEF Seal, WriteReceipt, Environment, Recreate, RemoveElsewhere, PlantLink, Move,
                Tick, engineVars
  <2>2. QED
    BY <2>1
<1>3. meddled \subseteq meddled'
  BY DEF Next, EngineStep, Environment, Recreate, RemoveElsewhere, PlantLink, Move, Tick,
         envVars, ItemStep, CheckExists, MeasureFile, DeleteFile, OpenDir, StatEntry,
         RemoveEntry, Sweep, ForceRemove, ForceFails, ForceDone, Seal, WriteReceipt
<1>4. QED
  BY <1>1, <1>2, <1>3 DEF Next, EngineStep

LEMMA StepKeepsMeasured ==
    ASSUME DInv, FilesAreLeaves, Measured, Next
    PROVE  Measured'
<1> USE TopLevelItems DEF DInv, TypeOK
<1>1. DInv'
  BY NextKeepsDInv
<1>2. ASSUME NEW j \in TopLevel, at'[j] = "entry"
      PROVE  EntryIsMeasured(j)'
  <2>1. CASE at[j] # "entry"
    <3>1. PICK p \in Path : StatEntry(j, p)
      <4>1. ItemStep(j)
        BY <1>2, <2>1, OthersKeepOff DEF Books
      <4>2. QED
        BY <1>2, <2>1, <4>1
           DEF ItemStep, Finish, CheckExists, MeasureFile, DeleteFile, OpenDir, RemoveEntry,
               Sweep, ForceRemove, ForceFails, ForceDone
    <3>2. cur'[j] = p /\ stat'[j] = Releases(p) /\ Releases(p)' = Releases(p)
      BY <3>1 DEF StatEntry, Releases, LastName
    <3>3. Releases(p) <= 1 /\ (Below[p] # {} => Releases(p) = 0)
      BY DEF Releases, FilesAreLeaves
    <3>4. Releases(p) \in Nat
      BY ReleasesIsNat
    <3>5. QED
      BY <3>2, <3>3, <3>4 DEF EntryIsMeasured, Within
  <2>2. CASE at[j] = "entry"
    <3>1. cur'[j] = cur[j] /\ stat'[j] = stat[j]
      <4>1. CASE ItemStep(j)
        BY <1>2, <2>2, <4>1
           DEF ItemStep, Finish, CheckExists, MeasureFile, DeleteFile, OpenDir, StatEntry,
               RemoveEntry, Sweep, ForceRemove, ForceFails, ForceDone
      <4>2. QED
        BY <4>1, OthersKeepOff DEF Books
    <3>0. PICK p \in Path : p = cur[j]
      OBVIOUS
    <3>2. p \in Below[j] /\ p \notin TopLevel
      BY <2>2, <3>0 DEF Walks, TopLevel, Nested, Above
    <3>3. stat[j] \in Nat /\ stat[j] <= 1 /\ (Below[p] # {} => stat[j] = 0) /\ Within(j, p)
      BY <2>2, <3>0 DEF Measured, EntryIsMeasured
    <3>4. ASSUME node'[p] # "absent"
          PROVE  stat[j] <= Releases(p)'
      <4>1. CASE node'[p] = node[p] /\ born'[p] = born[p]
        <5>1. stat[j] <= Releases(p)
          BY <3>3, <3>4, <4>1 DEF Within
        <5>2. Releases(p) <= Releases(p)'
          BY <3>2, <4>1, ReleasesGrow
        <5>3. Releases(p) \in Nat /\ Releases(p)' \in Nat
          BY DEF Releases
        <5>4. QED
          BY <3>3, <5>1, <5>2, <5>3
      <4>2. CASE node'[p] = "file" /\ born'[p] > 0
        BY <3>3, <4>2 DEF Releases, LastName
      <4>3. CASE Below[p] # {}
        <5>1. Releases(p)' \in Nat
          BY DEF Releases
        <5>2. QED
          BY <3>3, <4>3, <5>1
      <4>4. QED
        BY <3>2, <3>4, <4>1, <4>2, <4>3, PathsComeBackNew
    <3>5. QED
      BY <3>0, <3>1, <3>3, <3>4 DEF EntryIsMeasured, Within
  <2>3. QED
    BY <2>1, <2>2
<1>3. ASSUME NEW j \in TopLevel, at'[j] = "measured", j \notin meddled', node'[j] # "absent"
      PROVE  stat'[j] <= Releases(j)'
  <2>1. j \in Path /\ node'[j] = node[j] /\ born'[j] = born[j]
    BY <1>3, PathsComeBackNew
  <2>2. Releases(j) <= Releases(j)'
    BY <2>1, ReleasesGrow
  <2>3. CASE at[j] # "measured"
    <3>1. MeasureFile(j)
      <4>1. ItemStep(j)
        BY <1>3, <2>3, OthersKeepOff DEF Books
      <4>2. QED
        BY <1>3, <2>3, <4>1
           DEF ItemStep, Finish, CheckExists, DeleteFile, OpenDir, StatEntry, RemoveEntry,
               Sweep, ForceRemove, ForceFails, ForceDone
    <3>2. stat'[j] = Releases(j)
      BY <1>3, <2>1, <3>1 DEF MeasureFile
    <3>3. QED
      BY <2>2, <3>2
  <2>4. CASE at[j] = "measured"
    <3>1. stat'[j] = stat[j] /\ j \notin meddled
      <4>1. CASE ItemStep(j)
        BY <1>3, <2>4, <4>1, OthersKeepOff
           DEF ItemStep, Finish, CheckExists, MeasureFile, DeleteFile, OpenDir, StatEntry,
               RemoveEntry, Sweep, ForceRemove, ForceFails, ForceDone
      <4>2. QED
        BY <1>3, <4>1, OthersKeepOff DEF Books
    <3>2. stat[j] <= Releases(j)
      BY <1>3, <2>1, <2>4, <3>1 DEF Measured, Within
    <3>3. Releases(j) \in Nat /\ Releases(j)' \in Nat /\ stat[j] \in Nat
      BY DEF Releases
    <3>4. QED
      BY <2>2, <3>1, <3>2, <3>3
  <2>5. QED
    BY <2>3, <2>4
<1>4. QED
  BY <1>2, <1>3 DEF Measured, Within

LEMMA StepKeepsNeverOverclaims ==
    ASSUME DInv, StagesAgree, Measured, NeverOverclaims, Next
    PROVE  NeverOverclaims'
<1> USE TopLevelItems DEF DInv, TypeOK
<1> SUFFICES ASSUME NEW j \in TopLevel, ~(j \in FileItem \cap meddled')
             PROVE  freed'[j] <= gained'[j]
  BY DEF NeverOverclaims
<1>1. j \notin FileItem \cap meddled
  BY OthersKeepOff
<1>2. freed[j] <= gained[j] /\ freed[j] \in Nat /\ gained[j] \in Nat
  BY <1>1 DEF NeverOverclaims
<1>3. \A p : Releases(p) \in Nat
  BY ReleasesIsNat
<1>4. CASE DeleteFile(j)
  <2>1. CASE UNCHANGED <<freed, gained>>
    BY <1>2, <2>1
  <2>2. CASE Remove(j, j) /\ node[j] = "file" /\ freed' = [freed EXCEPT ![j] = stat[j]]
    <3>1. stat[j] <= Releases(j) /\ stat[j] \in Nat
      BY <1>1, <1>4, <2>2 DEF DeleteFile, StagesAgree, Measured, Within
    <3>2. freed'[j] = stat[j] /\ gained'[j] = gained[j] + Releases(j)
      BY <2>2 DEF Remove
    <3>3. QED
      BY <1>2, <1>3, <3>1, <3>2
  <2>3. QED
    BY <1>4, <2>1, <2>2 DEF DeleteFile
<1>5. CASE RemoveEntry(j)
  <2>1. CASE UNCHANGED <<freed, gained>>
    BY <1>2, <2>1
  <2>2. CASE /\ Removable(cur[j]) /\ Remove(j, cur[j])
             /\ freed' = [freed EXCEPT ![j] = @ + stat[j]]
    <3>1. stat[j] <= Releases(cur[j]) /\ stat[j] \in Nat
      BY <1>5, <2>2 DEF RemoveEntry, Removable, Measured, EntryIsMeasured, Within
    <3>2. freed'[j] = freed[j] + stat[j] /\ gained'[j] = gained[j] + Releases(cur[j])
      BY <2>2 DEF Remove
    <3>3. QED
      BY <1>2, <1>3, <3>1, <3>2
  <2>3. QED
    BY <1>5, <2>1, <2>2 DEF RemoveEntry
<1>6. ASSUME NEW p \in Path, ForceRemove(j, p)
      PROVE  freed'[j] <= gained'[j]
  <2>1. freed'[j] = freed[j] /\ gained'[j] = gained[j] + Releases(p)
    BY <1>6 DEF ForceRemove, Remove
  <2>2. QED
    BY <1>2, <1>3, <2>1
<1>7. CASE freed'[j] = freed[j] /\ gained'[j] = gained[j]
  BY <1>2, <1>7
<1>8. CASE ItemStep(j)
  BY <1>4, <1>5, <1>6, <1>7, <1>8
     DEF ItemStep, CheckExists, MeasureFile, OpenDir, StatEntry, Sweep, ForceFails, ForceDone
<1>9. QED
  BY <1>7, <1>8, OthersKeepOff DEF Books

(* For any tree, hard links, number of workers and interference: the bytes   *)
(* a run reports for an item are no more than its unlinks released.          *)
THEOREM BytesAreEarned == Spec => []NeverOverclaims
<1>1. Init => CInv
  BY InitDInv, EngineAssumption, LeafAssumption, TopLevelItems
     DEF Init, CInv, StagesAgree, FilesAreLeaves, Measured, NeverOverclaims
<1>2. CInv /\ [Next]_vars => CInv'
  <2>1. ASSUME CInv, Next
        PROVE  CInv'
    BY <2>1, NextKeepsDInv, StepKeepsStagesAgree, StepKeepsFilesAreLeaves, StepKeepsMeasured,
       StepKeepsNeverOverclaims DEF CInv
  <2>2. ASSUME CInv, UNCHANGED vars
        PROVE  CInv'
    <3>1. DInv'
      BY <2>2, NextKeepsDInv DEF CInv
    <3>2. QED
      BY <2>2, <3>1 DEF CInv, StagesAgree, FilesAreLeaves, Measured, EntryIsMeasured, Within,
                        Releases, LastName, NeverOverclaims, vars, engineVars, envVars
  <2>3. QED
    BY <2>1, <2>2
<1>3. CInv => NeverOverclaims
  BY DEF CInv
<1>4. QED
  BY <1>1, <1>2, <1>3, PTL DEF Spec

==============================================================================

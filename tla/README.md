# TLA+ models of mac-artifact-cleaner

`oclnr` is a macOS command-line cleaner with an MCP server, `oclnr-mcp`. It
scans for build artifacts, writes a deletion plan, has the plan approved with an
HMAC signature, deletes what the plan lists and writes a receipt that can be
verified later; it also thins snapshots, prunes Docker, cleans GitHub and runs
unattended under launchd. It deletes people's files, so what matters is which
paths may disappear, on whose approval, and whether what it says about it
afterwards is true.

These modules model the code under `src/src/`. TLC checks them on small
instances; TLAPS proves the main properties for every value of the constants.
`PROJECT.json` maps each definition to the lines it stands for, lists the runs,
the hazards each property is aimed at, the theorems, and for each property a
plausible bug (a *mutant*, marked "Not the code" in the modules) that violates it.

    tlc -workers 2 -config DeleteEngine.cfg MCDeleteEngine
    tlapm DeleteEngineProofs.tla

## 1. The system

    audit run ──> plan build ──> plan approve ──> delete execute ──> receipt verify
     (scan)      cleanup-plan      (HMAC)          (rayon pool)       (later, against
                   .json                          receipt.json         the volume)

Each arrow is a process of its own; they meet only in files. The MCP server runs
the same commands as subprocesses, one tool call at a time, and keeps a workflow
context per workspace in memory. `autoclean` (started by launchd or by the
pressure monitor) runs the whole pipeline unattended. `daemon install` gives
launchd these agents and the copy of the program they run.

### Components

| Component | Its state | Operations | What makes it correct | Module |
|---|---|---|---|---|
| Approval key `integration/config.rs` | `approval.key` | `approval_secret`, `generate_and_persist_approval_key` | one key for all processes of a machine, never replaced | `ApprovalKey` |
| Plan file `nouns/plan.rs`, `domain/plan.rs`, `domain/delete.rs` | `cleanup-plan.json` | build, edit, approve, admit and verify | only an approved, acknowledged, admitted content is carried out | `PlanApproval` |
| Deletion engine `nouns/delete.rs`, removers of `integration/fs.rs` | the volume, the pool's progress, the results | `delete execute` | nothing outside the plan; "Deleted" is true; bytes are not overstated; it ends | `DeleteEngine` |
| Receipt and verification `domain/receipt.rs`, `nouns/receipt.rs` | `deletion-receipt.json` | verify, certify, `check_reclaim` | an accepted receipt vouches for the disk; a rejection has a real reason | `DeleteEngine`, `Evidence`, `Snapshots` |
| MCP workflow `mcp/server.rs`, `mcp/state.rs`, `mcp/subprocess.rs` | contexts in memory, the workspace's files | the tools | the state answered agrees with the files; a plan keeps its audit's scope; previews and validations foresee the run | `McpWorkflow`, `McpTools` |
| Autoclean `nouns/autoclean.rs` | plan, evidence and log of the runs | build, narrow, cap, veto, approve, execute, verify | nothing unsure, the cap, live directories; an honest status | `Autoclean` |
| Pressure monitor `nouns/monitor.rs`, `domain/pressure.rs` | action stamps | the tick: notify, thin, reclaim builds, trigger | cooldowns; budgets no larger than the pressure; pressure is answered | `PressureMonitor` |
| Scanner and cache `integration/fs.rs`, `integration/scan_cache.rs` | sled table of directory totals | `scan_root`, replay, roll-up; plan build's fences and merge | replayed totals are those of a walk; a plan is complete | `ScanCache` |
| Classification `domain/artifact.rs`, `domain/disk_scan.rs` | none | nomination rules, fences, merge, staleness | fences hold below a directory, nominations exist and do not overlap | `ArtifactRules` |
| Affidavit and projections `domain/affidavit_integration.rs`, `*/r_projection.rs` | affidavit and projection beside the receipt | seal, project, compare | edits are caught, whole evidence belongs together | `Evidence` |
| Snapshots, emergency `nouns/snapshot.rs`, `nouns/emergency.rs`, `domain/time.rs` | APFS snapshots and what they pin | thin, delete, release, emergency reclaim | keep-latest keeps the latest; receipts name what went; shortfalls are explained | `Snapshots` |
| Daemon installation `nouns/daemon.rs`, `integration/daemon_binary.rs` | the binary copy, plists, launchd's jobs | install, uninstall | no job is given a command line its binary rejects | `DaemonInstall` |
| GitHub `nouns/github.rs` and its layers | GitHub, a plan file | plan, delete | what is planned is justified; each receipt is true | `GithubCleanup` |
| git worktrees `domain/git_worktree.rs`, `integration/git_health.rs` | none of its own | the standing report | work is not called expendable because somebody moved during the report | `Worktrees` |
| OCEL logs `domain/ocel.rs` | the log files | build, adjudicate, summarise | what is written is admitted and read back unchanged | `OcelLog` |
| Docker `nouns/docker.rs` and its layers | Docker's and the host's disk | df, plan, prune, trim | host reclaim is not overclaimed; receipts add up | `Docker` |
| Redaction, doctor, launchd orphans, dedupe, tool inventories, CLI shell, CFAB surface and UI | none | | | not modelled |

### Hard behaviours

- *Unlocked files.* Plan, key, receipt, affidavit, stamps and plists are written
  with `fs::write` (truncate, then write) by processes that know nothing of each other.
- *A changing world.* Compilers recreate what is being deleted, other cleaners
  race, paths turn into symlinks, macOS takes and expires snapshots, GitHub and
  worktrees change between two queries.
- *Partial failure.* Any unlink, query or subprocess may fail. The volume is
  often full: that is why the tool runs.
- *Concurrency in one run.* A rayon pool deletes items side by side, and hard
  links of one inode may lie in the trees of two workers.
- *Clocks.* Whole seconds, compared strictly; a wall clock that is set back;
  runs that share the second they are named by.
- *Crashes.* Between a stamp and the work it stands for, between a receipt and its
  affidavit, between a binary and the plist that needs it.
- *Timeouts.* The MCP server kills `delete execute`; files are then gone without
  a receipt, and an older receipt may lie where the new one was expected.
- *Stale memory.* Contexts vanish with the server; cached totals outlive what they
  counted.

The full list, line by line, is `hazards` in `PROJECT.json`.

## 2. Modules

| Module | What it is |
|---|---|
| `ApprovedDeletion` | abstract specification: a path disappears only inside an admissible approved plan content |
| `ApprovalKey` | the key file and the processes racing for it |
| `PlanApproval` | the plan file; implements `ApprovedDeletion` |
| `DeleteEngine` | one run of `delete execute --yes` and the verifier; implements `ApprovedDeletion` for its plan |
| `McpWorkflow` | the MCP server's contexts, the files and subprocesses of a workspace |
| `Autoclean` | unattended runs sharing a log, and in one second their files |
| `PressureMonitor` | the monitor's tick with its stamps, jobs and restarts |
| `ScanCache` | scans of a changing tree with the cache, and the plan made of them |
| `Evidence` | receipt, affidavit and projection, and who writes and reads them |
| `Snapshots` | snapshots, what they pin, and the commands that remove them |
| `DaemonInstall` | the shared binary, the plists and launchd's jobs |
| `GithubCleanup` | the scan of GitHub, its plan and the deleters |
| `Worktrees` | the standing report, query by query |
| `ArtifactRules`, `OcelLog`, `McpTools`, `Docker` | pure parts of the program as operators, without behaviour |
| `RulesChecks`, `OcelChecks`, `ToolChecks`, `DockerChecks` | what is claimed of them, as named `ASSUME`s over bounded inputs, that the runs `ScanCache`, `Autoclean`, `McpWorkflow` and `McpWorkflow` evaluate |
| `MC*` | the instances' trees, volumes and symmetry sets |
| `*Proofs` | theorems and their proofs: `WorkflowProofs` about `ApprovalKey`, `McpWorkflow`, `PlanApproval` and `ScanCache`, `RepositoryProofs` about `GithubCleanup` and `Worktrees`, the others about the module they are named after |

How they fit together. `PlanApproval` shows that what an execution works from is
an approved content, with removals abstracted to `ExecuteRemove`; `DeleteEngine`
takes the plan of such an execution as its constant `Plan` and shows that the
removals stay inside it. `ApprovalKey` supplies the secrets, which `PlanApproval`
takes as an arbitrary set handed out arbitrarily (so nothing there depends on the
key being shared). `ScanCache` makes the items that `PlanApproval` takes as an
arbitrary set; `ArtifactRules` makes the nominations that `ScanCache` takes as the
constants `Project`, `Artifact`, `Lane` and `Curated`. `McpWorkflow` and `Autoclean`
see plan and receipt from outside, with the subprocesses reduced to what they
leave behind. `PressureMonitor` starts `Autoclean`'s runs as jobs of the kinds
"trigger" and "builds". `Evidence` and `Snapshots` take apart what `DeleteEngine`
does in one step or leaves out after its item loop.

### ApprovalKey

`pc[p]` is where process *p* stands inside `approval_secret`. `Call` is the
environment lookup and the `exists` test, `CreateNew` the `create_new` open,
`WriteKey` the write of fresh bytes, `ReadAfterLosing` the `AlreadyExists` branch,
which re-reads the file and, unlike `ReadExisting`, does not ask whether it is
empty. `WriteFails`, `WriteKeyThenFails` and `Crash` are the failures: a full
volume, a failing `set_permissions`, a killed process. A call that ended can be
made again, so retries are included. `WriteKey` draws a key that nobody has seen:
32 bytes of `/dev/urandom` do not repeat. `returned` and `cutShort` are history.

### PlanApproval

`planFile` is the file, `Torn` when it is absent or not parseable. Every writer
is two steps, the truncating open and the write, and `WriteInto` lets a write
that lands on another writer's finished text produce either text or neither.
`ApproveSign` reads, applies the acknowledgement fence and signs *in memory*;
`ApproveOpen` and `ApproveWrite` store what was signed, however old it is by
then. `ExecuteBegin` reads, admits (`admit`) and verifies (`verify_approval`: the
approval's hash is that of the content, and the HMAC is of the caller's
secret). A signature is the pair of content and secret; the hash is taken to be
injective. Which items a build finds is arbitrary, apart from OS directories, which
the scan never nominates but an edit may add.

### DeleteEngine

The volume is `node` (what each path is), `prot` (what resists its unlinking: a
flag that the forced pass clears, or something only root can) and `born`. Each
top-level item has a worker with its place in the code (`at`), its list of
entries (`todo`), its last measurement (`stat`) and the bytes it has reported
(`freed`). The steps are those of the source: existence check, measurement and
`delete_file` for a file; symlink check and listing, then stat and unlink per
entry from the deepest up, then the sweep and `force_remove_dir_all` for a
directory. `CheckExists` respects the pool's width. Other processes recreate,
remove and relink paths between any two steps (`Environment`), and the clock
ticks. `Seal` appends the nested items' prepared entries, `WriteReceipt` writes,
dumps or loses the receipt. `Observed` and `PathStillExists` are the verifier,
whose answer depends on the volume of the moment, so they are state predicates.
`gained`, `removed`, `moves` and `meddled` are history. A run killed halfway is a
prefix of a behaviour.

### McpWorkflow and McpTools

One action per tool call, atomic because the server answers one call at a time.
Each contains the subprocess it runs with everything that may come of it:
success, failure or being killed, before, during or after the subprocess wrote
its file. A handler works on a copy of the context and stores it at the end, so
paths that leave by `?` change the files and not the context (`UNCHANGED ctx`).
`receipt[w].by` is the number of the call that wrote the receipt. Workspace and
plan file are independent arguments of `delete_execute`; here a plan file is the
one of some workspace. `roots` survives `clear_artifacts`, as in the code.

`McpTools` holds what the tools that change nothing compute: `delete_dry_run`,
`plan_validate`, `plan_inspect`, `receipt_parse`, the comparison of a receipt with
its plan, the guidance of a state, and the search for the program to run.
`ToolChecks` compares the preview with what a run would do with the same plan
(`DryRunForesees`), the validation with the admission of `delete execute`
(`ValidIsAdmitted`), and the guidance with what the handlers accept
(`GuidanceIsAccepted`).

### Autoclean

`pc[r]` walks through the stages of `run`. A run's files are named by the second
it starts in (`tag`), so `planFile` and `evidence` are functions of the second and
two runs of one second share them. `memory` is the plan a run holds, which is not
always what its file says: dropping zero-byte items changes the memory only.
Every stage may fail, refuse or die; an outcome is written as evidence first and
then as a line of the log, each of which may be lost. `Fitting` is what the trim
to the cap may keep; `MCAutoclean` checks it against the one-pass algorithm
(`FittingIsTheTrim`). `records` is `autoclean.log` as `summarize_log` groups it.

### PressureMonitor

`stamp[k]` is the stamp file of a kind of action; times are ages, so behaviours
need no end. A tick is `Sample`, then per kind `Decide` (on the tick's sample, or
for builds on a new one), `Truncate` and `Write` of the stamp, `Start` and
`JobEnds`. `Fail` and `Kill` may strike anywhere until `CalmDown`; a job that has
lost its monitor goes on as an orphan. `since` and `gap` measure real time,
which the stamps only approximate once `SetBack` has moved the clock.

### ScanCache and ArtifactRules

A scan is a state machine over the directories: found, entered (the filter found
no entry to replay), visited (mtime and listing recorded), listed, or hit. The
threads of the walk are the interleavings of these steps; other processes create,
grow, replace and unlink files and compile into lanes between any two of them.
`Finish` ends the walk. With a cache, `RollUp` then takes one directory after the
other, the deepest first, into its parent, and `Store` writes the entries in one
batch, which may fail. `Fence`, `MergeGlobalCaches` and `Size` are plan build's
treatment of the candidates.
`moved` and `stale` are history: what changed during the scan, and which entries a
change has overtaken.

`ArtifactRules` holds the rules themselves: project detection, nomination per
kind of project, traversal barriers, package stores, protected and system fences,
curated caches, their merge, and the staleness rules. Names are strings only as
far as rules tell them apart.

### Evidence

`native`, `affidavit` and `projection` are the files at one receipt path; a record
is the run that wrote it and the number of edits since. A run is "open, fill" for
each of the three, any of which may find the volume full, and may stop anywhere;
a reader reads the receipt, then the affidavit, and compares; a sealing reader
then writes a new affidavit. `upset` is set while commands overlap, are cut short
or find the disk full, and is cleared by a run that met nobody.

### Snapshots

`pins[s]` are the items a snapshot holds: unlinking an item returns its bytes only
when no snapshot pins it. `Begin`, `List`, `Pass`, `Drop`, `Relist` and `Measure`
are the commands of `snapshot`, the two options of `delete execute` and the
emergency reclaim; macOS takes and expires snapshots and other programs write
between any two. `fate[s]` remembers who removed a snapshot.

### DaemonInstall

`binary` is the one copy all agents run. An install is copy, preflight, plist
(truncate, write), confirmation, and the reload: look, bootout, wait, bootstrap,
print; a remover unloads and unlinks. A reboot loads what the plists say.
`job[l].after` records which installs had written their plist when the job was
loaded, `stranded` the command lines that a change of the binary left behind.

### GithubCleanup

The scan is one step per `gh` call (`ListRepositories`, `ExamineRepository`, one
listing per kind, then branch by branch the comparison); any call may fail with a
warning. A deleter takes the items of the plan one by one; a call takes effect or
not, and answers or not. GitHub changes by itself up to `MaxChanges` times.

### Worktrees

`Discover` asks one checkout after the other for its repository and takes up each
repository once (`AddRepository`). Of each repository the report then asks git
separately for the worktrees, the default branch, the
stashes, the objects, and per worktree for its directory, status and merge
state, while its user edits, commits, stashes, merges, locks or removes. Any
answer may be missing. `Summarize` adds the standings up, repository by
repository. `held` and `moved` are history: whether a worktree held
unsaved work all the time, and what its user did.

### OcelLog and Docker

`OcelLog` holds the builders of the event logs, the adjudicator and the readers;
`OcelChecks` claims that what is built is admitted and that summaries and
candidate lists survive a write and a re-read. `Docker` holds df, the preview, the
prune with its receipt, and the host's footprint before and after;
`DockerChecks` claims that host bytes are not overclaimed when all of its inputs
are known, that the receipt adds up, and that skipping is not failing.


## 3. Runs

| Run | Instance | States | Shows |
|---|---|---|---|
| `ApprovalKey` | 3 processes (one with the environment variable), 3 keys | 494 | `OneKey`, `EmptyIsUnfinished`: races and crashes of first use never produce two keys; an empty file is always explained |
| `PlanApproval` | 3 paths (one an OS directory, one unknown), 2 approvers, 1 executor, 2 secrets | 730,408 | `RunningIsApproved`, `KeepsPromise` (refinement of `ApprovedDeletion`) |
| `DeleteEngine` | 8 paths: a tree with a nested item, a hard link across items, a GitHub item, a tree outside the plan; 6 initial volumes, 2 workers | 305,366 | `DeletedMeansGone`, `NeverOverclaims`, `RemovalIsAccounted`, `VerdictIsTrue`, `StaysInPlan` (refinement), `Terminates` (liveness) |
| `McpWorkflow` | 2 workspaces, 2 lists of roots, 2 deletion calls | 2,301,442 | `CleanAnswerIsOwn`, `PlanInheritsAudit`, `ApprovalIsOnDisk` |
| `Autoclean` | a daily run with cap 3 and a pressure run with cap 2 that narrows; a build directory, a virtual environment and two unsure items; 2 seconds | 1,586,496 | `NothingUnsure`, `CapIsBudget`, `LiveWorkSpared`, `StandingIsHonest` |
| `PressureMonitor` | one monitor in 4 configurations | 171,092 | `KeepsCooldown`, `BudgetIsCalledFor`, `PressureIsAnswered` (liveness) |
| `ScanCache` | a home, a project, agents' files, an artifact and a lane; 2 scans, 2 changes | 1,696,748 | `CacheIsTrue`, `WalkedIsExact`, `PlanIsComplete` |
| `Evidence` | a deletion and a thin on one receipt path, 2 readers that verify or seal, one edit | 3,567,199 | `EditIsCaught`, `RejectionIsDeserved`, `EvidenceIsWhole` |
| `GithubCleanup` | a repository with two branches, a release and its asset, an issue; 2 deleters, one change | 1,039,540 | `PlanIsJustified`, `ReceiptIsTrue` |
| `DaemonInstall` | 2 builds, 2 agents (one installed by an old build), 2 installs, one uninstall, one reboot | 323,690 | `JobsFitTheirBinary`, `LoadedIsNew`, `CommandsEnd` (liveness) |
| `Snapshots` | 2 commands of any kind, one pinned item, 2 snapshots and one of an OS update; 2 events, one new snapshot | 8,087,236 | `KeepLatestKeeps`, `ReceiptTellsAll`, `ShortfallExplained` |
| `Worktrees` | 2 repositories (one bare), a worktree each in any of 6 or 2 standings, 2 steps of the user | 3,566,772 | `OneStepIsSeen`, `TotalsAgree` |

The runs of `ScanCache`, `GithubCleanup`, `Snapshots` and `Worktrees` check their type
invariants too; those of the other modules are left to the proofs alone. What holds of the pure modules is stated as assumptions that TLC
evaluates before a run starts, over all inputs of a small size: those of
`RulesChecks` with `ScanCache`, of `OcelChecks` with `Autoclean`, of `ToolChecks`
and `DockerChecks` with `McpWorkflow`. Several of these are equivalences that name
the exceptions, so that they would fail as well if an exception disappeared:
`WalkedNominations` lists the nominated names below which the walk goes on,
`GuidanceIsAccepted` the guidance that is not accepted,
`DryRunForesees` the items whose preview differs from the run,
`ToolRootLogsNeedTimes` the logs the program's own adjudicator refuses.

Some properties are weaker than one would like, because the stronger one is false
of the code (section 5). They say what is left: `OneKey` is about non-empty secrets,
`VerdictIsTrue` names the two wrong rejections, `CleanAnswerIsOwn` says that an
answer from another call's receipt at least carries a warning,
`CacheIsTrue` excepts entries that a later change has overtaken, and lanes,
`JobsFitTheirBinary` excepts command lines stranded by a change of the shared binary,
`CapIsBudget` and `LiveWorkSpared` are about runs that share their second with none,
`KeepsCooldown` is about kinds that one monitor has to itself,
`OneStepIsSeen` promises nothing for two steps, or for a stash.

### Bounds

- `ApprovalKey`: three keys let two processes each generate one and leave one to
  spare; a third process adds an onlooker. The proofs need no bound.
- `PlanApproval`: `MaxApprovals = 2` approvals are signed. A wrong execution needs
  a plan signed once, changed and then run, or two approvals overlaid.
- `DeleteEngine`: `MaxMoves = 2`, `MaxClock = 2`: a path vanishing and coming back
  takes two moves, and being born in the starting second or after it takes two
  clock values. One tree has every relation the code distinguishes: entry below
  subdirectory below item, an item nested in another, two names of one inode in
  different items, a neighbour outside the plan.
- `McpWorkflow`: `MaxCalls = 2` deletion calls, one to leave a receipt and one to
  find it. All other calls and restarts are unbounded.
- `Autoclean`: two runs are what it takes to share a second, a plan file or a log
  line; `MaxClock = 2` has them in one second or in two. The caps make the trim
  choose: not all items fit.
- `PressureMonitor`: `MaxFree = 3` around `Threshold = 2` and `Margin = 1` has a
  volume above, at and below the threshold with the margin reached or not;
  `Cooldown = 2` has an age inside it other than zero; `MaxBack = 1` sets the clock
  back by less than a cooldown, `MaxOrphans = 1` leaves a job of a killed monitor.
- `ScanCache`: two scans, one to fill the cache and one to replay it;
  `MaxChanges = 2`, so that a change may hide behind another; `MaxClock = 1` with
  `Window = 1` has a lane both recently used and quiet.
- `Evidence`: two commands and two readers, since it takes two writers to mix the
  three files and a sealing reader to overwrite an affidavit another one reads.
- `GithubCleanup`: one deviation of GitHub between listing and deletion, two deleters
  taking the same items; one part (`Odd`) whose listing is incomplete.
- `DaemonInstall`: two builds whose flags differ, an agent of the old one beside
  one of the new; `MaxWaits = 1` poll after an unload, `MaxReboots = 1`.
- `Snapshots`: with two of three dates present and one to come there is an older,
  a latest and a newer snapshot; `MaxPasses = 2` is one pass that makes progress
  and one that need not.
- `Worktrees`: `MaxActs = 2` is one step more than the property allows for, so
  that the case it excludes is explored too; limits of 1 on loose objects and
  packs are reached.

`CHECK_DEADLOCK FALSE` is used where commands end and the world's moves are
bounded, so that the system really stops: `Autoclean`, `DaemonInstall`,
`DeleteEngine`, `Evidence`, `GithubCleanup`, `ScanCache`, `Snapshots`, `Worktrees`.
The other four are checked for deadlock.

### Fairness

- `DeleteEngine`: weak fairness of `EngineStep` as a whole: some thread of the run
  takes a step as long as one can. The operating system schedules a live
  process, and no worker waits for another or for the environment.
- `PressureMonitor`: weak fairness of the clock (`Tick`) and of each monitor's next
  step (`Moves`): its loop goes on, launchd starts it again after a kill, the jobs it
  waits for end. Pressure is promised an answer only after `CalmDown`,
  from which on nothing fails and nobody sets the clock back; that it *does* calm
  down is not assumed.
- `DaemonInstall`: weak fairness of each command's own next step: its process is
  scheduled, launchctl returns, and the wait for an unload is bounded in the code.

Nothing is assumed of other processes, of users, of GitHub or of macOS. The other
modules assume no fairness and state no liveness: their commands may simply
never be given.

## 4. Proofs

Each theorem holds for all constants that satisfy the module's assumption
(`KeyAssumption`, `PlanAssumption`, `EngineAssumption`, `WorkflowAssumption`, `ScanAssumption`,
`AutocleanAssumption`, `MonitorAssumption`, `EvidenceAssumption`,
`DaemonAssumption`, `GithubAssumption`, `SnapshotsAssumption`, `WorktreesAssumption`
with `StandingAssumption`, which TLC evaluates in every run). They say what kind
of thing each constant is, and a few things more: items in `Snapshots`, linked
worktrees in `Worktrees`, and nodes and file names in `ScanCache` are finitely many,
since the code adds up what they are or hold; no node of `ScanCache` lies below itself;
and "none", which stands for no repository, is not one. Two theorems about
`DeleteEngine` need one more: `VerdictsAreTrue` that there are finitely many paths
(`FiniteAssumption`), `BytesAreEarned` that a path which is a file to begin with does not come
back as a directory (`LeafAssumption`).

Several specifications share a proof module where their names allow it
(`KeySpec`, `McpSpec`, `ScanSpec` and, of `PlanApproval`, `Spec` in `WorkflowProofs`; `Spec` and `ReportSpec` in
`RepositoryProofs`): every theorem names the one it is about, and none composes two.

| Proofs of | in | Types | Properties of the run, for any ... |
|---|---|---|---|
| `ApprovalKey` | `WorkflowProofs` | `KeyTypeCorrect` | `KeysAgree` (`OneKey`), `EmptyKeyExplained` (`EmptyIsUnfinished`), processes and keys; also `KeyNeverClobbered`: a written key is never replaced |
| `PlanApproval` | `WorkflowProofs` | `PlanTypeCorrect` | `OnlyApprovedRuns` (`RunningIsApproved`), `PlanKeepsPromise` (`KeepsPromise`, the refinement), paths, approvers, executors, secrets |
| `DeleteEngine` | `DeleteEngineProofs` | `EngineTypeCorrect` | `DeletedIsGone` (`DeletedMeansGone`), `RemovalsAreAccounted` (`RemovalIsAccounted`), `VerdictsAreTrue` (`VerdictIsTrue`), `BytesAreEarned` (`NeverOverclaims`), `EngineStaysInPlan` (`StaysInPlan`, the refinement), tree, volume, hard links, plan and pool width |
| `McpWorkflow` | `WorkflowProofs` | `WorkflowTypeCorrect` | `CleanAnswersAreOwn`, `PlansInheritAudits`, `ApprovalsAreOnDisk`, workspaces, roots and calls |
| `ScanCache` | `WorkflowProofs` | `ScanTypeCorrect` | `TheCacheIsTrue` (`CacheIsTrue`), `WalksAreExact` (`WalkedIsExact`), `PlansAreComplete` (`PlanIsComplete`), tree, roots, classification, window and any number of scans |
| `Autoclean` | `AutocleanProofs` | `TypeCorrect` | `UnsureIsNeverDeleted` (`NothingUnsure`), `CapHolds` (`CapIsBudget`), `LiveWorkIsSpared` (`LiveWorkSpared`), `StandingsAreHonest` (`StandingIsHonest`), runs, items, sizes and caps |
| `PressureMonitor` | `PressureMonitorProofs` | `TypeCorrect` | `CooldownHolds` (`KeepsCooldown`), `BudgetsHold` (`BudgetIsCalledFor`), monitors, configurations and thresholds |
| `Evidence` | `EvidenceProofs` | `TypeCorrect` | `EditsAreCaught`, `RejectionsAreDeserved`, `EvidenceStaysWhole`, runs, readers and edits |
| `DaemonInstall` | `DaemonInstallProofs` | `TypeCorrect` | `JobsFit` (`JobsFitTheirBinary`), `LoadedIsAlwaysNew` (`LoadedIsNew`), builds, agents and commands |
| `GithubCleanup` | `RepositoryProofs` | `TypeCorrect` | `PlansAreJustified` (`PlanIsJustified`), `ReceiptsAreTrue` (`ReceiptIsTrue`), repositories, parts, deleters and changes |
| `Worktrees` | `RepositoryProofs` | `ReportTypeCorrect` | `StepsAreSeen` (`OneStepIsSeen`), `TotalsAddUp` (`TotalsAgree`), repositories, worktrees, checkouts and steps of the user |
| `Snapshots` | `SnapshotsProofs` | `TypeCorrect` | `LatestIsKept` (`KeepLatestKeeps`), `ReceiptsTellAll` (`ReceiptTellsAll`), `ShortfallIsExplained` (`ShortfallExplained`), commands, items with their sizes, snapshots and passes |

The inductive invariants:

- `KInv` = `KeyTypeOK`, `OneKey`, and what makes it inductive: while a process is
  between `create_new` and its write the file is empty and no other process is
  there, and whoever goes to read has seen the file exist. `EmptyIsUnfinished`
  is an invariant of its own kind, proved over `KInv`.
- `PlanApproval`'s `PInv` = `TypeOK` and `Genuine`: every signature in the file, every
  one an approver holds in memory and every content being executed has an
  admissible approval of exactly that content behind it. It speaks about approvers
  in mid-write as well as about the file, because the content they write may be
  older than the file; `RunningIsApproved` alone says nothing of them.
- `DeleteEngine`'s `DInv` = `TypeOK`, `Walks` and `DeletedMeansGone`. `Walks`: what a
  worker has listed, or is about to unlink, lies in its own item. `TypeOK` contains
  `IsVolume` (no object without its directory), from which a missing root means
  an empty subtree: `Deleted` rests on nothing else. A path that came back has
  `born > 0`, so `Gone` is stable.
- `VInv` adds to `DInv` what the receipt and its verification rest on: an ended
  worker has a verdict and nested items are skipped (`StagesAgree`); what is removed
  belongs to an item that cannot be skipped any more (`RemovedByWalkers`); a skipped item
  was missing or a symlink to nowhere (`SkippedAreMissing`); and nothing from
  before the run is inside what was created during it (`NewInsideNew`), which is why
  looking at an item's root is enough. That a nested item has an enclosing item which
  is not nested (`NestedIsCovered`) is an induction over the directories above it,
  here the well-foundedness of the strict subset order.
- `CInv` adds what the bytes rest on: a measurement is at most what the unlink will
  release (`Measured`). It stays so while others unlink further names of the inode
  or put something new in the path's place (`NamesBecomeFewer`, `PathsComeBackNew`).
- `WInv`: types, the three properties, that a completed audit has recorded its
  roots (`Audited`) and that no answer is of a future call (`AnswersArePast`).
- `Autoclean`'s `SInv` = `TypeOK`, `Tagged`, `ApprovalsAreSafe` and `NothingUnsure`:
  no approval in any file *or in any run's memory* covers something unsure, which
  is needed of all seconds' files since a run may execute what another one
  approved. `CapIsBudget` and `LiveWorkSpared` are about runs with a second to
  themselves; `OwnInv` adds, for these, what plan and file hold at each stage
  (`Mine`), and that nothing is handed over before `delete execute` (`NotYet`).
- `LogInv` adds to `SInv` what the log holds: a run says its outcome as it closes, hence
  once (`SaidAtTheEnd`); a failure that was said is in the log (`FailuresShown`), where
  no line outranks it (`FailuresStay`); and while runs keep apart each has at most one
  record, the last one as long as it is under way (`Sorted`).
- `PressureMonitor`'s `PInv`: between a decision and its stamp the time that passed
  is at least what the stamp will show (`LagsAreTruthful`; setting the clock
  back makes stamps look younger, never older), so of a kind that one monitor has
  to itself the last job is as old as its stamp says or older than a cooldown
  (`JobsAreSpaced`); `BudgetsAreCalledFor` follows the budget from sample to job.
- `EInv`: a run that met nobody is the only command, and as long as nothing is
  upset every run is such a one (`AloneIsAlone`, `CalmIsAlone`); a receipt bears no
  edit still to come, and no seal is of an edited receipt but one that a certify
  wrote (`EditsAreCounted`, `SealsAreKnown`); then, stage by stage, what the three
  files hold while such a run writes them (`StagesHold`), when nobody does
  (`QuietIsWhole`), and what a check has read of them (`ChecksHold`).
- `DaemonInstall`'s `DInv`: beside the jobs, the plists and the installs about to load
  one fit the installed binary or have been left behind by a change of it
  (`PlistsFit`, `PendingFit`); `PrintedIsNew`: what is loaded once an
  installation has bootstrapped, it has written.

- `GithubCleanup`'s `GInv` adds to the types what an unfinished scan rests on: what it has
  read still holds of what nobody touched (`ListingHolds`); each repository is
  taken once, and its releases once (`InOrder`), without which a repository or a
  release could join its own parts in the plan; and the collection, not only the
  plan, is `Justified` and `Separate`. `RInv` does the same for the deletions: every
  entry is true of GitHub as it is (`Entries`), what a run's calls removed is in
  its results (`Reported`), and only one of two runs is credited with a thing (`CreditedOnce`),
  because what was removed does not come back under its name.
- `Snapshots`' `IInv` says of each command, phase by phase, what its accounts have to do
  with the volume (`Working`): what it removed is gone for good, what it listed
  was there, a newer snapshot than any it is about to remove remains, and unless others
  wrote, the free space at the start is at most what there would be with no
  snapshot left. The last is what explains a shortfall: whatever is missing is
  pinned. Bytes are the cardinality of a set of blocks, so that this is a
  fact about sets.
- `Worktrees`' `OInv`, of a worktree that held work ever since the listing: until its user
  moves, the facts gathered are those of the tree (`Consistent`); after one step other
  than a stash, a fact already gathered or a question still to come rules the verdict
  out (`Spared`), whichever question the step fell behind. `SumInv`: each repository
  is either still to inspect or reported, once (`EachOnce`); a standing's rows are its
  own repository's worktrees (`OwnRows`); and the totals are those of the standings
  counted (`Sums`), which `RowsAddUp` keeps so.

- `ScanCache`'s invariant comes in layers. `ScanTypes`. `Shape`: what has been found lies
  under the root, below directories that were listed (`WalkShape`); a record, like a
  cache entry, names only what lies under its directory (`RecordShape`, `CacheShape`);
  and what has rolled up has taken everything walked below it along (`RollShape`).
  `Exact`: a listing kept for the visitor names what is there, unless that has moved
  (`Memos`); a visited project has nominated all it should (`NothingMissed`), and all that
  is nominated below no replayed directory is so with right (`NothingElse`).
  `WalkedIsExact` then needs that a directory with nothing replayed above it was
  listed: `Above[d]` is the least set that holds `d` and, with each node, its parent, so
  that those above `d` and below the root which were not listed, if there were any, would
  include the root itself.
  `Counted`: the thread counters are the totals of the records not yet taken up,
  since `RollUp` moves a summand. `Truth`: of a directory that nothing disturbed, the record
  says what is true of all that has been rolled up into it (`Gathered`, `Seen`), and
  when its turn comes, deepest first, that is its subtree; hence `EntriesAreTrue` of what
  `Store` writes, and hence of what the next scan replays. A sum of numbers is the
  cardinality of a set of units, so that no induction over the tree is needed.
- `Plans` follows a candidate that passed the fence through the merge: it is an item, or
  an item contains it; if a curated directory replaced it, an outermost one did.

With that every invariant and action property of every run is a theorem. Left to TLC
are `Terminates`, `PressureIsAnswered` and `CommandsEnd` (liveness under fairness is
beyond this prover), and the assumptions of the `*Checks`, most of which are about
folds over sequences.

## 5. Where the code and its words part

Met while modelling. The models follow the code; the properties are worded so that
they hold of it, and name these cases where they are exceptions.

**Key and plan.** `config.rs:33` has 32 random bytes read and written; the loser
of the race for the file re-reads it, possibly before the winner has filled it, and
goes on with an empty secret (`config.rs:117`).

**Deletion and receipt.** Nested items "still get a truthful `SkippedMissing`"
(`delete.rs:225`): it is prepared before the loop and untrue when the enclosing
item fails. `bytes_freed` is "the real sum of per-file sizes" (`delete.rs:422`): what
the forced pass removes (`fs.rs:1608`) is not counted. `PathStillExists` means "the
delete did not happen" (`receipt.rs:342`): also said of a path deleted and
recreated within the starting second (`receipt.rs:470`). `delete execute` exits with
0 when items failed.

**MCP server.** A failed deletion is excused if a receipt "was actually produced"
(`server.rs:1258`): one of an earlier call will do (`server.rs:1261`; the snapshot
tools, at about 1753 and 1810, do not even warn). "So a plan can never silently diverge in scope from
the audit" (`state.rs:91`): an audit of tool roots stores no roots, and its plan
covers the home directory and `/tmp` (`server.rs:763`). "Rebuild with plan_build()"
(`state.rs:225`) is refused in that state (`server.rs:744`). The dry run's preview "cannot
structurally diverge": of a nested item that is there it says Deleted with its
bytes, where the run skips it; it never previews a refusal, and the tool reads the
plan file again after the command did. `plan_validate` answers the reclaim
limit and the audit's integrity as true without looking, ignores the plan's
version, and calls a plan with an irreversible item invalid that `delete execute`
admits. `plan_rollback` restores nothing. Readers of a subprocess's pipes are
joined without a timeout.

**Autoclean.** Zero-byte items are "dropped from the plan rather than allowed to veto the
run" (about line 718): in memory only; if one is of unknown reversibility,
`plan approve`, which reads the file, refuses it. A run killed after narrowing
counts as Ok in the status; the exits by `?` write no evidence; a failed snapshot
thinning is "not_attempted" in it.

**Monitor.** The cooldown is there so that "a slow cleanup can never be stacked on
itself" (`autoclean.rs`, about 895): two monitors read the stamp before either
writes it (`monitor.rs:297`), and a killed monitor's job goes on beside its
successor's. On a full volume the stamp cannot be written, and the tick fails.

**Scanner and cache.** Whether a lane is recent is judged on a walk and not
on a replay (`fs.rs:705`); a lane that was suppressed stays hidden after it went
quiet. A change deep under an unchanged mtime is replayed stale (`fs.rs:707`); mtimes are whole seconds,
and a listing may be older than the mtime kept with it. Each name of a linked file
counts on replay; `projects_seen` is not replayed; entries of removed directories
stay. `all_filesystems` is not in the fingerprint. The cache is "keyed by a hash of the workspace
path" (`scan_cache.rs:6`), which is always that of `"."`. Curated caches are
merged after the filters for the running binary and for tracked files (`plan.rs`
178-246) and may contain either.

**Rules.** `.claude` is "deliberately excluded" as evidence (`artifact.rs`, about 1216),
and two lines on it counts. Several nominated names are no traversal barriers (the list is
`WalkedNominations`), so candidates may be nested. System fences are exact matches
(`SystemFencesAreFlat`). `go/pkg/mod/cache` is curated although inside a store. A
rule of several components is nominated when only the first exists.

**Evidence.** `certify --out` and the MCP seal write the recomputed chain before the
verdict on it, so that an edited receipt, once rejected, is accepted by the next
check; the comment asks to "reject rather than silently re-certifying the tamper"
(`receipt.rs`, about 190-209). A missing or torn affidavit is accepted silently.
`DumpedToStdout` means "no file exists at the requested path" (`fs.rs:82`), where the
earlier file has been truncated.

**Snapshots.** An aborted `snapshot delete` leaves no receipt for what it removed
("increasing destructive power must come with increased receipts",
`snapshot.rs:53`). A snapshot taken during a pass makes it "no_progress"; expired
ones count as thinned; one taken and thinned during a run is not reported.
`deletelocalsnapshots <date>` is not limited to a mount.

**Daemons.** "The agent runs exactly the build that generated its plist"
(`daemon_binary.rs` 5-9): all agents share one copy, which an install of another
build replaces, and does so before its preflight may refuse. The reload's check
compares paths only. A refused confirmation leaves a new plist with the old
instance. `unload -w` disables the label, and no install enables it again.

**GitHub.** Whether a branch is missing is decided by the substring "not found" or
"404" in an error (`github.rs`, about 311). A failing `gh repo list` ends in an empty
plan, successfully. There is no approval and no look before a deletion; the receipt is
written at the very end, and verification never looks at `github://` items.

**Worktrees.** Stashes are listed before the status is asked (`git_health.rs:307`,
`:349`), so that a worktree may be called merged and clean just after a stash. The
reclaimable classes are those "with nothing left to lose" (`git_worktree.rs`, about
283): the administrative entry of a missing detached worktree is all that keeps
its commits.

**Logs.** A tool-root log with an unknown time is refused by the program's own
adjudicator (`ocel.rs:1236`). `summarize` loses the time of a log read from a file.
Two paths may flatten to one id.

**Docker.** Images that vanish between the two samples are claimed whole
(`nouns/docker.rs`, about 196), as is a category whose line cannot be read the
second time. A failing second `df` leaves a prune without a receipt. The MCP tool
answers "prune complete" when Docker does not run. Sizes are parsed in units of
1024, which `progress.rs:119` says is what `docker df` prints.

## 6. What the models leave out

- *Between two system calls of one check* (`DeleteEngine`). `refuse_if_symlink`,
  `is_dir` and the listing are one step, as are `delete_file`'s check and its unlink;
  no other process renames or relinks inside a directory while it is being walked.
  What a swap in those windows would do is not claimed.
- Whatever protects an object is reduced to "its unlink fails", with a flag that
  `chflags` clears or for good. Sizes are 0 or 1 per inode (`PlannedBytes` when the
  stat of a vanished file fails). Progress, hashing and the printed summary are not modelled.
- `McpWorkflow`: plan and receipt lie at the default names of a workspace, and an
  approval with another file name is not modelled; the default workspace is a
  workspace like any other. The protocol and the tools' schemas are not modelled.
- `PressureMonitor` runs one monitor in TLC; what two do to each other's stamps is
  not claimed (the proofs are for any number, about kinds one of them has to itself).
- `ScanCache`: one root per command, one scanning command at a time (the database is
  opened exclusively, and a scan that finds it taken goes without: `Begin`); one fingerprint; the names and substrings
  rules compare are tokens in `ArtifactRules`. Most classes of `disk_scan.rs` are
  used by no command and not modelled.
- `Snapshots`: one mount; `--thin-after` together with `--release-snapshots` is not
  combined; sizes of snapshots are those of the items they pin.
- `Worktrees`: no more than the report; `scan_git_repos` finds the repositories.
- `DaemonInstall`: launchd's throttling and the plists' schedules are not modelled.
- `OcelLog`: numbers above the signed 64-bit range; ids are made of whole seconds.
- Cryptography is ideal: hashes are injective, signatures unforgeable.
- Redaction, doctor, launchd orphans, deduplication, the inventories of developer
  tools, the command line's shell, and the CFAB surface with its web UI compute from
  what they read, keep no state and decide no deletion; they are not modelled.

## 7. What could be added

1. Two monitors and their jobs' runs composed with `Autoclean`, to say how far
   stacked runs can go beyond one cap.
2. The walk of `DeleteEngine` with directories swapped beneath it.
3. Several roots in one scan command, whose overlapping walks share the counters.

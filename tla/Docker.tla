------------------------------- MODULE Docker -------------------------------
(***************************************************************************)
(* The docker commands (nouns/docker.rs, integration/docker.rs, domain/    *)
(* docker_host.rs and docker_receipt.rs): what `docker system df` and the  *)
(* sparse disk images are read as, what a prune and a trim do, in order,   *)
(* and what they claim afterwards.                                         *)
(*                                                                         *)
(* A command is a function of what it finds at each of its steps: the      *)
(* samples of one command may all differ, since Docker runs on meanwhile.  *)
(* Sizes are naturals below 2^64, so the saturating sums are plain ones.   *)
(***************************************************************************)
EXTENDS Integers, FiniteSets, SequencesExt

CONSTANT None       \* an optional value that is absent, a step that failed

Less(a, b) == IF b > a THEN 0 ELSE a - b        \* saturating_sub

-----------------------------------------------------------------------------
(* What is read. *)

Unit == [B |-> 1, KB |-> 1024]      \* the larger ones are further powers of 1024
\* A text is its number and its unit; one with neither is zero bytes.
parse_human_size(text) ==
    IF text.unit \in DOMAIN Unit THEN text.number * Unit[text.unit] ELSE 0

\* The lines of `docker system df`: those that are no JSON are dropped.
run_df(available, output) ==
    IF ~available \/ output = None THEN None ELSE SelectSeq(output, LAMBDA l : l.reads)

Category == {"Images", "Containers", "Local Volumes", "Build Cache"}
TypeOf(line) == IF line.type = "Volumes" THEN "Local Volumes" ELSE line.type
\* The last line of a category counts, a category without a line is zero.
PerCategory(lines, Categories, Size(_)) ==
    LET Of(c) == SelectSeq(lines, LAMBDA l : TypeOf(l) = c) IN
    [c \in Categories |-> IF Of(c) = <<>> THEN 0 ELSE parse_human_size(Size(Last(Of(c))))]
Total(sizes) == FoldFunction(LAMBDA a, b : a + b, 0, sizes)

docker_disk_usage(lines) == PerCategory(lines, Category, LAMBDA l : l.size)
docker_prune_preview(lines) ==
    PerCategory(lines, Category \ {"Containers"}, LAMBDA l : l.reclaimable)

\* Regular files only: a link is never followed.  No image is no footprint.
Footprint(files) ==
    LET regular == {f \in files : f.regular} IN
    IF regular = {} THEN None
    ELSE [count |-> Cardinality(regular),
          logical |-> MapThenSumSet(LAMBDA f : f.len, regular),
          physical |-> MapThenSumSet(LAMBDA f : f.blocks * 512, regular)]
docker_host_footprint_at(files) ==
    Footprint({f \in files : f.dir = "vms/data" /\ f.name \in {"Docker.raw", "data.Docker.raw"}})
colima_host_footprint_at(files) ==
    Footprint({f \in files : \/ f.dir = "_disks" /\ f.name = "datadisk"
                             \/ f.dir = "profile" /\ f.name \in {"disk", "diffdisk", "basedisk"}})

Physical(fp) == IF fp = None THEN None ELSE fp.physical
host_pinned_beyond_vm(fp, vmTotal) == Less(fp.physical, vmTotal)
space_returned_to_host(before, after) == Less(before, after)

-----------------------------------------------------------------------------
(* The commands. *)

prune_host_outcome(reclaimed, returned, pinned) ==
    IF returned > 0 THEN [is |-> "HostReturned", bytes |-> returned]
    ELSE IF reclaimed = 0 THEN [is |-> "NothingToReclaim", bytes |-> 0]
    ELSE [is |-> "HostStillPinned", bytes |-> pinned]

\* The usage before, the prune, the usage after: any of the three may fail.
docker_system_prune(step) ==
    IF step.df[1] = None \/ ~step.prunes \/ step.df[2] = None THEN None
    ELSE LET before == docker_disk_usage(step.df[1])
             after == docker_disk_usage(step.df[2])
         IN  [before |-> before, after |-> after,
              reclaimed |-> Less(Total(before), Total(after))]

DockerPruneReceipt(before, after, colima, host) ==
    [before |-> before, after |-> after, total_before |-> Total(before),
     total_after |-> Total(after), reclaimed |-> Less(Total(before), Total(after)),
     colima_pruned |-> colima, host_before |-> host[1], host_after |-> host[2]]

Nothing(ended) == [ended |-> ended, removed |-> FALSE, told |-> None, receipt |-> None]
\* `docker prune`.  A receipt that cannot be written is a warning.
Prune(confirm, skip_colima, wanted, step) ==
    LET host == <<Physical(step.host[1]), Physical(step.host[2])>>
        result == docker_system_prune(step)
        removed == step.df[1] # None /\ step.prunes
        returned == IF None \in ToSet(host) THEN None ELSE space_returned_to_host(host[1], host[2])
        colima == IF skip_colima \/ ~step.colima.available THEN None ELSE step.colima.prunes
    IN  IF ~step.available THEN Nothing("done")
        ELSE IF ~confirm THEN Nothing(IF step.df[1] = None THEN "failed" ELSE "done")
        ELSE IF result = None THEN [Nothing("failed") EXCEPT !.removed = removed]
        ELSE [ended |-> "done", removed |-> TRUE,
              told |-> IF returned = None THEN None
                       ELSE prune_host_outcome(result.reclaimed, returned,
                                               Less(host[2], Total(result.after))),
              receipt |-> IF ~wanted \/ ~step.writes THEN None
                          ELSE DockerPruneReceipt(result.before, result.after, colima, host)]

\* `docker trim`: what it says went back to the host.  An image that can no
\* longer be measured counts as one of no blocks.
Trim(confirm, before, trims, after) ==
    IF before = None \/ ~confirm \/ ~trims THEN None
    ELSE space_returned_to_host(before.physical, IF after = None THEN 0 ELSE after.physical)
=============================================================================

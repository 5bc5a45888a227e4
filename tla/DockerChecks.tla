---------------------------- MODULE DockerChecks ----------------------------
(***************************************************************************)
(* Bounded checks of what the docker commands claim: samples of 0 to 2     *)
(* bytes in two categories, one line of which may be unreadable, images    *)
(* of 0 to 2 blocks, and every step that can fail.                         *)
(***************************************************************************)
LOCAL INSTANCE Integers
LOCAL INSTANCE FiniteSets
LOCAL INSTANCE SequencesExt

CONSTANT None
LOCAL D == INSTANCE Docker

LOCAL Bytes(n) == [number |-> n, unit |-> "B"]
LOCAL Line(type, n, reads) == [reads |-> reads, type |-> type, size |-> Bytes(n), reclaimable |-> Bytes(n)]
LOCAL Outputs == {<<Line("Images", i, r), Line("Containers", 1, TRUE), Line("Volumes", v, TRUE)>> :
                     i \in 0..2, v \in 0..1, r \in BOOLEAN}
LOCAL Df == {None} \cup {D!run_df(TRUE, o) : o \in Outputs}
LOCAL Host == {None} \cup {[count |-> 1, logical |-> 2048, physical |-> 512 * n] : n \in 0..2}
LOCAL Step(df, host, prunes, colima, writes) ==
    [available |-> TRUE, df |-> df, host |-> host, prunes |-> prunes, colima |-> colima, writes |-> writes]
LOCAL Steps == {Step(<<d, e>>, <<h, i>>, p, [available |-> TRUE, prunes |-> FALSE], w) :
                   d, e \in Df, h, i \in Host, p \in BOOLEAN, w \in BOOLEAN}

\* A prune never says the host got back more than its images shrank by, or
\* anything at all if one of the two samples is missing; and that the blocks are
\* still pinned only if something was freed inside.
ASSUME HostIsNotOverclaimed ==
    \A s \in Steps :
        LET run == D!Prune(TRUE, FALSE, TRUE, s) IN
        run.told # None =>
            /\ None \notin ToSet(s.host)
            /\ run.told.is = "HostReturned" => run.told.bytes = s.host[1].physical - s.host[2].physical
            /\ run.told.is = "HostStillPinned" =>
                  /\ s.host[2].physical >= s.host[1].physical
                  /\ run.receipt # None => run.receipt.reclaimed > 0
            /\ run.told.is = "NothingToReclaim" /\ run.receipt # None => run.receipt.reclaimed = 0

\* Nothing is removed without being confirmed, and a receipt is of a removal; a
\* removal is without one if the usage afterwards could not be read or the file
\* not be written.
ASSUME ReceiptFollowsRemoval ==
    \A s \in Steps, confirm, wanted \in BOOLEAN :
        LET run == D!Prune(confirm, FALSE, wanted, s) IN
        /\ run.removed => confirm
        /\ run.receipt # None => run.removed /\ wanted
        /\ run.removed /\ wanted => (run.receipt = None) = (s.df[2] = None \/ ~s.writes)
        /\ run.removed /\ run.ended = "failed" => s.df[2] = None

\* The receipt agrees with what the command measured, in sum and per category.
ASSUME ReceiptAddsUp ==
    \A s \in Steps :
        LET receipt == D!Prune(TRUE, TRUE, TRUE, s).receipt IN
        receipt # None =>
            /\ receipt.total_before = D!Total(receipt.before)
            /\ receipt.reclaimed <= receipt.total_before
            /\ receipt.reclaimed > 0 => \E c \in D!Category : receipt.before[c] > receipt.after[c]
            /\ (\A c \in D!Category : receipt.after[c] <= receipt.before[c]) =>
                  receipt.reclaimed = receipt.total_before - receipt.total_after

\* A line that cannot be read after the prune is taken for nothing being left:
\* that, and only that, makes a prune that freed nothing claim its images.
ASSUME UnreadLinesAreClaimed ==
    \A i \in 0..2, before, after \in BOOLEAN :
        LET Sample(r) == D!run_df(TRUE, <<Line("Images", i, r)>>)
            receipt == D!Prune(TRUE, TRUE, TRUE, Step(<<Sample(before), Sample(after)>>,
                          <<None, None>>, TRUE, [available |-> FALSE, prunes |-> FALSE], TRUE)).receipt
        IN  receipt.reclaimed = IF before /\ ~after THEN i ELSE 0

\* A skip of Colima's prune is never recorded as its failure.
ASSUME SkipIsNotFailure ==
    \A skip, available, prunes \in BOOLEAN :
        LET quiet == D!run_df(TRUE, <<>>)
            receipt == D!Prune(TRUE, skip, TRUE, Step(<<quiet, quiet>>, <<None, None>>, TRUE,
                          [available |-> available, prunes |-> prunes], TRUE)).receipt
        IN  (receipt.colima_pruned = None) = (skip \/ ~available)

\* The trim's claim is the shrinking of the images it measured twice.  Images it
\* can no longer find are claimed whole.
ASSUME TrimClaimsWhatShrank ==
    \A before, after \in Host, confirm, trims \in BOOLEAN :
        LET claim == D!Trim(confirm, before, trims, after) IN
        /\ claim # None => confirm /\ trims
        /\ claim # None /\ after # None => claim = D!Less(before.physical, after.physical)
        /\ claim # None /\ after = None => claim = before.physical

\* The preview leaves the containers out, although the prune removes stopped
\* ones: it never promises more than the usage read from the same lines.
ASSUME PreviewIsWithinUsage ==
    \A lines \in Df \ {None} :
        D!Total(D!docker_prune_preview(lines)) + D!docker_disk_usage(lines)["Containers"]
            = D!Total(D!docker_disk_usage(lines))

\* Links are not measured, whatever they point to, and nothing but images is.
ASSUME OnlyImagesAreMeasured ==
    LET File(dir, name, regular) ==
            [dir |-> dir, name |-> name, regular |-> regular, len |-> 3, blocks |-> 1]
        Files == {File(d, n, r) : d \in {"vms/data", "_disks", "profile"},
                     n \in {"Docker.raw", "datadisk", "disk", "in_use_by"}, r \in BOOLEAN}
    IN  \A files \in {f \in SUBSET Files : Cardinality(f) <= 2} :
            /\ (D!docker_host_footprint_at(files) = None)
                 = (File("vms/data", "Docker.raw", TRUE) \notin files)
            /\ (D!colima_host_footprint_at(files) = None)
                 = ({File("_disks", "datadisk", TRUE), File("profile", "disk", TRUE)} \cap files = {})

\* A unit that is not known makes the size zero, a known one scales it; of two
\* lines of a category the later counts, whichever name it has for the volumes.
ASSUME UnitsScale ==
    /\ D!docker_disk_usage(<<Line("Local Volumes", 1, TRUE), Line("Volumes", 2, TRUE)>>)["Local Volumes"] = 2
    /\ \A n \in 0..3 : D!parse_human_size([number |-> n, unit |-> "parsecs"]) = 0
    /\ D!parse_human_size([number |-> 2, unit |-> "KB"]) = 2048
=============================================================================

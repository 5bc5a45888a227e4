----------------------------- MODULE Snapshots -----------------------------
(***************************************************************************)
(* Local APFS snapshots and the commands that remove them: `snapshot thin`, *)
(* `snapshot delete`, `delete execute` with --thin-after or                 *)
(* --release-snapshots, and `emergency --yes`.                              *)
(*                                                                         *)
(* A snapshot pins the blocks of every item that was live when it was       *)
(* taken: unlinking an item returns its bytes only once no snapshot holds   *)
(* it, and that is what the free-space verdict of a receipt is about.       *)
(* While the commands run, macOS takes and expires snapshots of its own     *)
(* accord and other programs write to the same volume.                      *)
(***************************************************************************)
EXTENDS Integers, FiniteSets, FiniteSetsExt

CONSTANTS
    Run,            \* the commands given
    Kinds,          \* what each may be, some of Commands
    Item,           \* what `delete execute` and `emergency` clear
    Size,           \* its bytes, per item
    OsUpdate,       \* snapshots whose name holds no date
    LastDate,       \* dated snapshots are named 1 .. LastDate, oldest first
    Present,        \* the last date that is there at the start
    MaxPasses,      \* MAX_THIN_ITERATIONS
    Requested,      \* `--bytes` of `snapshot thin`
    Floor,          \* RECLAIM_WITNESS_FLOOR_BYTES
    MaxNoise,       \* bound: bytes other programs hold at once
    MaxEvents       \* bound: what macOS and they do meanwhile

Dated == 1 .. LastDate
Commands == {"thin", "keep-latest", "oldest", "all", "explicit",
             "execute", "execute-thin", "execute-release", "emergency"}
Clearing == {"execute", "execute-thin", "execute-release", "emergency"}
Naming == {"keep-latest", "oldest", "all", "explicit", "execute-release"}

ASSUME SnapshotsAssumption ==
    /\ Kinds \in [Run -> SUBSET Commands] /\ Size \in [Item -> Nat \ {0}]
    /\ {LastDate, Present, MaxPasses, Requested, Floor, MaxNoise,
        MaxEvents} \subseteq Nat
    /\ Present <= LastDate /\ MaxPasses > 0
    /\ OsUpdate \cap Dated = {} /\ IsFiniteSet(Item)

VARIABLES
    live,           \* the items that are there
    fate,           \* per dated snapshot: not taken yet, there, or who removed it
    pins,           \* the items each snapshot holds
    noise,          \* bytes of other programs
    run,            \* the commands
    left            \* bound: events left

vars == <<live, fate, pins, noise, run, left>>

Snapshot == Dated \cup OsUpdate
There == {s \in Dated : fate[s] = "there"} \cup OsUpdate    \* tmutil's listing
Pinned == UNION {pins[s] : s \in There}
Blocks == UNION {{i} \X (1 .. Size[i]) : i \in Item}         \* what the items occupy, byte by byte
Bytes(S) == Cardinality({b \in Blocks : b[1] \in S})
Available ==                                                \* volume_space().available
    Bytes(Item) + MaxNoise - Bytes(live \cup Pinned) - noise

Fresh == [kind |-> "none", pc |-> "idle", before |-> {}, now |-> {}, targets |-> {},
          pass |-> 0, base |-> 0, start |-> 0, todo |-> {}, swept |-> {}, mine |-> {},
          released |-> FALSE, disturbed |-> FALSE, told |-> FALSE, thinned |-> {},
          verdict |-> "none", blame |-> {}]

Init ==
    /\ live = Item
    /\ fate = [s \in Dated |-> IF s <= Present THEN "there" ELSE "never"]
    /\ \E held \in [OsUpdate -> SUBSET Item] :
          pins = [s \in Snapshot |-> IF s \in OsUpdate THEN held[s]
                                     ELSE IF s <= Present THEN Item ELSE {}]
    /\ noise = 0
    /\ run = [r \in Run |-> Fresh]
    /\ left = MaxEvents

At(r, pc) == run[r].pc = pc
Active(r) == run[r].pc \notin {"idle", "done", "failed"}

-----------------------------------------------------------------------------
(* domain/time.rs *)

DatesOf(names) == names \cap Dated                          \* parse_snapshot_date
Oldest(names, n) ==                                         \* select_oldest_snapshots
    {s \in DatesOf(names) : Cardinality({t \in DatesOf(names) : t < s}) < n}
KeepLatestByLength(names) ==                                \* the slip its comment tells of
    Oldest(names, Cardinality(names) - 1)
KeepLatest(names) ==                                        \* select_snapshots_to_keep_latest
    Oldest(names, Cardinality(DatesOf(names)) - 1)

StopUncapped(pass, had, has, gained, wanted) ==
    IF has = 0 THEN "nothing_left"
    ELSE IF has >= had THEN "no_progress"
    ELSE IF gained >= wanted THEN "target_met"
    ELSE "none"

\* Why thinning stops after a pass, in the order thin_stop_reason asks.
StopReason(pass, had, has, gained, wanted) ==
    IF pass >= MaxPasses THEN "iteration_cap"
    ELSE IF has = 0 THEN "nothing_left"
    ELSE IF has >= had THEN "no_progress"
    ELSE IF gained >= wanted THEN "target_met"
    ELSE "none"

\* The reality law of receipts (domain/receipt.rs): half of the claim must show.
CheckReclaim(claimed, before, after) ==
    IF claimed <= Floor THEN "not_applicable"
    ELSE IF 2 * (after - before) < claimed THEN "shortfall" ELSE "witnessed"

-----------------------------------------------------------------------------
(* The commands *)

\* A command that is over keeps what its receipts say and what they are judged by.
Over(c, pc) ==
    LET told == [Fresh EXCEPT !.kind = c.kind, !.pc = pc, !.told = c.told]
        receipt == [told EXCEPT !.before = c.before, !.mine = c.mine, !.thinned = c.thinned]
        last == IF c.told THEN receipt ELSE told
    IN IF c.verdict # "shortfall" THEN [last EXCEPT !.verdict = c.verdict]
       ELSE [last EXCEPT !.verdict = c.verdict, !.blame = c.blame, !.before = c.before,
                         !.released = c.released, !.disturbed = c.disturbed]

\* Where a command goes when its snapshot work is done, or failed: `delete
\* execute` warns and writes the receipt of a deletion that has happened,
\* `emergency` goes on to the caches, the others end there.
Onward(c, worked) ==
    CASE c.kind = "emergency" -> [c EXCEPT !.pc = "sweep"]
      [] c.kind \in Clearing \ {"emergency"} -> [c EXCEPT !.pc = "measure"]
      [] OTHER -> Over(c, IF worked THEN "done" ELSE "failed")

Keeps(r, c) == run' = [run EXCEPT ![r] = c]

\* Every command looks at the volume first: free space and, for those that
\* clear items, what there is to clear.
Begin(r) ==
    /\ At(r, "idle")
    /\ \E k \in Kinds[r], S \in SUBSET Item \ {{}} :
          /\ k \notin Clearing \/ k = "emergency" => S = Item
          /\ Keeps(r, [Fresh EXCEPT
                !.kind = k, !.start = Available,
                !.todo = IF k \in Clearing THEN S ELSE {},
                !.pc = IF k \in Clearing \ {"emergency"} THEN "sweep" ELSE "list"])
    /\ UNCHANGED <<live, fate, pins, noise, left>>

\* One item is cleared (its measured bytes are claimed), found missing, or
\* cannot be removed.
Sweep(r) ==
    /\ At(r, "sweep")
    /\ \E i \in run[r].todo, worked \in BOOLEAN :
          /\ live' = IF worked THEN live \ {i} ELSE live
          /\ Keeps(r, [run[r] EXCEPT !.todo = @ \ {i},
                !.swept = IF worked THEN @ \cup (live \cap {i}) ELSE @])
    /\ UNCHANGED <<fate, pins, noise, left>>

Swept(r) ==
    /\ At(r, "sweep") /\ run[r].todo = {}
    /\ Keeps(r, [run[r] EXCEPT !.pc =
          IF run[r].kind \in {"execute-thin", "execute-release"} THEN "list" ELSE "measure"])
    /\ UNCHANGED <<live, fate, pins, noise, left>>

\* What `--which` names among the snapshots listed.
Targets(kind, names) ==
    CASE kind = "keep-latest" -> {KeepLatest(names)}
      [] kind = "oldest" -> {Oldest(names, n) : n \in 0 .. LastDate}
      [] kind = "explicit" -> {{s} : s \in Dated}
      [] OTHER -> {DatesOf(names)}

\* list_local_snapshots: the listing the receipt starts from. Nothing to do
\* ends a naming command without a receipt.
List(r) ==
    /\ At(r, "list")
    /\ LET c == [run[r] EXCEPT !.before = There, !.now = There, !.base = Available] IN
       \/ /\ c.kind \in Naming
          /\ \E T \in Targets(c.kind, There) :
                Keeps(r, IF T = {} THEN Onward([c EXCEPT !.released = TRUE], TRUE)
                         ELSE [c EXCEPT !.targets = T, !.pc = "drop"])
       \/ /\ c.kind \notin Naming
          /\ Keeps(r, IF c.kind = "emergency" /\ There = {} THEN Onward(c, TRUE)
                      ELSE [c EXCEPT !.pc = "pass"])
       \/ Keeps(r, Onward(run[r], FALSE))                   \* tmutil fails
    /\ UNCHANGED <<live, fate, pins, noise, left>>

\* A snapshot goes, by the hand of command r.
RemovedBy(r) == IF run[r].kind = "keep-latest" THEN "keep-latest" ELSE "other"
Takes(r, S) == fate' = [s \in Dated |-> IF s \in S THEN RemovedBy(r) ELSE fate[s]]

\* tmutil thinlocalsnapshots: macOS chooses which dated snapshots to drop. A
\* failing pass ends the thinning, except for `emergency`.
Pass(r) ==
    /\ At(r, "pass")
    /\ \/ \E S \in SUBSET DatesOf(There) :
             /\ Takes(r, S)
             /\ Keeps(r, [run[r] EXCEPT !.pc = "relist", !.pass = @ + 1, !.mine = @ \cup S])
       \/ /\ Keeps(r, IF run[r].kind = "emergency" THEN [run[r] EXCEPT !.pc = "relist"]
                      ELSE Onward(run[r], FALSE))
          /\ UNCHANGED fate
    /\ UNCHANGED <<live, pins, noise, left>>

\* tmutil deletelocalsnapshots of the oldest target left. A name that is no
\* longer there is an error or not, and an error aborts the command, except
\* for `emergency`.
Drop(r) ==
    /\ At(r, "drop") /\ run[r].targets # {}
    /\ LET s == Min(run[r].targets)
           rest == [run[r] EXCEPT !.targets = @ \ {s}]
       IN \/ /\ Takes(r, {s} \cap There)
             /\ Keeps(r, [rest EXCEPT !.mine = @ \cup ({s} \cap There)])
          \/ /\ Keeps(r, IF run[r].kind = "emergency" THEN [rest EXCEPT !.released = FALSE]
                         ELSE Onward(run[r], FALSE))
             /\ UNCHANGED fate
    /\ UNCHANGED <<live, pins, noise, left>>

Dropped(r) ==
    /\ At(r, "drop") /\ run[r].targets = {}
    /\ Keeps(r, IF run[r].kind = "emergency" THEN Onward(run[r], TRUE)
                ELSE [run[r] EXCEPT !.pc = "relist"])
    /\ UNCHANGED <<live, fate, pins, noise, left>>

\* SnapshotThinReceipt::new: what was listed first and is not listed now.
LastPassReceipt(c, after) == [c EXCEPT !.told = TRUE, !.thinned = c.now \ after]
WithReceipt(c, after) == [c EXCEPT !.told = TRUE, !.thinned = c.before \ after]

Wanted(c) == IF c.kind = "thin" THEN Requested ELSE Bytes(c.swept)

\* The listing after a pass decides whether to thin once more; the one after
\* the deletions is the receipt's. `emergency` names what survived.
Relist(r) ==
    /\ At(r, "relist")
    /\ LET c == run[r]
           stop == StopReason(c.pass, Cardinality(c.now), Cardinality(There),
                              Available - c.base, Wanted(c))
       IN \/ /\ c.kind = "emergency"
             /\ Keeps(r, [c EXCEPT !.before = There, !.targets = DatesOf(There),
                                   !.pc = "drop", !.released = TRUE])
          \/ /\ c.kind \in Naming
             /\ Keeps(r, Onward([WithReceipt(c, There) EXCEPT !.released = TRUE], TRUE))
          \/ /\ c.kind \notin Naming \cup {"emergency"}
             /\ Keeps(r, IF stop = "none" THEN [c EXCEPT !.now = There, !.pc = "pass"]
                         ELSE Onward(WithReceipt(c, There), TRUE))
          \/ Keeps(r, Onward(c, FALSE))                     \* tmutil fails
    /\ UNCHANGED <<live, fate, pins, noise, left>>

Holding(S) == {s \in There : pins[s] \cap S # {}}

\* The free space after everything, and the verdict on the bytes claimed.
MeasureEarly(r) ==
    /\ At(r, "measure")
    /\ LET c == run[r]
           after == IF c.released THEN c.base ELSE Available IN
       Keeps(r, Over([c EXCEPT
          !.verdict = CheckReclaim(Bytes(c.swept), c.start, after),
          !.blame = Holding(c.swept)], "done"))
    /\ UNCHANGED <<live, fate, pins, noise, left>>

Measure(r) ==
    /\ At(r, "measure")
    /\ LET c == run[r] IN
       Keeps(r, Over([c EXCEPT
          !.verdict = CheckReclaim(Bytes(c.swept), c.start, Available),
          !.blame = Holding(c.swept)], "done"))
    /\ UNCHANGED <<live, fate, pins, noise, left>>

Command(r) ==
    \/ Begin(r) \/ Sweep(r) \/ Swept(r) \/ List(r) \/ Pass(r) \/ Drop(r)
    \/ Dropped(r) \/ Relist(r) \/ Measure(r)

-----------------------------------------------------------------------------
(* macOS and the other programs on the volume *)

Event == left > 0 /\ left' = left - 1

Expire(s) ==
    /\ Event /\ fate[s] = "there" /\ fate' = [fate EXCEPT ![s] = "other"]
    /\ UNCHANGED <<live, pins, noise, run>>

Take(s) ==
    /\ Event /\ fate[s] = "never" /\ \A t \in Dated : t < s => fate[t] # "never"
    /\ fate' = [fate EXCEPT ![s] = "there"] /\ pins' = [pins EXCEPT ![s] = live]
    /\ UNCHANGED <<live, noise, run>>

\* Commands that are measuring do not see who wrote, only that space is gone.
Disturb ==
    run' = [r \in Run |-> IF Active(r) THEN [run[r] EXCEPT !.disturbed = TRUE] ELSE run[r]]

Write ==
    /\ Event /\ noise < MaxNoise /\ noise' = noise + 1 /\ Disturb
    /\ UNCHANGED <<live, fate, pins>>

Remake(i) ==
    /\ Event /\ i \notin live /\ live' = live \cup {i} /\ Disturb
    /\ UNCHANGED <<fate, pins, noise>>

Next ==
    \/ \E r \in Run : Command(r)
    \/ \E s \in Dated : Expire(s) \/ Take(s)
    \/ Write
    \/ \E i \in Item : Remake(i)

Spec == Init /\ [][Next]_vars

-----------------------------------------------------------------------------
(* Properties *)

\* Every variable keeps its type.
Runs ==
    [kind : Commands \cup {"none"}, before : SUBSET Snapshot, now : SUBSET Snapshot,
     pc : {"idle", "sweep", "list", "pass", "drop", "relist", "measure", "done", "failed"},
     targets : SUBSET Dated, pass : 0 .. MaxPasses, base : Nat, start : Nat,
     todo : SUBSET Item, swept : SUBSET Item, mine : SUBSET Dated, released : BOOLEAN,
     disturbed : BOOLEAN, told : BOOLEAN, thinned : SUBSET Snapshot,
     verdict : {"none", "not_applicable", "shortfall", "witnessed"}, blame : SUBSET Snapshot]
TypeOK ==
    /\ live \subseteq Item /\ left \in 0 .. MaxEvents /\ noise \in 0 .. MaxNoise
    /\ fate \in [Dated -> {"never", "there", "keep-latest", "other"}]
    /\ pins \in [Snapshot -> SUBSET Item]
    /\ run \in [Run -> Runs]

\* `snapshot delete --which keep-latest` never costs the volume its newest
\* snapshot, however many such commands run at once and whatever macOS takes
\* meanwhile: each one they removed is outlived by a newer one, unless
\* something else removed that (snapshot.rs 430-480, time.rs 244-281).
KeepLatestKeeps ==
    \A s \in Dated : fate[s] = "keep-latest" =>
       \E t \in Dated : t > s /\ fate[t] \in {"there", "other"}

\* The receipt of a run that thinned or deleted names every snapshot it
\* removed of those it had listed, over all of its passes (snapshot.rs
\* 254-318, 430-480).
ReceiptTellsAll ==
    \A r \in Run : run[r].told => run[r].mine \cap run[r].before \subseteq run[r].thinned

\* A shortfall that nobody else's writing explains is a snapshot's doing, and
\* after a release that worked, of one the release did not list or may not
\* touch: the verdict is taken after the snapshots went (delete.rs 509-552,
\* emergency.rs 78-175, receipt.rs 156-237).
ShortfallExplained ==
    \A r \in Run : run[r].verdict = "shortfall" /\ ~ run[r].disturbed =>
       /\ run[r].blame # {}
       /\ run[r].released => run[r].blame \cap run[r].before \cap Dated = {}
=============================================================================

------------------------------- MODULE ScanCache -------------------------------
(***************************************************************************)
(* The scan of audit run and plan build (scan_root in integration/fs.rs)   *)
(* over a tree that other processes change, with the cache of directory    *)
(* totals it keeps (integration/scan_cache.rs), and what plan build makes  *)
(* of the candidates (nouns/plan.rs).                                      *)
(*                                                                         *)
(* A node is a directory the scan walks (Dir) or one it never enters       *)
(* (Leaf: a traversal barrier such as target, or a lane build root).  The  *)
(* classification by names is data: Project says which directories hold a  *)
(* project marker, Artifact which children of a project are nominated.     *)
(***************************************************************************)
EXTENDS Integers, FiniteSets

CONSTANTS
    Dir, Leaf,
    Parent,      \* of every node; Top for the topmost ones
    Top,
    Project,     \* the directories in which detect_project_from_snapshot finds one
    Artifact,    \* the nodes artifact_candidates_from_snapshot nominates in a project
    Lane,        \* lane build roots: leases, protected while recently active
    Curated,     \* directories on the list of global caches
    Tracked,     \* nodes holding files that git tracks
    Running,     \* nodes holding the executable that is running
    Linked,      \* directories holding a name of one hard-linked file of one byte
    File,        \* names of the files of a directory
    Root,        \* what --root may be
    Window,      \* the ignore_recent_hours of the scans that have one
    MaxClock, MaxBytes, MaxChanges, MaxScans    \* bounds

Node == Dir \cup Leaf

(* The components of a path: what lies in every set that holds the node and,   *)
(* with each of its members, that one's parent.                                *)
Closed(S) == \A n \in S : Parent[n] \in S \cup {Top}
Above == [n \in Node |-> {m \in Node : \A S \in SUBSET Node : n \in S /\ Closed(S) => m \in S}]

ASSUME ScanAssumption ==
    /\ IsFiniteSet(Node) /\ IsFiniteSet(File)
    /\ Dir \cap Leaf = {} /\ Top \notin Node
    /\ Parent \in [Node -> Dir \cup {Top}]
    /\ \A n \in Node : Parent[n] # Top => n \notin Above[Parent[n]]
    /\ Lane \subseteq Leaf /\ Lane \subseteq Artifact
    /\ (Project \cup Curated \cup Linked) \subseteq Dir
    /\ (Artifact \cup Tracked \cup Running) \subseteq Node
    /\ Root \subseteq Dir \cup Lane
    /\ {Window, MaxClock, MaxBytes, MaxChanges, MaxScans} \subseteq Nat /\ MaxBytes > 0

VARIABLES
    now,        \* the clock, in the whole seconds in which the cache keeps a mtime
    mtime,      \* mtime[n]: when an entry of n was last added or removed
    size,       \* size[d][f]: the bytes of file f of d, 0 when there is none
    room,       \* room[l]: the bytes under a leaf, 0 when there is none
    cache,      \* cache[d]: what is stored under the path of d
    scan,       \* the running command
    changes, scans,     \* how many changes and scans there have been
    moved,      \* history: the nodes changed since the scan began
    stale       \* history: the directories whose entry may have been overtaken

tree == <<mtime, size, room>>
scanVars == <<now, tree, cache, scan, changes, scans, moved, stale>>

Under(d) == {n \in Node : d \in Above[n]}
Children(d) == {n \in Node : Parent[n] = d}
Depth(d) == Cardinality(Above[d])

(* The sum of f over S: f[x] units of each x.                                  *)
Total(f, S) == Cardinality(UNION {{x} \X (1 .. f[x]) : x \in S})

FilesOf(d) == {f \in File : size[d][f] > 0}
BytesOf(d) == Total(size[d], File)
LinkOf(d) == IF d \in Linked THEN 1 ELSE 0

(* The listing of a directory, which child_names_hash stands for.              *)
Names == [files : SUBSET File, leaves : SUBSET Leaf]
NoNames == [files |-> {}, leaves |-> {}]
Listing(d) == [files |-> FilesOf(d), leaves |-> {l \in Children(d) \cap Leaf : room[l] > 0}]

Entry == [held : BOOLEAN, mtime : 0..MaxClock, names : Names,
          files : Nat, bytes : Nat, dirs : Nat, found : SUBSET Artifact]
NoEntry == [held |-> FALSE, mtime |-> 0, names |-> NoNames,
            files |-> 0, bytes |-> 0, dirs |-> 0, found |-> {}]

NoMemo == [held |-> FALSE, names |-> NoNames]
NoScan == [pc |-> "idle", root |-> Top, hours |-> 0, cached |-> FALSE,
           stage |-> [d \in Dir |-> "unseen"], memo |-> [d \in Dir |-> NoMemo],
           record |-> [d \in Dir |-> NoEntry], rolled |-> {}, files |-> 0, bytes |-> 0, dirs |-> 0,
           linked |-> FALSE, nominated |-> {}, items |-> {}]

ScanInit ==
    /\ now = 0
    /\ mtime = [n \in Node |-> 0]
    /\ size = [d \in Dir |-> [f \in File |-> 1]]
    /\ room = [l \in Leaf |-> 1]
    /\ cache = [d \in Dir |-> NoEntry]
    /\ scan = NoScan
    /\ changes = 0 /\ scans = 0
    /\ moved = {} /\ stale = {}

------------------------------------------------------------------------------
(* What other processes do to the tree.                                        *)
Changes(n) ==
    /\ changes < MaxChanges
    /\ changes' = changes + 1
    /\ moved' = IF scan.pc = "idle" THEN {} ELSE moved \cup {n}
    /\ stale' = stale \cup (Above[n] \cap Dir)
    /\ UNCHANGED <<now, cache, scan, scans>>

(* A file is written in place: no directory's mtime tells.                     *)
Grow(d, f) ==
    /\ size[d][f] \in 1..(MaxBytes - 1)
    /\ size' = [size EXCEPT ![d][f] = @ + 1]
    /\ Changes(d)
    /\ UNCHANGED <<mtime, room>>

(* A file is replaced by a larger one of its name: the mtime tells, the names  *)
(* do not.                                                                     *)
Replace(d, f) ==
    /\ size[d][f] \in 1..(MaxBytes - 1)
    /\ size' = [size EXCEPT ![d][f] = @ + 1]
    /\ mtime' = [mtime EXCEPT ![d] = now]
    /\ Changes(d)
    /\ UNCHANGED room

(* A file is removed, or created.                                              *)
Unlink(d, f) ==
    /\ size' = [size EXCEPT ![d][f] = IF @ > 0 THEN 0 ELSE 1]
    /\ mtime' = [mtime EXCEPT ![d] = now]
    /\ Changes(d)
    /\ UNCHANGED room

(* A cleaner removes a leaf, or a build creates it.                            *)
Make(l) ==
    /\ room' = [room EXCEPT ![l] = IF @ > 0 THEN 0 ELSE 1]
    /\ mtime' = [n \in Node |-> IF n \in {l, Parent[l]} THEN now ELSE mtime[n]]
    /\ Changes(l)
    /\ UNCHANGED size

(* A compiler works in a lane: the mtime of the lane tells, its parent's not.  *)
Compile(l) ==
    /\ room[l] > 0 /\ mtime[l] # now
    /\ mtime' = [mtime EXCEPT ![l] = now]
    /\ Changes(l)
    /\ UNCHANGED <<size, room>>

Tick ==
    /\ now < MaxClock
    /\ now' = now + 1
    /\ moved' = IF scan.pc = "idle" THEN {} ELSE moved \cup Lane
    /\ UNCHANGED <<tree, cache, scan, changes, scans, stale>>

Environment ==
    \/ \E d \in Dir, f \in File : Grow(d, f) \/ Replace(d, f) \/ Unlink(d, f)
    \/ \E l \in Leaf : Make(l)
    \/ \E l \in Lane : Compile(l)
    \/ Tick

------------------------------------------------------------------------------
(* A lane modified within the recency window counts as in use.                 *)
RecentlyActive(l, hours) == hours > 0 /\ mtime[l] > now - hours

(* Not the code: any root is nominated that is there and quiet. *)
BeginAtAny(root, hours) ==
    /\ scan.pc = "idle" /\ scans < MaxScans
    /\ scans' = scans + 1
    /\ \E opened \in BOOLEAN :
          scan' = [NoScan EXCEPT !.pc = "walk", !.root = root, !.hours = hours, !.cached = opened,
                      !.stage = [d \in Dir |-> IF d = root THEN "entered" ELSE "unseen"],
                      !.nominated = IF RecentlyActive(root, hours) THEN {} ELSE {root}]
    /\ cache' \in {cache, [d \in Dir |-> NoEntry]}
    /\ moved' = {}
    /\ UNCHANGED <<now, tree, changes, stale>>

(* The command opens the cache: another one may hold the lock for too long, or *)
(* the cache has outgrown its cap and is removed, or the namespace is new.     *)
Begin(root, hours) ==
    /\ scan.pc = "idle" /\ scans < MaxScans
    /\ scans' = scans + 1
    /\ \E opened \in BOOLEAN :
          scan' = [NoScan EXCEPT !.pc = "walk", !.root = root, !.hours = hours, !.cached = opened,
                      !.stage = [d \in Dir |-> IF d = root THEN "entered" ELSE "unseen"],
                      !.nominated = IF root \in Lane /\ room[root] > 0
                                       /\ ~RecentlyActive(root, hours)
                                    THEN {root} ELSE {}]
    /\ cache' \in {cache, [d \in Dir |-> NoEntry]}
    /\ moved' = {}
    /\ UNCHANGED <<now, tree, changes, stale>>

Walks == scan.pc = "walk" /\ UNCHANGED <<now, tree, cache, changes, scans, moved, stale>>

(* filter_entry: an entry under the same mtime or for the same names stands    *)
(* for the subtree.  The listing read for the comparison is kept for Visit.    *)
FoldCachedStats(d, e) ==
    scan' = [scan EXCEPT !.stage[d] = "hit", !.record[d] = e,
                         !.dirs = @ + e.dirs, !.files = @ + e.files, !.bytes = @ + e.bytes,
                         !.nominated = @ \cup e.found]

CacheHit(e, t, names) == e.mtime = t \/ e.names = names

Filter(d) ==
    /\ Walks /\ scan.stage[d] = "found"
    /\ LET e == cache[d] IN
       IF scan.cached /\ e.held /\ CacheHit(e, mtime[d], Listing(d))
       THEN FoldCachedStats(d, e)
       ELSE scan' = [scan EXCEPT !.stage[d] = "entered",
                       !.memo[d] = IF scan.cached /\ e.held
                                   THEN [held |-> TRUE, names |-> Listing(d)] ELSE NoMemo]

(* Not the code: no recency gate. *)
OwnWithoutGate(d, names) ==
    {n \in Artifact \cap Children(d) : d \in Project /\ (n \in Leaf => n \in names.leaves)}

(* The visitor: the mtime first, then the snapshot, then each lane's mtime.    *)
OwnCandidates(d, names) ==
    {n \in Artifact \cap Children(d) :
        /\ d \in Project
        /\ n \in Leaf => n \in names.leaves
        /\ n \in Lane => ~RecentlyActive(n, scan.hours)}

Visit(d) ==
    /\ Walks /\ scan.stage[d] = "entered"
    /\ LET names == IF scan.memo[d].held THEN scan.memo[d].names ELSE Listing(d)
           own == OwnCandidates(d, names)
       IN scan' = [scan EXCEPT !.stage[d] = "visited", !.memo[d] = NoMemo,
                     !.dirs = @ + 1, !.nominated = @ \cup own,
                     !.record[d] = [NoEntry EXCEPT !.held = TRUE, !.mtime = mtime[d],
                                      !.names = names, !.dirs = 1, !.found = own]]

(* The walker reads the entries: files are counted, directories come next.     *)
(* One name of a linked file counts in the totals, every one in the record.    *)
List(d) ==
    /\ Walks /\ scan.stage[d] = "visited"
    /\ scan' = [scan EXCEPT
          !.stage = [n \in Dir |-> IF n = d THEN "listed"
                                   ELSE IF Parent[n] = d THEN "found" ELSE scan.stage[n]],
          !.files = @ + Cardinality(FilesOf(d)) + LinkOf(d),
          !.bytes = @ + BytesOf(d) + (IF scan.linked THEN 0 ELSE LinkOf(d)),
          !.linked = @ \/ d \in Linked,
          !.record[d] = [@ EXCEPT !.files = Cardinality(FilesOf(d)) + LinkOf(d),
                                  !.bytes = BytesOf(d) + LinkOf(d)]]

Listed == {d \in Dir : scan.stage[d] = "listed"}
Hits == {d \in Dir : scan.stage[d] = "hit"}

(* The walk is over, and without a cache so is the scan.                       *)
Finish ==
    /\ Walks
    /\ \A d \in Dir : scan.stage[d] \in {"unseen", "listed", "hit"}
    /\ scan' = [scan EXCEPT !.pc = IF scan.cached THEN "rollup" ELSE "scanned"]

(* Not the code: hits do not roll up into their parents. *)
ListedToRollUp == Listed \ scan.rolled

(* aggregate_subtrees: one directory after the other, the deepest first, rolls *)
(* up into its parent; a hit brings the totals it was stored with.             *)
ToRollUp == (Listed \cup Hits) \ scan.rolled
Plus(own, e) == [own EXCEPT !.dirs = @ + e.dirs, !.files = @ + e.files, !.bytes = @ + e.bytes,
                            !.found = @ \cup e.found]

RollUp(d) ==
    /\ scan.pc = "rollup" /\ UNCHANGED <<now, tree, cache, changes, scans, moved, stale>>
    /\ d \in ToRollUp \ {scan.root}
    /\ \A c \in ToRollUp : Depth(c) <= Depth(d)
    /\ scan' = [scan EXCEPT !.rolled = @ \cup {d},
                            !.record[Parent[d]] = Plus(@, scan.record[d])]

(* The entries of what was walked go to the cache in one batch, which may fail. *)
Store ==
    /\ scan.pc = "rollup" /\ ToRollUp \subseteq {scan.root}
    /\ scan' = [scan EXCEPT !.pc = "scanned"]
    /\ \/ /\ cache' = [d \in Dir |-> IF d \in Listed THEN scan.record[d] ELSE cache[d]]
          /\ stale' = {d \in Dir : IF d \in Listed
                                   THEN (moved \cup (Hits \cap stale)) \cap Under(d) # {}
                                   ELSE d \in stale}
       \/ UNCHANGED <<cache, stale>>
    /\ UNCHANGED <<now, tree, changes, scans, moved>>

Builds == UNCHANGED <<now, tree, cache, changes, scans, stale>>

(* plan build: neither what contains the running executable nor what git       *)
(* tracks becomes an item.                                                     *)
Fence ==
    /\ scan.pc = "scanned" /\ Builds /\ UNCHANGED moved
    /\ scan' = [NoScan EXCEPT !.pc = "fenced", !.hours = scan.hours, !.nominated = scan.nominated,
                            !.items = scan.nominated \ (Running \cup Tracked)]

(* The curated directories that lie in no other. *)
Outermost(C) == {c \in C : Above[c] \cap C = {c}}

(* Not the code: what lies inside a curated directory stays. *)
MergeKeepingInner ==
    /\ scan.pc = "fenced" /\ Builds /\ UNCHANGED moved
    /\ \E asked \in {{}, Curated} : scan' = [scan EXCEPT !.pc = "merged", !.items = @ \cup asked]

(* --include-global-caches: a curated directory replaces what lies inside it,  *)
(* unless a candidate contains it.                                             *)
MergeGlobalCaches ==
    /\ scan.pc = "fenced" /\ Builds /\ UNCHANGED moved
    /\ \E asked \in {{}, Curated} :
          LET taken == {c \in Outermost(asked) : (Above[c] \ {c}) \cap scan.items = {}} IN
          scan' = [scan EXCEPT !.pc = "merged",
                     !.items = {n \in @ : (Above[n] \ {n}) \cap taken = {}} \cup taken]

(* Every item is measured as it is now, and the empty ones are dropped.        *)
PhysicalSize(n) ==
    IF n \in Leaf THEN room[n]
    ELSE LET below == Under(n) \cap Dir IN
         Total([d \in Dir |-> BytesOf(d)], below) + Total(room, Under(n) \cap Leaf)
         + (IF below \cap Linked = {} THEN 0 ELSE 1)

Size ==
    /\ scan.pc = "merged" /\ Builds /\ UNCHANGED moved
    /\ scan' = [scan EXCEPT !.pc = "planned", !.items = {n \in @ : PhysicalSize(n) > 0}]

(* audit run ends with the scan, plan build with its plan; either may be killed *)
(* before, and then leaves the cache as it was.                                *)
End ==
    /\ scan.pc \in {"scanned", "planned"} /\ Builds
    /\ scan' = NoScan /\ moved' = {}

Kill ==
    /\ scan.pc \in {"walk", "rollup", "fenced", "merged"} /\ Builds
    /\ scan' = NoScan /\ moved' = {}

Command ==
    \/ \E root \in Root, hours \in {0, Window} : Begin(root, hours)
    \/ \E d \in Dir : Filter(d) \/ Visit(d) \/ List(d) \/ RollUp(d)
    \/ Finish \/ Store \/ Fence \/ MergeGlobalCaches \/ Size \/ End \/ Kill

ScanNext == Environment \/ Command

ScanSpec == ScanInit /\ [][ScanNext]_scanVars

------------------------------------------------------------------------------
(* Type invariant: the values the tree, the cache and a scan take.             *)
ScanTypeOK ==
    /\ now \in 0..MaxClock
    /\ mtime \in [Node -> 0..now]
    /\ size \in [Dir -> [File -> 0..MaxBytes]]
    /\ room \in [Leaf -> 0..1]
    /\ \A d \in Dir : cache[d] \in Entry /\ scan.record[d] \in Entry
    /\ scan.pc \in {"idle", "walk", "rollup", "scanned", "fenced", "merged", "planned"}
    /\ scan.stage \in [Dir -> {"unseen", "found", "entered", "visited", "listed", "hit"}]
    /\ scan.nominated \subseteq Artifact
    /\ scan.items \subseteq Artifact \cup Curated
    /\ moved \subseteq Node /\ stale \subseteq Dir

(* What a fresh scan of the tree as it is would find from d on.                *)
Nominable(n) == Parent[n] \in Project /\ (n \in Leaf => room[n] > 0)
OwnFiles == [c \in Dir |-> Cardinality(FilesOf(c)) + LinkOf(c)]
OwnBytes == [c \in Dir |-> BytesOf(c) + LinkOf(c)]
FreshFiles(d) == Total(OwnFiles, Under(d) \cap Dir)
FreshBytes(d) == Total(OwnBytes, Under(d) \cap Dir)
FreshFound(d) == {n \in (Artifact \cap Under(d)) \ {d} : Nominable(n)}

(* An entry nothing has overtaken is the whole of its subtree: "a true         *)
(* recursive total", whichever scans of which roots, complete or cut short by  *)
(* older hits, it was put together from.  Lanes come and go with the clock.    *)
EntriesAreTrue ==
    \A d \in Dir : cache[d].held /\ d \notin stale =>
        /\ cache[d].files = FreshFiles(d)
        /\ cache[d].bytes = FreshBytes(d)
        /\ cache[d].dirs = Cardinality(Under(d) \cap Dir)
        /\ cache[d].found \ Lane = FreshFound(d) \ Lane

(* What a scan walked itself it nominates exactly: unless it was just then      *)
(* changing or lies behind a directory replayed from the cache, a node below   *)
(* the root is a candidate if and only if it is a project's artifact, there,   *)
(* and not a lane somebody works in.                                           *)
WalkedIsExact ==
    scan.pc = "scanned" /\ scan.root \in Dir =>
        \A n \in (Artifact \cap Under(scan.root)) \ {scan.root} :
            Above[n] \cap (moved \cup (Hits \ {n})) = {} =>
                (n \in scan.nominated <=>
                    Nominable(n) /\ (n \in Lane => ~RecentlyActive(n, scan.hours)))

(* The totals a command reports, counted entry by entry by all the threads of  *)
(* the walk, are those its root rolls up to; and unless the tree was changed   *)
(* meanwhile or an overtaken entry was replayed, they are those of the tree.   *)
(* Only of a linked file they count one name.                                  *)
NamesOfLinked == Cardinality(Listed \cap Linked)
Repeated == IF NamesOfLinked > 0 THEN NamesOfLinked - 1 ELSE 0
TotalsAgree ==
    scan.pc = "scanned" /\ scan.root \in Dir =>
        LET d == scan.root
            root == scan.record[d]
        IN  /\ scan.cached =>
                  /\ scan.files = root.files /\ scan.dirs = root.dirs
                  /\ scan.bytes + Repeated = root.bytes
                  /\ scan.nominated = root.found
            /\ (moved \cup (Hits \cap stale)) \cap Under(d) = {} =>
                  /\ scan.files = FreshFiles(d)
                  /\ scan.dirs = Cardinality(Under(d) \cap Dir)
                  /\ scan.bytes + Repeated = FreshBytes(d)
                  /\ scan.nominated \ Lane = FreshFound(d) \ Lane

(* What the cache replays is what a walk would have found, in the entries and  *)
(* in the totals of the scan that replays them.                                *)
CacheIsTrue == EntriesAreTrue /\ TotalsAgree

(* A plan says everything once: whatever passed the fence and still has bytes  *)
(* is an item or lies in one, and no item lies in a curated one.  An item that *)
(* holds tracked files or the running executable is a curated one.             *)
PlanIsComplete ==
    scan.pc = "planned" =>
        /\ \A n \in scan.nominated \ (Running \cup Tracked) :
              n \in Leaf /\ room[n] > 0 /\ moved = {} => Above[n] \cap scan.items # {}
        /\ \A n \in scan.items :
              /\ (Above[n] \ {n}) \cap scan.items \cap (Curated \ Artifact) = {}
              /\ n \in Running \cup Tracked => n \in Curated

================================================================================

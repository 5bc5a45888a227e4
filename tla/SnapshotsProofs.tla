--------------------------- MODULE SnapshotsProofs ---------------------------
(***************************************************************************)
(* Proofs about Snapshots, for any commands, any number of them at once,   *)
(* any items and sizes, any snapshots and any number of events.            *)
(***************************************************************************)
EXTENDS Snapshots, FiniteSetTheorems, WellFoundedInduction, TLAPS

-----------------------------------------------------------------------------
(* The bytes of a set of items. *)
LEMMA BlocksFinite == IsFiniteSet(Blocks)
<1> DEFINE f == [i \in Item |-> {i} \X (1 .. Size[i])]
           F == {{i} \X (1 .. Size[i]) : i \in Item}
<1>1. f \in Surjection(Item, F)
  BY DEF Surjection
<1>2. IsFiniteSet(F)
  BY <1>1, FS_Surjection, SnapshotsAssumption
<1>3. \A T \in F : IsFiniteSet(T)
  <2> SUFFICES ASSUME NEW i \in Item PROVE IsFiniteSet({i} \X (1 .. Size[i]))
    OBVIOUS
  <2>1. Size[i] \in Int
    BY SnapshotsAssumption
  <2>2. IsFiniteSet(1 .. Size[i])
    BY <2>1, FS_Interval
  <2>3. IsFiniteSet({i})
    BY FS_Singleton
  <2> QED BY <2>2, <2>3, FS_Product
<1> QED BY <1>2, <1>3, FS_UNION DEF Blocks

(* More items hold no fewer bytes, and what two sets of items hold between *)
(* them is what each holds when they share none.                           *)
LEMMA BytesCount ==
    ASSUME NEW A, NEW B
    PROVE  /\ Bytes(A) \in Nat
           /\ A \subseteq B => Bytes(A) <= Bytes(B)
           /\ A \cap B = {} => Bytes(A \cup B) = Bytes(A) + Bytes(B)
<1> DEFINE Of(S) == {b \in Blocks : b[1] \in S}
<1>1. \A S : IsFiniteSet(Of(S)) /\ Cardinality(Of(S)) \in Nat
  <2> SUFFICES ASSUME NEW S PROVE IsFiniteSet(Of(S)) /\ Cardinality(Of(S)) \in Nat
    OBVIOUS
  <2>1. Of(S) \in SUBSET Blocks
    OBVIOUS
  <2> QED BY <2>1, BlocksFinite, FS_Subset, FS_CardinalityType
<1>2. A \subseteq B => Cardinality(Of(A)) <= Cardinality(Of(B))
  <2> SUFFICES ASSUME A \subseteq B PROVE Cardinality(Of(A)) <= Cardinality(Of(B))
    OBVIOUS
  <2>1. Of(A) \in SUBSET Of(B)
    OBVIOUS
  <2> HIDE DEF Of
  <2> QED BY <1>1, <2>1, FS_Subset
<1>3. A \cap B = {} => Cardinality(Of(A \cup B)) = Cardinality(Of(A)) + Cardinality(Of(B))
  <2> DEFINE a == Of(A)
             b == Of(B)
             both == Of(A \cup B)
  <2>1. both = a \cup b /\ (A \cap B = {} => a \cap b = {})
    OBVIOUS
  <2>2. IsFiniteSet(a) /\ IsFiniteSet(b) /\ Cardinality(a) \in Nat /\ Cardinality(b) \in Nat
    BY <1>1
  <2> HIDE DEF a, b, both
  <2>3. Cardinality(a \cup b) = Cardinality(a) + Cardinality(b) - Cardinality(a \cap b)
    BY <2>2, FS_Union
  <2>4. Cardinality({}) = 0
    BY FS_EmptySet
  <2>5. A \cap B = {} => Cardinality(both) = Cardinality(a) + Cardinality(b)
    <3> SUFFICES ASSUME A \cap B = {} PROVE Cardinality(both) = Cardinality(a) + Cardinality(b)
      OBVIOUS
    <3>1. Cardinality(a \cap b) = 0 /\ both = a \cup b
      BY <2>1, <2>4
    <3> QED BY <2>2, <2>3, <3>1
  <2> QED BY <2>5 DEF a, b, both
<1> HIDE DEF Of
<1>4. \A S : Bytes(S) = Cardinality(Of(S))
  BY DEF Bytes, Of
<1> QED BY <1>1, <1>2, <1>3, <1>4

(* Dates: the ones to remove are listed ones, and keeping the latest leaves *)
(* one that is newer than each of them.                                     *)
LEMMA KeepLatestLeaves ==
    ASSUME NEW names, NEW s \in KeepLatest(names)
    PROVE  s \in Dated /\ \E t \in DatesOf(names) : t > s
<1> DEFINE D == DatesOf(names)
           older == {t \in D : t < s}
<1>1. s \in D /\ D \subseteq Dated /\ Cardinality(older) < Cardinality(D) - 1
  BY DEF KeepLatest, Oldest, DatesOf
<1>2. IsFiniteSet(D) /\ D \subseteq Int
  <2>1. IsFiniteSet(Dated) /\ Dated \subseteq Int
    BY SnapshotsAssumption, FS_Interval DEF Dated
  <2>2. D \in SUBSET Dated
    BY <1>1
  <2> QED BY <2>1, <2>2, FS_Subset
<1> SUFFICES ASSUME \A t \in D : ~(t > s) PROVE FALSE
  BY <1>1
<1>3. older = D \ {s}
  BY <1>1, <1>2
<1> HIDE DEF older, D
<1>4. Cardinality(D \ {s}) = Cardinality(D) - 1
  BY <1>1, <1>2, FS_RemoveElement
<1>5. Cardinality(D) \in Nat
  BY <1>2, FS_CardinalityType
<1> QED BY <1>1, <1>3, <1>4, <1>5

LEMMA TargetsDated ==
    ASSUME NEW kind, NEW names, NEW T \in Targets(kind, names)
    PROVE  /\ T \subseteq Dated
           /\ kind = "keep-latest" => T = KeepLatest(names)
           /\ kind = "execute-release" => T = DatesOf(names)
BY DEF Targets, KeepLatest, Oldest, DatesOf

LEMMA LeastIsOne ==
    ASSUME NEW S \in SUBSET Dated, S # {}
    PROVE  Min(S) \in S
<1>1. S \in SUBSET Nat
  BY SnapshotsAssumption DEF Dated
<1>2. \E n \in S : \A m \in S : n <= m
  <2>1. IsWellFoundedOn(OpToRel(<, Nat), Nat)
    BY NatLessThanWellFounded
  <2>2. PICK n \in S : \A m \in S : <<m, n>> \notin OpToRel(<, Nat)
    BY <1>1, <2>1, WFMin
  <2>3. \A m \in S : ~(m < n)
    BY <1>1, <2>2 DEF OpToRel
  <2> QED BY <1>1, <2>3
<1> QED BY <1>2 DEF Min

-----------------------------------------------------------------------------
(* What a command is, by itself; what it says once it is over is among it. *)
Busy(c) == c.pc \notin {"idle", "done", "failed"}
Told(c) == c.told => c.mine \cap c.before \subseteq c.thinned
Explained(c) ==
    c.verdict = "shortfall" /\ ~c.disturbed =>
        /\ c.blame # {}
        /\ c.released => c.blame \cap c.before \cap Dated = {}
WellFormed(c) ==
    /\ c \in Runs /\ Told(c) /\ Explained(c)
    /\ c.pc = "pass" => c.pass < MaxPasses /\ c.kind \notin Naming
    /\ c.pc = "list" \/ (c.pc = "sweep" /\ c.kind \in {"execute-thin", "execute-release"}) => c.pass = 0
    /\ c.verdict # "none" => c.pc = "done"
    /\ c.told => c.pc \in {"measure", "done", "failed"}
    /\ c.pc \in {"sweep", "measure"} => c.kind \in Clearing
    /\ c.pc = "idle" => c = Fresh
    /\ Busy(c) /\ c.kind \in {"none", "thin", "execute", "execute-thin"} => ~c.released
    /\ c.pc \in {"list", "pass"} \/ (c.pc \in {"sweep", "drop"} /\ c.kind = "execute-release") => ~c.released

(* What a command works on: the snapshots, the items, what either takes up *)
(* and what other programs hold.                                            *)
Worlds ==
    [fate : [Dated -> {"never", "there", "keep-latest", "other"}], live : SUBSET Item,
     used : SUBSET Item, noise : 0 .. MaxNoise]
Used == live \cup Pinned
World == [fate |-> fate, live |-> live, used |-> Used, noise |-> noise]

Gone == {"keep-latest", "other"}
HasNewer(s, w) == \E t \in Dated : t > s /\ w.fate[t] \in {"there", "other"}
Listed(w) == {s \in Dated : w.fate[s] = "there"}
Free(U, w) == Bytes(Item) + MaxNoise - Bytes(U) - w.noise

(* What a command at work has done to them: the snapshots it removed are    *)
(* gone for good, and those it listed were there; a newer one than what     *)
(* keep-latest will remove remains; what is free, and would be if no        *)
(* snapshot held what it cleared, is no less than at the start; and of what *)
(* a release listed only what it has still to remove is there.              *)
Working(c, w) ==
    /\ \A s \in c.mine : w.fate[s] \in Gone
    /\ \A s \in c.before \cap Dated : w.fate[s] # "never"
    /\ c.kind = "keep-latest" => \A s \in c.targets : HasNewer(s, w)
    /\ ~c.disturbed => c.swept \cap w.live = {} /\ c.start <= Free(w.used \cup c.swept, w)
    /\ c.kind \in {"execute-release", "emergency"} =>
         (c.released \/ (c.kind = "execute-release" /\ c.pc \in {"drop", "relist"}) =>
             c.before \cap Listed(w) \subseteq IF c.pc = "drop" THEN c.targets ELSE {})
Holds(c, w) == WellFormed(c) /\ (Busy(c) => Working(c, w))
LatestKept(w) == \A s \in Dated : w.fate[s] = "keep-latest" => HasNewer(s, w)

WorldTyped ==
    /\ live \subseteq Item /\ left \in 0 .. MaxEvents /\ noise \in 0 .. MaxNoise
    /\ fate \in [Dated -> {"never", "there", "keep-latest", "other"}]
    /\ pins \in [Snapshot -> SUBSET Item]

IInv ==
    /\ WorldTyped /\ LatestKept(World)
    /\ run \in [Run -> Runs] /\ \A r \in Run : Holds(run[r], World)

LEMMA SnapshotNames == Dated \subseteq Snapshot /\ Dated \subseteq Nat /\ OsUpdate \subseteq Snapshot
BY SnapshotsAssumption DEF Dated, Snapshot

LEMMA ListingTyped ==
    WorldTyped =>
        /\ There \subseteq Snapshot /\ DatesOf(There) = Listed(World) /\ There \cap Dated = Listed(World)
        /\ World \in Worlds /\ Available = Free(World.used, World) /\ Available \in Nat
        /\ World.fate = fate /\ World.live = live /\ World.used = Used /\ World.noise = noise
        /\ \A S : Holding(S) \subseteq There
<1> SUFFICES ASSUME WorldTyped
    PROVE  /\ There \subseteq Snapshot /\ DatesOf(There) = Listed(World) /\ There \cap Dated = Listed(World)
           /\ World \in Worlds /\ Available = Free(World.used, World) /\ Available \in Nat
           /\ World.fate = fate /\ World.live = live /\ World.used = Used /\ World.noise = noise
           /\ \A S : Holding(S) \subseteq There
  OBVIOUS
<1>0. World.fate = fate /\ World.live = live /\ World.used = Used /\ World.noise = noise
  BY DEF World
<1>1. /\ There \subseteq Snapshot /\ There \cap Dated = Listed(World) /\ \A S : Holding(S) \subseteq There
  BY <1>0, SnapshotsAssumption DEF There, Snapshot, Holding, Listed
<1>2. Used \subseteq Item
  BY <1>1 DEF Used, Pinned, WorldTyped
<1>3. Available = Free(Used, World)
  BY <1>0 DEF Available, Free, Used
<1>4. Bytes(Used) \in Nat /\ Bytes(Item) \in Nat /\ Bytes(Used) <= Bytes(Item)
  BY <1>2, BytesCount
<1>5. MaxNoise \in Nat /\ noise \in 0 .. MaxNoise
  BY SnapshotsAssumption DEF WorldTyped
<1>6. Available \in Nat
  BY <1>0, <1>3, <1>4, <1>5 DEF Free
<1>7. World \in Worlds
  BY <1>2 DEF World, Worlds, WorldTyped
<1> QED BY <1>0, <1>1, <1>3, <1>6, <1>7 DEF DatesOf

LEMMA WorldsTyped == WorldTyped' => World' \in Worlds
<1>1. WorldTyped => World \in Worlds
  BY ListingTyped
<1>2. WorldTyped' => (World \in Worlds)'
  BY <1>1, PTL
<1> QED BY <1>2

-----------------------------------------------------------------------------
(* A command that is over. *)
LEMMA FreshTyped == Fresh \in Runs /\ WellFormed(Fresh) /\ ~Busy(Fresh)
<1>1. 0 \in 0 .. MaxPasses
  BY SnapshotsAssumption
<1>2. Fresh \in Runs
  BY <1>1 DEF Fresh, Runs
<1> QED BY <1>2 DEF Fresh, WellFormed, Busy, Told, Explained

LEMMA OverHolds ==
    ASSUME NEW c \in Runs, Told(c), Explained(c), NEW pc \in {"done", "failed"},
           c.verdict # "none" => pc = "done"
    PROVE  /\ Over(c, pc) \in Runs /\ Over(c, pc).pc = pc
           /\ WellFormed(Over(c, pc)) /\ ~Busy(Over(c, pc))
<1> DEFINE told == [Fresh EXCEPT !.kind = c.kind, !.pc = pc, !.told = c.told]
           receipt == [told EXCEPT !.before = c.before, !.mine = c.mine, !.thinned = c.thinned]
           last == IF c.told THEN receipt ELSE told
           quiet == [last EXCEPT !.verdict = c.verdict]
           short == [last EXCEPT !.verdict = c.verdict, !.blame = c.blame, !.before = c.before,
                                 !.released = c.released, !.disturbed = c.disturbed]
<1>1. /\ told \in Runs /\ told.pc = pc /\ told.told = c.told /\ told.mine = {} /\ told.verdict = "none"
      /\ told.released = FALSE
  BY FreshTyped DEF Runs, Fresh
<1> HIDE DEF told
<1>2. /\ receipt \in Runs /\ receipt.pc = pc /\ receipt.told = c.told /\ receipt.verdict = "none"
      /\ receipt.before = c.before /\ receipt.mine = c.mine /\ receipt.thinned = c.thinned
      /\ receipt.released = FALSE
  BY <1>1 DEF Runs
<1> HIDE DEF receipt
<1>3. /\ last \in Runs /\ last.pc = pc /\ last.told = c.told /\ Told(last) /\ last.released = FALSE
      /\ last.told => last.before = c.before /\ last.mine = c.mine /\ last.thinned = c.thinned
      /\ ~last.told => last.mine = {}
  BY <1>1, <1>2 DEF Told
<1> HIDE DEF last
<1>4. CASE c.verdict # "shortfall"
  <2>1. Over(c, pc) = quiet
    BY <1>4 DEF Over, quiet, last, receipt, told
  <2>2. /\ quiet \in Runs /\ quiet.pc = pc /\ quiet.told = last.told /\ quiet.verdict = c.verdict
        /\ quiet.before = last.before /\ quiet.mine = last.mine /\ quiet.thinned = last.thinned
    BY <1>3 DEF Runs
  <2> HIDE DEF quiet
  <2> QED BY <1>3, <1>4, <2>1, <2>2 DEF WellFormed, Told, Explained, Busy
<1>5. CASE c.verdict = "shortfall"
  <2>1. Over(c, pc) = short
    BY <1>5 DEF Over, short, last, receipt, told
  <2>2. /\ short \in Runs /\ short.pc = pc /\ short.told = last.told /\ short.verdict = c.verdict
        /\ short.before = c.before /\ short.mine = last.mine /\ short.thinned = last.thinned
        /\ short.blame = c.blame /\ short.released = c.released /\ short.disturbed = c.disturbed
    BY <1>3 DEF Runs
  <2> HIDE DEF short
  <2> QED BY <1>3, <1>5, <2>1, <2>2 DEF WellFormed, Told, Explained, Busy
<1> QED BY <1>4, <1>5

(* A command whose snapshot work is over.                                  *)
LEMMA OnwardHolds ==
    ASSUME NEW c \in Runs, NEW w, NEW worked \in BOOLEAN, Told(c), c.verdict = "none",
           c.told => c.kind # "emergency",
           c.kind \in {"thin", "execute", "execute-thin"} => ~c.released,
           c.kind \in {"execute-release", "emergency"} /\ c.released => c.before \cap Listed(w) = {},
           c.kind \in Clearing =>
              /\ \A s \in c.mine : w.fate[s] \in Gone
              /\ \A s \in c.before \cap Dated : w.fate[s] # "never"
              /\ ~c.disturbed => c.swept \cap w.live = {} /\ c.start <= Free(w.used \cup c.swept, w)
    PROVE  Onward(c, worked) \in Runs /\ Holds(Onward(c, worked), w)
<1>1. CASE c.kind = "emergency"
  <2> DEFINE n == [c EXCEPT !.pc = "sweep"]
  <2>1. /\ n \in Runs /\ n.pc = "sweep" /\ n.kind = c.kind /\ n.told = c.told /\ n.verdict = c.verdict
        /\ n.released = c.released /\ n.before = c.before /\ n.mine = c.mine /\ n.thinned = c.thinned
        /\ n.disturbed = c.disturbed /\ n.swept = c.swept /\ n.start = c.start
    BY DEF Runs
  <2>2. Onward(c, worked) = n
    BY <1>1 DEF Onward
  <2> HIDE DEF n
  <2>3. WellFormed(n)
    BY <1>1, <2>1 DEF WellFormed, Told, Explained, Clearing
  <2>4. Working(n, w)
    BY <1>1, <2>1 DEF Working, Clearing
  <2> QED BY <2>1, <2>2, <2>3, <2>4 DEF Holds
<1>2. CASE c.kind \in Clearing \ {"emergency"}
  <2> DEFINE n == [c EXCEPT !.pc = "measure"]
  <2>1. /\ n \in Runs /\ n.pc = "measure" /\ n.kind = c.kind /\ n.told = c.told /\ n.verdict = c.verdict
        /\ n.released = c.released /\ n.before = c.before /\ n.mine = c.mine /\ n.thinned = c.thinned
        /\ n.disturbed = c.disturbed /\ n.swept = c.swept /\ n.start = c.start
    BY DEF Runs
  <2>2. Onward(c, worked) = n
    BY <1>2 DEF Onward
  <2> HIDE DEF n
  <2>3. WellFormed(n)
    BY <1>2, <2>1 DEF WellFormed, Told, Explained, Clearing
  <2>4. Working(n, w)
    BY <1>2, <2>1 DEF Working, Clearing
  <2> QED BY <2>1, <2>2, <2>3, <2>4 DEF Holds
<1>3. CASE c.kind \notin Clearing
  <2>1. Onward(c, worked) = Over(c, IF worked THEN "done" ELSE "failed")
    BY <1>3 DEF Onward, Clearing
  <2>2. Explained(c)
    BY DEF Explained
  <2> QED BY <2>1, <2>2, OverHolds DEF Holds
<1> QED BY <1>1, <1>2, <1>3

-----------------------------------------------------------------------------
(* How the world moves under a command: removed snapshots stay removed, no  *)
(* snapshot loses its last newer one, and while nobody writes the space in  *)
(* use, by items or by snapshots of them, does not grow.                    *)
Onwards(w, v) ==
    \A s \in Dated : /\ w.fate[s] \in Gone => v.fate[s] \in Gone
                     /\ w.fate[s] # "never" => v.fate[s] # "never"
                     /\ HasNewer(s, w) => HasNewer(s, v)
Quiet(w, v) == v.noise = w.noise /\ v.live \subseteq w.live /\ v.used \subseteq w.used

(* What holds of a command that does not move goes on holding.             *)
LEMMA WorkingStays ==
    ASSUME NEW w \in Worlds, NEW v \in Worlds, Onwards(w, v),
           NEW c \in Runs, Quiet(w, v) \/ c.disturbed, Working(c, w)
    PROVE  Working(c, v)
<1>0. c.mine \subseteq Dated /\ c.targets \subseteq Dated /\ c.swept \subseteq Item /\ c.start \in Nat
  BY DEF Runs
<1>1. \A s \in c.mine : v.fate[s] \in Gone
  BY <1>0 DEF Onwards, Working
<1>2. \A s \in c.before \cap Dated : w.fate[s] # "never" /\ v.fate[s] # "never"
  BY DEF Onwards, Working
<1>3. c.kind = "keep-latest" => \A s \in c.targets : HasNewer(s, v)
  BY <1>0 DEF Onwards, Working
<1>4. ~c.disturbed => c.swept \cap v.live = {} /\ c.start <= Free(v.used \cup c.swept, v)
  <2> SUFFICES ASSUME ~c.disturbed PROVE c.swept \cap v.live = {} /\ c.start <= Free(v.used \cup c.swept, v)
    OBVIOUS
  <2>1. c.swept \cap w.live = {} /\ c.start <= Free(w.used \cup c.swept, w)
    BY DEF Working
  <2>2. v.noise = w.noise /\ v.live \subseteq w.live /\ v.used \cup c.swept \subseteq w.used \cup c.swept
    BY DEF Quiet
  <2>3. /\ Bytes(v.used \cup c.swept) \in Nat /\ Bytes(w.used \cup c.swept) \in Nat /\ Bytes(Item) \in Nat
        /\ Bytes(v.used \cup c.swept) <= Bytes(w.used \cup c.swept)
    BY <2>2, BytesCount
  <2>4. w.noise \in Nat /\ MaxNoise \in Nat
    BY SnapshotsAssumption DEF Worlds
  <2>5. c.start <= Free(v.used \cup c.swept, v)
    BY <1>0, <2>1, <2>2, <2>3, <2>4 DEF Free
  <2> QED BY <2>1, <2>2, <2>5
<1>5. c.before \cap Listed(v) \subseteq c.before \cap Listed(w)
  BY <1>2 DEF Onwards, Listed, Gone, Worlds
<1>6. c.kind \in {"execute-release", "emergency"} =>
         (c.released \/ (c.kind = "execute-release" /\ c.pc \in {"drop", "relist"}) =>
             c.before \cap Listed(v) \subseteq IF c.pc = "drop" THEN c.targets ELSE {})
  BY <1>5 DEF Working
<1> QED BY <1>1, <1>2, <1>3, <1>4, <1>6 DEF Working

(* A step of one command under which nobody writes.                        *)
LEMMA OneMoves ==
    ASSUME IInv, NEW r \in Run, NEW c \in Runs, run' = [run EXCEPT ![r] = c], WorldTyped',
           Onwards(World, World'), Quiet(World, World'), LatestKept(World'), Holds(c, World')
    PROVE  IInv'
<1>1. run' \in [Run -> Runs] /\ run'[r] = c /\ \A u \in Run \ {r} : run'[u] = run[u]
  BY DEF IInv
<1>0. World \in Worlds /\ World' \in Worlds
  <2>1. World \in Worlds
    BY ListingTyped DEF IInv
  <2> QED BY <2>1, WorldsTyped
<1>2. ASSUME NEW u \in Run \ {r} PROVE Holds(run'[u], World')
  <2>1. Holds(run[u], World) /\ run[u] \in Runs
    BY DEF IInv
  <2> QED BY <1>0, <1>1, <2>1, WorkingStays DEF Holds
<1> QED BY <1>1, <1>2 DEF IInv

LEMMA StandingStill ==
    ASSUME IInv, NEW r \in Run, NEW c \in Runs, run' = [run EXCEPT ![r] = c],
           UNCHANGED <<live, fate, pins, noise, left>>, Holds(c, World)
    PROVE  IInv'
<1>1. World' = World /\ WorldTyped'
  BY DEF World, Used, Pinned, There, IInv, WorldTyped
<1>2. Onwards(World, World') /\ Quiet(World, World') /\ LatestKept(World')
  BY <1>1 DEF Onwards, Quiet, IInv
<1> QED BY <1>1, <1>2, OneMoves

(* What a command is before it moves. *)
LEMMA Moving ==
    ASSUME IInv, NEW r \in Run
    PROVE  /\ run[r] \in Runs /\ WellFormed(run[r]) /\ (Busy(run[r]) => Working(run[r], World))
           /\ Told(run[r]) /\ Explained(run[r]) /\ WorldTyped
BY DEF IInv, Holds, WellFormed

LEMMA BeginKeeps ==
    ASSUME IInv, NEW r \in Run, Begin(r)
    PROVE  IInv'
<1>1. PICK k \in Kinds[r], S \in SUBSET Item \ {{}} :
         run' = [run EXCEPT ![r] = [Fresh EXCEPT
                !.kind = k, !.start = Available,
                !.todo = IF k \in Clearing THEN S ELSE {},
                !.pc = IF k \in Clearing \ {"emergency"} THEN "sweep" ELSE "list"]]
  BY DEF Begin, Keeps
<1> DEFINE todo == IF k \in Clearing THEN S ELSE {}
           pc == IF k \in Clearing \ {"emergency"} THEN "sweep" ELSE "list"
           c == [Fresh EXCEPT !.kind = k, !.start = Available, !.todo = todo, !.pc = pc]
<1>2. k \in Commands /\ todo \in SUBSET Item /\ pc \in {"sweep", "list"} /\ (pc = "sweep" => k \in Clearing)
  BY SnapshotsAssumption
<1>3. Available \in Nat /\ Available = Free(World.used, World)
  BY ListingTyped DEF IInv
<1> HIDE DEF todo, pc
<1>4. Fresh \in Runs /\ UNCHANGED <<live, fate, pins, noise, left>>
  BY FreshTyped DEF Begin
<1>5. /\ c \in Runs /\ c.kind = k /\ c.pc = pc /\ c.start = Available /\ c.before = {} /\ c.mine = {}
      /\ c.targets = {} /\ c.swept = {} /\ c.verdict = "none" /\ ~c.told /\ ~c.released /\ c.pass = 0
  BY <1>2, <1>3, <1>4 DEF Runs, Fresh
<1> HIDE DEF c
<1>6. WellFormed(c)
  BY <1>2, <1>5 DEF WellFormed, Told, Explained
<1>7. Working(c, World)
  <2>1. World.used \cup c.swept = World.used /\ c.swept \cap World.live = {}
    BY <1>5
  <2>2. c.start <= Free(World.used \cup c.swept, World)
    BY <1>3, <1>5, <2>1
  <2> QED BY <1>5, <2>1, <2>2 DEF Working
<1> QED BY <1>1, <1>4, <1>5, <1>6, <1>7, StandingStill DEF Holds, c, todo, pc

LEMMA SweepKeeps ==
    ASSUME IInv, NEW r \in Run, Sweep(r)
    PROVE  IInv'
<1>0. /\ run[r] \in Runs /\ WellFormed(run[r]) /\ Working(run[r], World) /\ WorldTyped
      /\ run[r].pc = "sweep" /\ UNCHANGED <<fate, pins, noise, left>>
  BY Moving DEF Sweep, At, Busy
<1>1. PICK i \in run[r].todo, worked \in BOOLEAN :
          /\ live' = IF worked THEN live \ {i} ELSE live
          /\ run' = [run EXCEPT ![r] = [run[r] EXCEPT !.todo = @ \ {i},
                !.swept = IF worked THEN @ \cup (live \cap {i}) ELSE @]]
  BY DEF Sweep, Keeps
<1> DEFINE todo == run[r].todo \ {i}
           swept == IF worked THEN run[r].swept \cup (live \cap {i}) ELSE run[r].swept
           c == [run[r] EXCEPT !.todo = todo, !.swept = swept]
<1>2. todo \in SUBSET Item /\ swept \in SUBSET Item
  BY <1>0 DEF WorldTyped, Runs
<1>3. /\ live' \subseteq live /\ run[r].swept \subseteq swept /\ swept \subseteq run[r].swept \cup live
      /\ run[r].swept \cap live = {} => swept \cap live' = {}
  BY <1>1
<1>4. run' = [run EXCEPT ![r] = c]
  BY <1>1
<1> HIDE DEF todo, swept
<1>5. /\ c \in Runs /\ c.kind = run[r].kind /\ c.pc = "sweep" /\ c.start = run[r].start
      /\ c.before = run[r].before /\ c.mine = run[r].mine /\ c.targets = run[r].targets /\ c.swept = swept
      /\ c.verdict = run[r].verdict /\ c.told = run[r].told /\ c.thinned = run[r].thinned
      /\ c.released = run[r].released /\ c.pass = run[r].pass /\ c.disturbed = run[r].disturbed
  BY <1>0, <1>2 DEF Runs
<1> HIDE DEF c
<1>6. WellFormed(c)
  BY <1>0, <1>5 DEF WellFormed, Told, Explained, Busy
<1>7. WorldTyped' /\ fate' = fate /\ Used' \subseteq Used /\ noise' = noise /\ live \subseteq Used
  BY <1>0, <1>3 DEF WorldTyped, Used, Pinned, There
<1>8. /\ World'.fate = World.fate /\ World'.noise = World.noise
      /\ World.live = live /\ World'.live = live' /\ World.used = Used /\ World'.used = Used'
  BY <1>7 DEF World
<1>9. Onwards(World, World') /\ Quiet(World, World') /\ LatestKept(World')
  BY <1>3, <1>7, <1>8 DEF Onwards, Quiet, LatestKept, HasNewer, IInv
<1>10. Working(run[r], World')
  <2>1. World \in Worlds /\ World' \in Worlds
    BY <1>0, <1>7, ListingTyped, WorldsTyped
  <2> QED BY <1>0, <1>9, <2>1, WorkingStays
<1>11. ~c.disturbed => c.swept \cap World'.live = {} /\ c.start <= Free(World'.used \cup c.swept, World')
  <2> SUFFICES ASSUME ~c.disturbed
               PROVE  c.swept \cap World'.live = {} /\ c.start <= Free(World'.used \cup c.swept, World')
    OBVIOUS
  <2> DEFINE U == World.used \cup run[r].swept
             V == World'.used \cup swept
  <2>1. run[r].swept \cap live = {} /\ run[r].start <= Free(U, World)
    BY <1>0, <1>5, <1>8 DEF Working
  <2>2. V \subseteq U
    BY <1>3, <1>7, <1>8
  <2>3. Bytes(V) \in Nat /\ Bytes(U) \in Nat /\ Bytes(V) <= Bytes(U) /\ Bytes(Item) \in Nat
    BY <2>2, BytesCount
  <2>4. World.noise \in Nat /\ MaxNoise \in Nat /\ run[r].start \in Nat
    BY <1>0, SnapshotsAssumption DEF World, WorldTyped, Runs
  <2> HIDE DEF U, V
  <2>5. run[r].start <= Free(V, World')
    BY <1>8, <2>1, <2>3, <2>4 DEF Free
  <2> QED BY <1>3, <1>5, <1>8, <2>1, <2>5 DEF V
<1>12. Working(c, World')
  <2>1. c.kind \in {"execute-release", "emergency"} =>
         (c.released \/ (c.kind = "execute-release" /\ c.pc \in {"drop", "relist"}) =>
             c.before \cap Listed(World') \subseteq IF c.pc = "drop" THEN c.targets ELSE {})
    BY <1>0, <1>5, <1>10 DEF Working
  <2>2. c.kind = "keep-latest" => \A s \in c.targets : HasNewer(s, World')
    BY <1>5, <1>10 DEF Working
  <2>3. /\ \A s \in c.mine : World'.fate[s] \in Gone
        /\ \A s \in c.before \cap Dated : World'.fate[s] # "never"
    BY <1>5, <1>10 DEF Working
  <2> QED BY <1>11, <2>1, <2>2, <2>3 DEF Working
<1> QED BY <1>4, <1>5, <1>6, <1>7, <1>9, <1>12, OneMoves DEF Holds

LEMMA SweptKeeps ==
    ASSUME IInv, NEW r \in Run, Swept(r)
    PROVE  IInv'
<1>0. /\ run[r] \in Runs /\ WellFormed(run[r]) /\ Working(run[r], World)
      /\ run[r].pc = "sweep" /\ UNCHANGED <<live, fate, pins, noise, left>>
  BY Moving DEF Swept, At, Busy
<1> DEFINE pc == IF run[r].kind \in {"execute-thin", "execute-release"} THEN "list" ELSE "measure"
           c == [run[r] EXCEPT !.pc = pc]
<1>1. run' = [run EXCEPT ![r] = c]
  BY DEF Swept, Keeps
<1>2. /\ pc \in {"list", "measure"}
      /\ pc = "list" => run[r].kind \in {"execute-thin", "execute-release"}
  OBVIOUS
<1> HIDE DEF pc
<1>3. /\ c \in Runs /\ c.kind = run[r].kind /\ c.pc = pc /\ c.start = run[r].start
      /\ c.before = run[r].before /\ c.mine = run[r].mine /\ c.targets = run[r].targets
      /\ c.swept = run[r].swept /\ c.verdict = run[r].verdict /\ c.told = run[r].told
      /\ c.thinned = run[r].thinned /\ c.released = run[r].released /\ c.pass = run[r].pass
      /\ c.disturbed = run[r].disturbed
  BY <1>0, <1>2 DEF Runs
<1> HIDE DEF c
<1>4. WellFormed(c)
  BY <1>0, <1>2, <1>3 DEF WellFormed, Told, Explained, Busy
<1>5. Working(c, World)
  BY <1>0, <1>2, <1>3 DEF Working
<1> QED BY <1>0, <1>1, <1>3, <1>4, <1>5, StandingStill DEF Holds

(* A command whose snapshot work has failed, or is over with nothing to do. *)
LEMMA GoingOnKeeps ==
    ASSUME IInv, NEW r \in Run, NEW worked \in BOOLEAN, run' = [run EXCEPT ![r] = Onward(run[r], worked)],
           UNCHANGED <<live, fate, pins, noise, left>>, run[r].pc \in {"list", "pass", "drop", "relist"},
           run[r].kind \in {"execute-release", "emergency"} /\ run[r].released =>
              run[r].before \cap Listed(World) = {}
    PROVE  IInv'
<1>0. run[r] \in Runs /\ WellFormed(run[r]) /\ Working(run[r], World)
  BY Moving DEF Busy
<1>1. /\ Told(run[r]) /\ run[r].verdict = "none" /\ ~run[r].told
      /\ run[r].kind \in {"thin", "execute", "execute-thin"} => ~run[r].released
  BY <1>0 DEF WellFormed, Busy
<1>2. /\ \A s \in run[r].mine : World.fate[s] \in Gone
      /\ \A s \in run[r].before \cap Dated : World.fate[s] # "never"
      /\ ~run[r].disturbed => run[r].swept \cap World.live = {} /\ run[r].start <= Free(World.used \cup run[r].swept, World)
  BY <1>0 DEF Working
<1>3. Onward(run[r], worked) \in Runs /\ Holds(Onward(run[r], worked), World)
  BY <1>0, <1>1, <1>2, OnwardHolds
<1> QED BY <1>3, StandingStill

LEMMA ListKeeps ==
    ASSUME IInv, NEW r \in Run, List(r)
    PROVE  IInv'
<1>0. /\ run[r] \in Runs /\ WellFormed(run[r]) /\ Working(run[r], World) /\ WorldTyped
      /\ run[r].pc = "list" /\ UNCHANGED <<live, fate, pins, noise, left>>
  BY Moving DEF List, At, Busy
<1> DEFINE c == [run[r] EXCEPT !.before = There, !.now = There, !.base = Available]
<1>1. /\ c \in Runs /\ c.kind = run[r].kind /\ c.pc = "list" /\ c.start = run[r].start
      /\ c.before = There /\ c.mine = run[r].mine /\ c.targets = run[r].targets
      /\ c.swept = run[r].swept /\ c.verdict = "none" /\ ~c.told
      /\ ~c.released /\ c.pass = 0 /\ c.disturbed = run[r].disturbed
  BY <1>0, ListingTyped DEF Runs, WellFormed
<1>2. \/ /\ c.kind \in Naming
         /\ \E T \in Targets(c.kind, There) :
               run' = [run EXCEPT ![r] = IF T = {} THEN Onward([c EXCEPT !.released = TRUE], TRUE)
                                         ELSE [c EXCEPT !.targets = T, !.pc = "drop"]]
      \/ /\ c.kind \notin Naming
         /\ run' = [run EXCEPT ![r] = IF c.kind = "emergency" /\ There = {} THEN Onward(c, TRUE)
                                      ELSE [c EXCEPT !.pc = "pass"]]
      \/ run' = [run EXCEPT ![r] = Onward(run[r], FALSE)]
  BY DEF List, Keeps
<1> HIDE DEF c
<1>3. /\ \A s \in c.mine : World.fate[s] \in Gone
      /\ \A s \in c.before \cap Dated : s \in Listed(World) /\ World.fate[s] = "there"
      /\ c.before \cap Listed(World) = Listed(World)
      /\ ~c.disturbed => c.swept \cap World.live = {} /\ c.start <= Free(World.used \cup c.swept, World)
  BY <1>0, <1>1, ListingTyped DEF Working, Listed
<1>4. ASSUME NEW T \in Targets(c.kind, There), c.kind \in Naming, T # {},
             run' = [run EXCEPT ![r] = [c EXCEPT !.targets = T, !.pc = "drop"]]
      PROVE  IInv'
  <2> DEFINE n == [c EXCEPT !.targets = T, !.pc = "drop"]
  <2>1. T \subseteq Dated /\ (c.kind = "keep-latest" => T = KeepLatest(There))
        /\ (c.kind = "execute-release" => T = Listed(World))
    BY <1>0, TargetsDated, ListingTyped
  <2>2. /\ n \in Runs /\ n.kind = c.kind /\ n.pc = "drop" /\ n.start = c.start /\ n.before = c.before
        /\ n.mine = c.mine /\ n.targets = T /\ n.swept = c.swept /\ n.verdict = "none" /\ ~n.told
        /\ ~n.released /\ n.disturbed = c.disturbed
    BY <1>1, <2>1 DEF Runs
  <2> HIDE DEF n
  <2>3. n.kind = "keep-latest" => \A s \in n.targets : HasNewer(s, World)
    <3> SUFFICES ASSUME n.kind = "keep-latest", NEW s \in T PROVE HasNewer(s, World)
      BY <2>2
    <3>1. PICK t \in DatesOf(There) : t > s
      BY <2>1, <2>2, KeepLatestLeaves
    <3>2. t \in Dated /\ World.fate[t] = "there"
      BY <1>0, <3>1, ListingTyped DEF Listed
    <3> QED BY <3>1, <3>2 DEF HasNewer
  <2>4. WellFormed(n)
    BY <2>2 DEF WellFormed, Told, Explained
  <2>5. Working(n, World)
    BY <1>3, <2>1, <2>2, <2>3 DEF Working
  <2> QED BY <1>0, <1>4, <2>2, <2>4, <2>5, StandingStill DEF Holds, n
<1>5. ASSUME NEW T \in Targets(c.kind, There), c.kind \in Naming, T = {},
             run' = [run EXCEPT ![r] = Onward([c EXCEPT !.released = TRUE], TRUE)]
      PROVE  IInv'
  <2> DEFINE n == [c EXCEPT !.released = TRUE]
  <2>1. /\ n \in Runs /\ n.kind = c.kind /\ n.start = c.start /\ n.before = c.before /\ n.mine = c.mine
        /\ n.swept = c.swept /\ n.verdict = "none" /\ ~n.told /\ n.disturbed = c.disturbed
    BY <1>1 DEF Runs
  <2>2. n.kind \notin {"emergency", "thin", "execute", "execute-thin"}
    BY <1>5, <2>1 DEF Naming
  <2>3. n.kind = "execute-release" => n.before \cap Listed(World) = {}
    BY <1>0, <1>3, <1>5, <2>1, TargetsDated, ListingTyped
  <2> HIDE DEF n
  <2>4. /\ Told(n)
        /\ \A s \in n.mine : World.fate[s] \in Gone
        /\ \A s \in n.before \cap Dated : World.fate[s] # "never"
        /\ ~n.disturbed => n.swept \cap World.live = {} /\ n.start <= Free(World.used \cup n.swept, World)
    BY <1>3, <2>1 DEF Told
  <2>5. Onward(n, TRUE) \in Runs /\ Holds(Onward(n, TRUE), World)
    BY <2>1, <2>2, <2>3, <2>4, OnwardHolds
  <2> QED BY <1>0, <1>5, <2>5, StandingStill DEF n
<1>6. ASSUME c.kind \notin Naming, run' = [run EXCEPT ![r] = Onward(c, TRUE)]
      PROVE  IInv'
  <2>1. Told(c) /\ \A s \in c.before \cap Dated : World.fate[s] # "never"
    BY <1>1, <1>3 DEF Told
  <2>2. Onward(c, TRUE) \in Runs /\ Holds(Onward(c, TRUE), World)
    BY <1>1, <1>3, <2>1, OnwardHolds
  <2> QED BY <1>0, <1>6, <2>2, StandingStill
<1>7. ASSUME c.kind \notin Naming, run' = [run EXCEPT ![r] = [c EXCEPT !.pc = "pass"]]
      PROVE  IInv'
  <2> DEFINE n == [c EXCEPT !.pc = "pass"]
  <2>1. /\ n \in Runs /\ n.kind = c.kind /\ n.pc = "pass" /\ n.start = c.start /\ n.before = c.before
        /\ n.mine = c.mine /\ n.targets = c.targets /\ n.swept = c.swept /\ n.verdict = "none" /\ ~n.told
        /\ ~n.released /\ n.disturbed = c.disturbed /\ n.pass = 0
    BY <1>1 DEF Runs
  <2> HIDE DEF n
  <2>2. WellFormed(n)
    BY <1>7, <2>1, SnapshotsAssumption DEF WellFormed, Told, Explained
  <2>3. n.kind # "keep-latest" /\ n.kind # "execute-release"
    BY <1>7, <2>1 DEF Naming
  <2>4. Working(n, World)
    BY <1>3, <2>1, <2>3 DEF Working
  <2> QED BY <1>0, <1>7, <2>1, <2>2, <2>4, StandingStill DEF Holds, n
<1>8. ASSUME run' = [run EXCEPT ![r] = Onward(run[r], FALSE)] PROVE IInv'
  BY <1>0, <1>8, GoingOnKeeps DEF WellFormed
<1> QED BY <1>2, <1>4, <1>5, <1>6, <1>7, <1>8

(* A command takes snapshots that are there: keep-latest only such as a     *)
(* newer one outlives, and one at a time.                                   *)
LEMMA TakesMoves ==
    ASSUME IInv, NEW r \in Run, NEW S \in SUBSET Listed(World), Takes(r, S),
           UNCHANGED <<live, pins, noise, left>>,
           run[r].kind = "keep-latest" => \A s \in S : HasNewer(s, World) /\ S = {s}
    PROVE  /\ WorldTyped' /\ Onwards(World, World') /\ Quiet(World, World') /\ LatestKept(World')
           /\ \A s \in S : World'.fate[s] \in Gone /\ s \notin Listed(World')
           /\ Listed(World') \subseteq Listed(World)
<1>0. WorldTyped /\ LatestKept(World) /\ World.fate = fate /\ World'.fate = fate'
  BY DEF IInv, World
<1>1. S \subseteq Dated /\ \A s \in S : fate[s] = "there"
  BY <1>0 DEF Listed
<1>2. /\ fate' \in [Dated -> {"never", "there", "keep-latest", "other"}]
      /\ \A s \in Dated \ S : fate'[s] = fate[s]
      /\ \A s \in S : fate'[s] = RemovedBy(r) /\ fate'[s] \in Gone
      /\ RemovedBy(r) = "keep-latest" <=> run[r].kind = "keep-latest"
  BY <1>0, <1>1 DEF Takes, RemovedBy, WorldTyped, Gone
<1>3. WorldTyped'
  BY <1>0, <1>2 DEF WorldTyped
<1>4. There' \subseteq There /\ Listed(World') \subseteq Listed(World)
  BY <1>0, <1>1, <1>2 DEF There, Listed, Gone
<1>5. Quiet(World, World')
  BY <1>4 DEF Quiet, World, Used, Pinned
<1>6. \A s \in Dated : HasNewer(s, World) => HasNewer(s, World')
  <2> SUFFICES ASSUME NEW s \in Dated, HasNewer(s, World) PROVE HasNewer(s, World')
    OBVIOUS
  <2>1. PICK t \in Dated : t > s /\ fate[t] \in {"there", "other"}
    BY <1>0 DEF HasNewer
  <2>2. CASE t \notin S
    BY <1>0, <1>2, <2>1, <2>2 DEF HasNewer
  <2>3. CASE t \in S /\ run[r].kind # "keep-latest"
    <3>1. fate'[t] = "other"
      BY <1>2, <2>3 DEF RemovedBy
    <3> QED BY <1>0, <2>1, <3>1 DEF HasNewer
  <2>4. CASE t \in S /\ run[r].kind = "keep-latest"
    <3>1. PICK u \in Dated : u > t /\ fate[u] \in {"there", "other"}
      BY <1>0, <2>4 DEF HasNewer
    <3>2. u \notin S /\ u > s
      BY <2>1, <2>4, <3>1, SnapshotNames
    <3> QED BY <1>0, <1>2, <3>1, <3>2 DEF HasNewer
  <2> QED BY <2>2, <2>3, <2>4
<1>7. Onwards(World, World')
  BY <1>0, <1>1, <1>2, <1>6 DEF Onwards, Gone
<1>8. LatestKept(World')
  <2> SUFFICES ASSUME NEW s \in Dated, fate'[s] = "keep-latest" PROVE HasNewer(s, World')
    BY <1>0 DEF LatestKept
  <2>1. HasNewer(s, World)
    BY <1>0, <1>2 DEF LatestKept
  <2> QED BY <1>6, <2>1
<1> QED BY <1>0, <1>2, <1>3, <1>4, <1>5, <1>7, <1>8 DEF Listed, Gone

LEMMA PassKeeps ==
    ASSUME IInv, NEW r \in Run, Pass(r)
    PROVE  IInv'
<1>0. /\ run[r] \in Runs /\ WellFormed(run[r]) /\ Working(run[r], World) /\ WorldTyped
      /\ run[r].pc = "pass" /\ UNCHANGED <<live, pins, noise, left>>
      /\ run[r].kind \notin Naming /\ ~run[r].told /\ run[r].pass < MaxPasses /\ run[r].verdict = "none"
      /\ ~run[r].released
  BY Moving DEF Pass, At, Busy, WellFormed
<1>1. CASE \E S \in SUBSET DatesOf(There) :
             /\ Takes(r, S)
             /\ Keeps(r, [run[r] EXCEPT !.pc = "relist", !.pass = @ + 1, !.mine = @ \cup S])
  <2>1. PICK S \in SUBSET Listed(World) :
             /\ Takes(r, S)
             /\ run' = [run EXCEPT ![r] = [run[r] EXCEPT !.pc = "relist", !.pass = @ + 1, !.mine = @ \cup S]]
    BY <1>0, <1>1, ListingTyped DEF Keeps
  <2> DEFINE mine == run[r].mine \cup S
             pass == run[r].pass + 1
             n == [run[r] EXCEPT !.pc = "relist", !.pass = pass, !.mine = mine]
  <2>2. mine \in SUBSET Dated /\ pass \in 0 .. MaxPasses
    BY <1>0, SnapshotsAssumption DEF Runs, Listed
  <2>3. run' = [run EXCEPT ![r] = n]
    BY <2>1
  <2>4. mine = run[r].mine \cup S
    OBVIOUS
  <2> HIDE DEF mine, pass
  <2>5. /\ n \in Runs /\ n.kind = run[r].kind /\ n.pc = "relist" /\ n.start = run[r].start
        /\ n.before = run[r].before /\ n.mine = mine /\ n.targets = run[r].targets
        /\ n.swept = run[r].swept /\ n.verdict = "none" /\ ~n.told
        /\ ~n.released /\ n.disturbed = run[r].disturbed
    BY <1>0, <2>2 DEF Runs
  <2> HIDE DEF n
  <2>6. run[r].kind \notin {"keep-latest", "execute-release"}
    BY <1>0 DEF Naming
  <2>7. /\ WorldTyped' /\ Onwards(World, World') /\ Quiet(World, World') /\ LatestKept(World')
        /\ \A s \in S : World'.fate[s] \in Gone
    BY <1>0, <2>1, <2>6, TakesMoves
  <2>8. Working(run[r], World')
    BY <1>0, <2>7, WorkingStays, ListingTyped, WorldsTyped
  <2>9. WellFormed(n)
    BY <2>5 DEF WellFormed, Told, Explained
  <2>10. Working(n, World')
    BY <2>4, <2>5, <2>6, <2>7, <2>8 DEF Working
  <2> QED BY <2>3, <2>5, <2>7, <2>9, <2>10, OneMoves DEF Holds
<1>2. CASE run' = [run EXCEPT ![r] = [run[r] EXCEPT !.pc = "relist"]] /\ UNCHANGED fate /\ run[r].kind = "emergency"
  <2> DEFINE n == [run[r] EXCEPT !.pc = "relist"]
  <2>1. /\ n \in Runs /\ n.kind = "emergency" /\ n.pc = "relist" /\ n.start = run[r].start
        /\ n.before = run[r].before /\ n.mine = run[r].mine /\ n.targets = run[r].targets
        /\ n.swept = run[r].swept /\ n.verdict = "none" /\ ~n.told
        /\ ~n.released /\ n.disturbed = run[r].disturbed
    BY <1>0, <1>2 DEF Runs
  <2> HIDE DEF n
  <2>2. WellFormed(n)
    BY <2>1 DEF WellFormed, Told, Explained
  <2>3. Working(n, World)
    BY <1>0, <2>1 DEF Working
  <2> QED BY <1>0, <1>2, <2>1, <2>2, <2>3, StandingStill DEF Holds, n
<1>3. CASE run' = [run EXCEPT ![r] = Onward(run[r], FALSE)] /\ UNCHANGED fate
  BY <1>0, <1>3, GoingOnKeeps
<1> QED BY <1>1, <1>2, <1>3 DEF Pass, Keeps

LEMMA DropKeeps ==
    ASSUME IInv, NEW r \in Run, Drop(r)
    PROVE  IInv'
<1>0. /\ run[r] \in Runs /\ WellFormed(run[r]) /\ Working(run[r], World) /\ WorldTyped
      /\ run[r].pc = "drop" /\ run[r].targets # {} /\ UNCHANGED <<live, pins, noise, left>>
      /\ ~run[r].told /\ run[r].verdict = "none"
      /\ run[r].kind = "execute-release" => ~run[r].released
      /\ run[r].kind \in {"none", "thin", "execute", "execute-thin"} => ~run[r].released
  BY Moving DEF Drop, At, Busy, WellFormed
<1> DEFINE s == Min(run[r].targets)
           targets == run[r].targets \ {s}
           S == {s} \cap There
           mine == run[r].mine \cup S
           rest == [run[r] EXCEPT !.targets = targets]
           took == [run[r] EXCEPT !.targets = targets, !.mine = mine]
           gave == [run[r] EXCEPT !.targets = targets, !.released = FALSE]
<1>1. s \in run[r].targets /\ s \in Dated
  BY <1>0, LeastIsOne DEF Runs
<1>2. /\ targets = run[r].targets \ {s} /\ targets \in SUBSET Dated /\ mine \in SUBSET Dated
      /\ mine = run[r].mine \cup S /\ S \in SUBSET Listed(World) /\ S \subseteq {s}
      /\ s \in Listed(World) => s \in S
  BY <1>0, <1>1, ListingTyped DEF Runs
<1>3. \/ Takes(r, S) /\ run' = [run EXCEPT ![r] = took]
      \/ UNCHANGED fate /\ run[r].kind = "emergency" /\ run' = [run EXCEPT ![r] = gave]
      \/ UNCHANGED fate /\ run[r].kind # "emergency" /\ run' = [run EXCEPT ![r] = Onward(run[r], FALSE)]
  <2>1. [rest EXCEPT !.mine = @ \cup S] = took /\ [rest EXCEPT !.released = FALSE] = gave
    BY <1>0 DEF Runs
  <2> QED BY <2>1 DEF Drop, Keeps
<1> HIDE DEF s, targets, S, mine
<1>4. CASE Takes(r, S) /\ run' = [run EXCEPT ![r] = took]
  <2>1. /\ took \in Runs /\ took.kind = run[r].kind /\ took.pc = "drop" /\ took.start = run[r].start
        /\ took.before = run[r].before /\ took.mine = mine /\ took.targets = targets
        /\ took.swept = run[r].swept /\ took.verdict = "none" /\ ~took.told
        /\ took.released = run[r].released /\ took.disturbed = run[r].disturbed
    BY <1>0, <1>2 DEF Runs
  <2> HIDE DEF took
  <2>2. run[r].kind = "keep-latest" => HasNewer(s, World)
    BY <1>0, <1>1 DEF Working
  <2>3. run[r].kind = "keep-latest" => \A x \in S : HasNewer(x, World) /\ S = {x}
    BY <1>2, <2>2
  <2>4. /\ WorldTyped' /\ Onwards(World, World') /\ Quiet(World, World') /\ LatestKept(World')
        /\ \A x \in S : World'.fate[x] \in Gone /\ x \notin Listed(World')
        /\ Listed(World') \subseteq Listed(World)
    BY <1>0, <1>2, <1>4, <2>3, TakesMoves
  <2>5. Working(run[r], World')
    BY <1>0, <2>4, WorkingStays, ListingTyped, WorldsTyped
  <2>6. s \notin Listed(World')
    BY <1>2, <2>4
  <2>7. WellFormed(took)
    BY <1>0, <2>1 DEF WellFormed, Told, Explained
  <2>8. took.kind \in {"execute-release", "emergency"} =>
         (took.released \/ (took.kind = "execute-release" /\ took.pc \in {"drop", "relist"}) =>
             took.before \cap Listed(World') \subseteq IF took.pc = "drop" THEN took.targets ELSE {})
    BY <1>0, <1>2, <2>1, <2>5, <2>6 DEF Working
  <2>9. Working(took, World')
    BY <1>2, <2>1, <2>4, <2>5, <2>8 DEF Working
  <2> QED BY <1>4, <2>1, <2>4, <2>7, <2>9, OneMoves DEF Holds
<1>5. CASE UNCHANGED fate /\ run[r].kind = "emergency" /\ run' = [run EXCEPT ![r] = gave]
  <2>1. /\ gave \in Runs /\ gave.kind = run[r].kind /\ gave.pc = "drop" /\ gave.start = run[r].start
        /\ gave.before = run[r].before /\ gave.mine = run[r].mine /\ gave.targets = targets
        /\ gave.swept = run[r].swept /\ gave.verdict = "none" /\ ~gave.told
        /\ ~gave.released /\ gave.disturbed = run[r].disturbed
    BY <1>0, <1>2 DEF Runs
  <2> HIDE DEF gave
  <2>2. WellFormed(gave)
    BY <1>5, <2>1 DEF WellFormed, Told, Explained
  <2>3. Working(gave, World)
    BY <1>0, <1>5, <2>1 DEF Working
  <2> QED BY <1>0, <1>5, <2>1, <2>2, <2>3, StandingStill DEF Holds
<1>6. CASE UNCHANGED fate /\ run[r].kind # "emergency" /\ run' = [run EXCEPT ![r] = Onward(run[r], FALSE)]
  BY <1>0, <1>6, GoingOnKeeps
<1> QED BY <1>3, <1>4, <1>5, <1>6

LEMMA DroppedKeeps ==
    ASSUME IInv, NEW r \in Run, Dropped(r)
    PROVE  IInv'
<1>0. /\ run[r] \in Runs /\ WellFormed(run[r]) /\ Working(run[r], World)
      /\ run[r].pc = "drop" /\ run[r].targets = {} /\ UNCHANGED <<live, fate, pins, noise, left>>
      /\ ~run[r].told /\ run[r].verdict = "none"
      /\ run[r].kind \in {"none", "thin", "execute", "execute-thin"} => ~run[r].released
  BY Moving DEF Dropped, At, Busy, WellFormed
<1>1. CASE run[r].kind = "emergency"
  <2>1. run[r].released => run[r].before \cap Listed(World) = {}
    BY <1>0, <1>1 DEF Working
  <2> QED BY <1>0, <1>1, <2>1, GoingOnKeeps DEF Dropped, Keeps
<1>2. CASE run[r].kind # "emergency"
  <2> DEFINE n == [run[r] EXCEPT !.pc = "relist"]
  <2>1. run' = [run EXCEPT ![r] = n]
    BY <1>2 DEF Dropped, Keeps
  <2>2. /\ n \in Runs /\ n.kind = run[r].kind /\ n.pc = "relist" /\ n.start = run[r].start
        /\ n.before = run[r].before /\ n.mine = run[r].mine /\ n.targets = {}
        /\ n.swept = run[r].swept /\ n.verdict = "none" /\ ~n.told
        /\ n.released = run[r].released /\ n.disturbed = run[r].disturbed
    BY <1>0 DEF Runs
  <2> HIDE DEF n
  <2>3. WellFormed(n)
    BY <1>0, <2>2 DEF WellFormed, Told, Explained
  <2>4. Working(n, World)
    BY <1>0, <1>2, <2>2 DEF Working
  <2> QED BY <1>0, <2>1, <2>2, <2>3, <2>4, StandingStill DEF Holds
<1> QED BY <1>1, <1>2

(* What a receipt of this command would say of its snapshots is so.        *)
LEMMA ReceiptOf ==
    ASSUME IInv, NEW r \in Run, run[r].pc = "relist"
    PROVE  /\ WithReceipt(run[r], There) \in Runs
           /\ Told(WithReceipt(run[r], There)) /\ WithReceipt(run[r], There).kind = run[r].kind
           /\ WithReceipt(run[r], There).verdict = "none"
           /\ \A n \in {WithReceipt(run[r], There), [WithReceipt(run[r], There) EXCEPT !.released = TRUE]} :
                /\ n \in Runs /\ Told(n) /\ n.kind = run[r].kind /\ n.verdict = "none" /\ n.told
                /\ n.before = run[r].before /\ n.mine = run[r].mine /\ n.swept = run[r].swept
                /\ n.start = run[r].start /\ n.disturbed = run[r].disturbed
           /\ WithReceipt(run[r], There).released = run[r].released
<1>0. /\ run[r] \in Runs /\ Working(run[r], World) /\ WorldTyped /\ run[r].verdict = "none"
  BY Moving DEF Busy, WellFormed
<1> DEFINE thinned == run[r].before \ There
           n == [run[r] EXCEPT !.told = TRUE, !.thinned = thinned]
           m == [n EXCEPT !.released = TRUE]
<1>1. run[r].mine \cap run[r].before \subseteq thinned
  <2>1. \A s \in run[r].mine : s \in Dated /\ World.fate[s] \in Gone
    BY <1>0 DEF Working, Runs
  <2>2. \A s \in run[r].mine : s \notin Listed(World)
    BY <2>1 DEF Listed, Gone
  <2>3. There \cap Dated = Listed(World)
    BY <1>0, ListingTyped
  <2> QED BY <2>1, <2>2, <2>3
<1>2. thinned \in SUBSET Snapshot
  BY <1>0 DEF Runs
<1>3. WithReceipt(run[r], There) = n
  BY DEF WithReceipt
<1> HIDE DEF thinned
<1>4. /\ n \in Runs /\ n.kind = run[r].kind /\ n.verdict = "none" /\ n.told /\ n.thinned = thinned
      /\ n.before = run[r].before /\ n.mine = run[r].mine /\ n.swept = run[r].swept
      /\ n.start = run[r].start /\ n.disturbed = run[r].disturbed /\ n.released = run[r].released
  BY <1>0, <1>2 DEF Runs
<1> HIDE DEF n
<1>5. /\ m \in Runs /\ m.kind = run[r].kind /\ m.verdict = "none" /\ m.told /\ m.thinned = thinned
      /\ m.before = run[r].before /\ m.mine = run[r].mine /\ m.swept = run[r].swept
      /\ m.start = run[r].start /\ m.disturbed = run[r].disturbed
  BY <1>4 DEF Runs
<1> HIDE DEF m
<1>6. Told(n) /\ Told(m)
  BY <1>1, <1>4, <1>5 DEF Told
<1> QED BY <1>3, <1>4, <1>5, <1>6 DEF m

LEMMA RelistKeeps ==
    ASSUME IInv, NEW r \in Run, Relist(r)
    PROVE  IInv'
<1>0. /\ run[r] \in Runs /\ WellFormed(run[r]) /\ Working(run[r], World) /\ WorldTyped
      /\ run[r].pc = "relist" /\ UNCHANGED <<live, fate, pins, noise, left>>
      /\ ~run[r].told /\ run[r].verdict = "none"
      /\ run[r].kind \in {"none", "thin", "execute", "execute-thin"} => ~run[r].released
  BY Moving DEF Relist, At, Busy, WellFormed
<1> DEFINE stop == StopReason(run[r].pass, Cardinality(run[r].now), Cardinality(There),
                              Available - run[r].base, Wanted(run[r]))
<1>1. \/ /\ run[r].kind = "emergency"
         /\ run' = [run EXCEPT ![r] = [run[r] EXCEPT !.before = There, !.targets = DatesOf(There),
                                   !.pc = "drop", !.released = TRUE]]
      \/ /\ run[r].kind \in Naming
         /\ run' = [run EXCEPT ![r] = Onward([WithReceipt(run[r], There) EXCEPT !.released = TRUE], TRUE)]
      \/ /\ run[r].kind \notin Naming \cup {"emergency"} /\ stop = "none"
         /\ run' = [run EXCEPT ![r] = [run[r] EXCEPT !.now = There, !.pc = "pass"]]
      \/ /\ run[r].kind \notin Naming \cup {"emergency"}
         /\ run' = [run EXCEPT ![r] = Onward(WithReceipt(run[r], There), TRUE)]
      \/ run' = [run EXCEPT ![r] = Onward(run[r], FALSE)]
  BY DEF Relist, Keeps
<1>2. stop = "none" => ~(run[r].pass >= MaxPasses)
  BY DEF StopReason
<1> HIDE DEF stop
<1>3. /\ \A s \in run[r].mine : World.fate[s] \in Gone
      /\ \A s \in run[r].before \cap Dated : World.fate[s] # "never"
      /\ ~run[r].disturbed => run[r].swept \cap World.live = {} /\ run[r].start <= Free(World.used \cup run[r].swept, World)
      /\ run[r].kind = "execute-release" \/ (run[r].kind = "emergency" /\ run[r].released) =>
            run[r].before \cap Listed(World) = {}
  BY <1>0 DEF Working
<1>4. CASE /\ run[r].kind = "emergency"
           /\ run' = [run EXCEPT ![r] = [run[r] EXCEPT !.before = There, !.targets = DatesOf(There),
                                   !.pc = "drop", !.released = TRUE]]
  <2> DEFINE n == [run[r] EXCEPT !.before = There, !.targets = DatesOf(There), !.pc = "drop", !.released = TRUE]
  <2>1. There \in SUBSET Snapshot /\ DatesOf(There) \in SUBSET Dated /\ DatesOf(There) = Listed(World)
    BY <1>0, ListingTyped DEF DatesOf
  <2>2. /\ n \in Runs /\ n.kind = "emergency" /\ n.pc = "drop" /\ n.start = run[r].start
        /\ n.before = There /\ n.mine = run[r].mine /\ n.targets = Listed(World)
        /\ n.swept = run[r].swept /\ n.verdict = "none" /\ ~n.told
        /\ n.disturbed = run[r].disturbed
    BY <1>0, <1>4, <2>1 DEF Runs
  <2>3. \A s \in There \cap Dated : World.fate[s] # "never"
    BY <1>0, ListingTyped DEF Listed
  <2> HIDE DEF n
  <2>4. WellFormed(n)
    BY <2>2 DEF WellFormed, Told, Explained
  <2>5. Working(n, World)
    BY <1>3, <2>2, <2>3 DEF Working
  <2> QED BY <1>0, <1>4, <2>2, <2>4, <2>5, StandingStill DEF Holds, n
<1>5. CASE /\ run[r].kind \in Naming
           /\ run' = [run EXCEPT ![r] = Onward([WithReceipt(run[r], There) EXCEPT !.released = TRUE], TRUE)]
  <2> DEFINE n == [WithReceipt(run[r], There) EXCEPT !.released = TRUE]
  <2>1. /\ n \in Runs /\ Told(n) /\ n.kind = run[r].kind /\ n.verdict = "none"
        /\ n.before = run[r].before /\ n.mine = run[r].mine /\ n.swept = run[r].swept
        /\ n.start = run[r].start /\ n.disturbed = run[r].disturbed
    BY <1>0, ReceiptOf
  <2> HIDE DEF n
  <2>2. n.kind \notin {"emergency", "thin", "execute", "execute-thin"}
    BY <1>5, <2>1 DEF Naming
  <2>3. Onward(n, TRUE) \in Runs /\ Holds(Onward(n, TRUE), World)
    BY <1>3, <2>1, <2>2, OnwardHolds
  <2> QED BY <1>0, <1>5, <2>3, StandingStill DEF n
<1>6. CASE /\ run[r].kind \notin Naming \cup {"emergency"} /\ stop = "none"
           /\ run' = [run EXCEPT ![r] = [run[r] EXCEPT !.now = There, !.pc = "pass"]]
  <2> DEFINE n == [run[r] EXCEPT !.now = There, !.pc = "pass"]
  <2>1. There \in SUBSET Snapshot
    BY <1>0, ListingTyped
  <2>2. /\ n \in Runs /\ n.kind = run[r].kind /\ n.pc = "pass" /\ n.start = run[r].start
        /\ n.before = run[r].before /\ n.mine = run[r].mine /\ n.targets = run[r].targets
        /\ n.swept = run[r].swept /\ n.verdict = "none" /\ ~n.told /\ n.pass = run[r].pass
        /\ n.released = run[r].released /\ n.disturbed = run[r].disturbed
    BY <1>0, <2>1 DEF Runs
  <2> HIDE DEF n
  <2>3. run[r].kind \in {"none", "thin", "execute", "execute-thin"} /\ run[r].pass < MaxPasses
    BY <1>0, <1>2, <1>6, SnapshotsAssumption DEF Runs, Commands, Naming
  <2>4. WellFormed(n)
    BY <1>0, <1>6, <2>2, <2>3 DEF WellFormed, Told, Explained
  <2>5. Working(n, World)
    BY <1>3, <2>2, <2>3 DEF Working
  <2> QED BY <1>0, <1>6, <2>2, <2>4, <2>5, StandingStill DEF Holds, n
<1>7. CASE /\ run[r].kind \notin Naming \cup {"emergency"}
           /\ run' = [run EXCEPT ![r] = Onward(WithReceipt(run[r], There), TRUE)]
  <2> DEFINE n == WithReceipt(run[r], There)
  <2>1. /\ n \in Runs /\ Told(n) /\ n.kind = run[r].kind /\ n.verdict = "none"
        /\ n.before = run[r].before /\ n.mine = run[r].mine /\ n.swept = run[r].swept
        /\ n.start = run[r].start /\ n.disturbed = run[r].disturbed /\ n.released = run[r].released
    BY <1>0, ReceiptOf
  <2> HIDE DEF n
  <2>2. n.kind \notin {"emergency", "execute-release"} /\ (n.kind \in {"thin", "execute", "execute-thin"} => ~n.released)
    BY <1>0, <1>7, <2>1 DEF Naming
  <2>3. Onward(n, TRUE) \in Runs /\ Holds(Onward(n, TRUE), World)
    BY <1>3, <2>1, <2>2, OnwardHolds
  <2> QED BY <1>0, <1>7, <2>3, StandingStill DEF n
<1>8. CASE run' = [run EXCEPT ![r] = Onward(run[r], FALSE)]
  BY <1>0, <1>3, <1>8, GoingOnKeeps
<1> QED BY <1>1, <1>4, <1>5, <1>6, <1>7, <1>8

(* A shortfall of a command that nobody wrote beside has a snapshot to      *)
(* blame: without one, all that it cleared would be free by now.           *)
LEMMA MeasureKeeps ==
    ASSUME IInv, NEW r \in Run, Measure(r)
    PROVE  IInv'
<1>0. /\ run[r] \in Runs /\ WellFormed(run[r]) /\ Working(run[r], World) /\ WorldTyped
      /\ run[r].pc = "measure" /\ UNCHANGED <<live, fate, pins, noise, left>>
      /\ run[r].kind \in Clearing /\ Told(run[r])
      /\ run[r].kind \in {"execute", "execute-thin"} => ~run[r].released
  BY Moving DEF Measure, At, Busy, WellFormed
<1> DEFINE verdict == CheckReclaim(Bytes(run[r].swept), run[r].start, Available)
           blame == Holding(run[r].swept)
           n == [run[r] EXCEPT !.verdict = verdict, !.blame = blame]
<1>1. verdict \in {"not_applicable", "shortfall", "witnessed"} /\ blame \in SUBSET Snapshot /\ blame \subseteq There
  BY <1>0, ListingTyped DEF CheckReclaim
<1>2. /\ n \in Runs /\ n.verdict = verdict /\ n.blame = blame /\ n.told = run[r].told
      /\ n.mine = run[r].mine /\ n.before = run[r].before /\ n.thinned = run[r].thinned
      /\ n.disturbed = run[r].disturbed /\ n.released = run[r].released
  <2> HIDE DEF verdict, blame
  <2> QED BY <1>0, <1>1 DEF Runs
<1>3. ASSUME verdict = "shortfall", ~run[r].disturbed, blame = {} PROVE FALSE
  <2> DEFINE swept == run[r].swept
             claimed == Bytes(swept)
             now == Free(World.used, World)
  <2>1. Available = now /\ Available \in Nat /\ World.used = Used /\ World.live = live
    BY <1>0, ListingTyped
  <2>2. swept \cap live = {} /\ run[r].start <= Free(Used \cup swept, World)
    BY <1>0, <1>3, <2>1 DEF Working
  <2>3. swept \cap Used = {}
    <3>1. swept \cap Pinned = {}
      BY <1>3 DEF Holding, Pinned
    <3> QED BY <2>2, <3>1 DEF Used
  <2>4. Bytes(Used \cup swept) = Bytes(Used) + claimed /\ Bytes(Used) \in Nat /\ claimed \in Nat /\ Bytes(Item) \in Nat
    BY <2>3, BytesCount
  <2>5. 2 * (Available - run[r].start) < claimed
    BY <1>3 DEF CheckReclaim
  <2>6. World.noise \in Nat /\ MaxNoise \in Nat /\ run[r].start \in Nat
    BY <1>0, SnapshotsAssumption DEF World, WorldTyped, Runs
  <2>7. Available = Bytes(Item) + MaxNoise - Bytes(Used) - World.noise
    BY <2>1 DEF Free
  <2> HIDE DEF claimed, swept, now
  <2>8. run[r].start <= Available - claimed
    BY <2>2, <2>4, <2>6, <2>7 DEF Free
  <2> QED BY <2>1, <2>4, <2>5, <2>6, <2>8
<1>4. ~run[r].disturbed /\ run[r].released => blame \cap run[r].before \cap Dated = {}
  <2> SUFFICES ASSUME run[r].released PROVE blame \cap run[r].before \cap Dated = {}
    OBVIOUS
  <2>1. run[r].kind \in {"execute-release", "emergency"}
    BY <1>0 DEF Clearing
  <2>2. run[r].before \cap Listed(World) = {}
    BY <1>0, <2>1 DEF Working
  <2>3. There \cap Dated = Listed(World)
    BY <1>0, ListingTyped
  <2> QED BY <1>1, <2>2, <2>3
<1>5. Explained(n) /\ Told(n)
  <2> HIDE DEF n, verdict, blame
  <2> QED BY <1>0, <1>2, <1>3, <1>4 DEF Explained, Told
<1>6. run' = [run EXCEPT ![r] = Over(n, "done")]
  BY DEF Measure, Keeps
<1> HIDE DEF n
<1>7. Over(n, "done") \in Runs /\ Holds(Over(n, "done"), World)
  BY <1>2, <1>5, OverHolds DEF Holds
<1> QED BY <1>0, <1>6, <1>7, StandingStill

-----------------------------------------------------------------------------
(* macOS and the other programs. *)
LEMMA NobodyMoves ==
    ASSUME IInv, UNCHANGED run, WorldTyped',
           Onwards(World, World'), Quiet(World, World'), LatestKept(World')
    PROVE  IInv'
<1>1. World \in Worlds /\ World' \in Worlds
  BY ListingTyped, WorldsTyped DEF IInv
<1>2. ASSUME NEW u \in Run PROVE Holds(run[u], World')
  BY <1>1, WorkingStays DEF Holds, IInv
<1> QED BY <1>2 DEF IInv

LEMMA SnapshotEventsKeep ==
    ASSUME IInv, NEW s \in Dated, Expire(s) \/ Take(s)
    PROVE  IInv'
<1>0. WorldTyped /\ LatestKept(World) /\ World.fate = fate /\ World'.fate = fate'
  BY DEF IInv, World
<1>1. left' \in 0 .. MaxEvents
  BY <1>0, SnapshotsAssumption DEF Expire, Take, Event, WorldTyped
<1>2. CASE Expire(s)
  <2>1. fate[s] = "there" /\ fate' = [fate EXCEPT ![s] = "other"] /\ UNCHANGED <<live, pins, noise, run>>
    BY <1>2 DEF Expire
  <2>2. WorldTyped' /\ There' \subseteq There
    BY <1>0, <1>1, <2>1 DEF WorldTyped, There
  <2>3. Quiet(World, World')
    BY <2>1, <2>2 DEF Quiet, World, Used, Pinned
  <2>4. \A t \in Dated : HasNewer(t, World) => HasNewer(t, World')
    BY <1>0, <2>1 DEF HasNewer, WorldTyped
  <2>5. Onwards(World, World') /\ LatestKept(World')
    BY <1>0, <2>1, <2>4 DEF Onwards, LatestKept, WorldTyped, Gone
  <2> QED BY <2>1, <2>2, <2>3, <2>5, NobodyMoves
<1>3. CASE Take(s)
  <2>1. /\ fate[s] = "never" /\ fate' = [fate EXCEPT ![s] = "there"] /\ pins' = [pins EXCEPT ![s] = live]
        /\ UNCHANGED <<live, noise, run>>
    BY <1>3 DEF Take
  <2>2. s \in Snapshot /\ s \notin OsUpdate
    BY SnapshotsAssumption DEF Snapshot
  <2>3. WorldTyped' /\ There' = There \cup {s} /\ s \notin There
    BY <1>0, <1>1, <2>1, <2>2 DEF WorldTyped, There
  <2>4. pins'[s] = live /\ \A t \in There : pins'[t] = pins[t]
    BY <1>0, <2>1, <2>2, <2>3, ListingTyped DEF WorldTyped
  <2>5. Quiet(World, World')
    BY <2>1, <2>3, <2>4 DEF Quiet, World, Used, Pinned
  <2>6. \A t \in Dated : HasNewer(t, World) => HasNewer(t, World')
    BY <1>0, <2>1 DEF HasNewer, WorldTyped
  <2>7. Onwards(World, World') /\ LatestKept(World')
    BY <1>0, <2>1, <2>6 DEF Onwards, LatestKept, WorldTyped, Gone
  <2> QED BY <2>1, <2>3, <2>5, <2>7, NobodyMoves
<1> QED BY <1>2, <1>3

LEMMA DisturbKeeps ==
    ASSUME IInv, Disturb, WorldTyped', UNCHANGED <<fate, pins>>
    PROVE  IInv'
<1>1. World \in Worlds /\ World' \in Worlds /\ World'.fate = World.fate
  BY ListingTyped, WorldsTyped DEF IInv, World
<1>2. Onwards(World, World') /\ LatestKept(World')
  BY <1>1 DEF Onwards, LatestKept, HasNewer, IInv
<1>3. ASSUME NEW u \in Run PROVE run'[u] \in Runs /\ Holds(run'[u], World')
  <2>0. run[u] \in Runs /\ WellFormed(run[u]) /\ (Busy(run[u]) => Working(run[u], World))
    BY Moving
  <2>1. CASE Busy(run[u])
    <3> DEFINE n == [run[u] EXCEPT !.disturbed = TRUE]
    <3>1. run'[u] = n
      BY <2>1 DEF Disturb, Active, Busy
    <3>2. /\ n \in Runs /\ n.kind = run[u].kind /\ n.pc = run[u].pc /\ n.start = run[u].start
          /\ n.before = run[u].before /\ n.mine = run[u].mine /\ n.targets = run[u].targets
          /\ n.swept = run[u].swept /\ n.verdict = run[u].verdict /\ n.told = run[u].told
          /\ n.pass = run[u].pass /\ n.thinned = run[u].thinned
          /\ n.released = run[u].released /\ n.disturbed
      BY <2>0 DEF Runs
    <3> HIDE DEF n
    <3>3. WellFormed(n)
      BY <2>0, <2>1, <3>2 DEF WellFormed, Told, Explained, Busy
    <3>4. Working(n, World)
      BY <2>0, <2>1, <3>2 DEF Working
    <3>5. Working(n, World')
      BY <1>1, <1>2, <3>2, <3>4, WorkingStays
    <3> QED BY <3>1, <3>2, <3>3, <3>5 DEF Holds
  <2>2. CASE ~Busy(run[u])
    <3>1. run'[u] = run[u]
      BY <2>2 DEF Disturb, Active, Busy
    <3> QED BY <2>0, <2>2, <3>1 DEF Holds
  <2> QED BY <2>1, <2>2
<1>4. run' = [r \in Run |-> run'[r]]
  BY DEF Disturb
<1> QED BY <1>2, <1>3, <1>4 DEF IInv

LEMMA NextKeepsIInv ==
    ASSUME IInv, [Next]_vars
    PROVE  IInv'
<1>1. ASSUME NEW r \in Run, Command(r) PROVE IInv'
  BY <1>1, BeginKeeps, SweepKeeps, SweptKeeps, ListKeeps, PassKeeps, DropKeeps, DroppedKeeps,
     RelistKeeps, MeasureKeeps DEF Command
<1>2. CASE Write
  <2>1. WorldTyped'
    BY <1>2, SnapshotsAssumption DEF Write, Event, IInv, WorldTyped
  <2> QED BY <1>2, <2>1, DisturbKeeps DEF Write
<1>3. ASSUME NEW i \in Item, Remake(i) PROVE IInv'
  <2>1. WorldTyped'
    BY <1>3, SnapshotsAssumption DEF Remake, Event, IInv, WorldTyped
  <2> QED BY <1>3, <2>1, DisturbKeeps DEF Remake
<1>4. CASE UNCHANGED vars
  <2>1. World' = World /\ WorldTyped' /\ UNCHANGED run
    BY <1>4 DEF vars, World, Used, Pinned, There, IInv, WorldTyped
  <2> QED BY <2>1 DEF IInv
<1> QED BY <1>1, <1>2, <1>3, <1>4, SnapshotEventsKeep DEF Next

LEMMA InitIInv == Init => IInv
<1> SUFFICES ASSUME Init PROVE IInv
  OBVIOUS
<1>1. pins \in [Snapshot -> SUBSET Item]
  BY DEF Init
<1>2. WorldTyped /\ LatestKept(World)
  <2>1. \A s \in Dated : fate[s] \in {"there", "never"}
    BY DEF Init
  <2>2. fate \in [Dated -> {"never", "there", "keep-latest", "other"}]
    BY DEF Init
  <2>3. left \in 0 .. MaxEvents /\ noise \in 0 .. MaxNoise /\ live \subseteq Item
    BY SnapshotsAssumption DEF Init
  <2> QED BY <1>1, <2>1, <2>2, <2>3 DEF WorldTyped, LatestKept, World
<1>3. run \in [Run -> Runs] /\ \A r \in Run : run[r] = Fresh
  BY FreshTyped DEF Init
<1> QED BY <1>2, <1>3, FreshTyped DEF IInv, Holds

(* The volume, its snapshots and every command of snapshot.rs and             *)
(* emergency.rs keep to IInv, whatever macOS and others do between their steps. *)
THEOREM Invariance == Spec => []IInv
BY InitIInv, NextKeepsIInv, PTL DEF Spec

(* Type correctness of the commands, the snapshots and the volume.         *)
THEOREM TypeCorrect == Spec => []TypeOK
<1>1. IInv => TypeOK
  BY DEF IInv, WorldTyped, TypeOK
<1> QED BY <1>1, Invariance, PTL

(* However many commands remove snapshots at once, and whatever macOS takes *)
(* and expires, keep-latest leaves a newer one than each it removed, unless *)
(* something else removed that.                                             *)
THEOREM LatestIsKept == Spec => []KeepLatestKeeps
<1>1. IInv => KeepLatestKeeps
  BY DEF IInv, LatestKept, HasNewer, World, KeepLatestKeeps
<1> QED BY <1>1, Invariance, PTL

(* A receipt names every snapshot its command removed of those it listed,   *)
(* for any number of passes.                                                *)
THEOREM ReceiptsTellAll == Spec => []ReceiptTellsAll
<1>1. IInv => ReceiptTellsAll
  BY DEF IInv, Holds, WellFormed, Told, ReceiptTellsAll
<1> QED BY <1>1, Invariance, PTL

(* For items of any size: a shortfall beside which nobody wrote has a       *)
(* snapshot that holds what was cleared, and after a release that worked    *)
(* it is none of those the release had listed and may remove.               *)
THEOREM ShortfallIsExplained == Spec => []ShortfallExplained
<1>1. IInv => ShortfallExplained
  BY DEF IInv, Holds, WellFormed, Explained, ShortfallExplained
<1> QED BY <1>1, Invariance, PTL
=============================================================================

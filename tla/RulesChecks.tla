---------------------------- MODULE RulesChecks ----------------------------
(***************************************************************************)
(* Bounded checks of the classification: every kind of project alone,      *)
(* every pair of kinds and all kinds at once, in a directory that holds    *)
(* every directory a rule mentions, every one but one, or that one alone,  *)
(* with every setting of the flags, in a project, and at, in and below the *)
(* stores.                                                                 *)
(***************************************************************************)
LOCAL INSTANCE Integers
LOCAL INSTANCE FiniteSets
LOCAL INSTANCE SequencesExt

LOCAL Rules == INSTANCE ArtifactRules
    WITH Hidden <- {".cargo", ".cache", ".bun", ".npm", ".vscode", ".venv"}, Revision <- 7

LOCAL Kinds == DOMAIN Rules!Always \cup DOMAIN Rules!Aggressive
LOCAL Tables == {Rules!Always, Rules!Aggressive, Rules!Deps}
LOCAL Rels == UNION {Rules!For(Kinds, t) : t \in Tables} \cup {<<"ios", "build">>, <<"ios", "Pods">>}
LOCAL AllDirs == {Head(r) : r \in Rels} \cup Rules!AiMarkers \cup Rules!EngineLayout
LOCAL AllFiles == UNION {Rules!MarkerFiles[k] : k \in DOMAIN Rules!MarkerFiles}
                  \cup Rules!For(Kinds, Rules!Files) \cup {"Podfile.lock"}
LOCAL Marker == {CHOOSE m \in Rules!MarkerFiles[k] : TRUE : k \in DOMAIN Rules!MarkerFiles}
LOCAL Full == [files |-> AllFiles, dirs |-> AllDirs]
LOCAL Snapshots ==
    {[Full EXCEPT !.dirs = ds] : ds \in UNION {{{d}, AllDirs \ {d}} : d \in AllDirs}}
    \cup {[files |-> {f}, dirs |-> ds] : f \in AllFiles, ds \in {AllDirs, {}}}
    \cup {[files |-> {f, g}, dirs |-> AllDirs] : f, g \in Marker}
LOCAL Flags == [deps : BOOLEAN, aggressive : BOOLEAN, tool_roots : BOOLEAN, verbose : BOOLEAN]

LOCAL Home == <<"Users", "u">>
LOCAL Here == Home \o <<"proj">>
LOCAL Nominated(root, args, snap) ==
    Rules!artifact_candidates_from_snapshot(root, Rules!detect_project_from_snapshot(snap), args, snap)
LOCAL Everything == [deps |-> TRUE, aggressive |-> TRUE, tool_roots |-> FALSE, verbose |-> FALSE]
LOCAL Below(root, c) == SubSeq(c, Len(root) + 1, Len(c))

\* Nothing is nominated out of thin air: a candidate is a child of the directory,
\* or lies below one, that was seen in it; and no source marker is a candidate.
ASSUME NominatedAreThere ==
    \A snap \in Snapshots : \A c \in Nominated(Here, Everything, snap) :
        LET rel == Below(Here, c) IN
        /\ IsPrefix(Here, c) /\ Head(rel) \in snap.dirs \cup snap.files
        /\ \A kind \in DOMAIN Rules!MarkerFiles : Last(rel) \notin Rules!MarkerFiles[kind]
        /\ Len(rel) > 1 => Head(rel) \in snap.dirs

\* A flag only adds, and what two scans nominate is the same wherever their
\* cache entries are shared: the fingerprint tells apart all that matters.
ASSUME SharedCachesAgree ==
    \A snap \in {s \in Snapshots : Cardinality(s.files) = 1} : \A a, b \in Flags :
        /\ Rules!scan_cache_fingerprint(a) = Rules!scan_cache_fingerprint(b)
             => Nominated(Here, a, snap) = Nominated(Here, b, snap)
        /\ Nominated(Here, a, snap) \subseteq Nominated(Here, Everything, snap)

\* Two candidates of one directory never contain each other, but for the bundled
\* gems of a project that is PHP and Ruby at once.
ASSUME SiblingsAreDisjoint ==
    \A snap \in Snapshots : LET C == Nominated(Here, Everything, snap) IN
        \A c, d \in C : c # d /\ IsPrefix(c, d) =>
            c = Append(Here, "vendor") /\ {"php", "ruby"} \subseteq Rules!detect_project_from_snapshot(snap)

\* The walk ends at every candidate directory but these, below which it may
\* nominate again; lanes and targets are not among them.
ASSUME WalkedNominations ==
    {r \in Rels : Len(r) = 1 /\ ~Rules!is_traversal_barrier_name(r[1])}
      = Rules!Names({"out", "*.egg-info", ".gradle", ".lake", "ebin", "cache", ".build", ".agents",
                     "tmp", "Saved", "cmake-build-*"})

\* An artifact leaf ends the walk, but for the gradle cache.
ASSUME LeavesEndTheWalk ==
    \A n \in AllDirs \cup Rules!traversal_barrier_names :
        Rules!is_artifact_leaf_name(n) /\ ~Rules!is_traversal_barrier_name(n) => n = ".gradle"

LOCAL Stores ==
    {Home \o s : s \in {<<".cargo", "registry", "src">>, <<".cargo", "git", "checkouts">>,
                        <<"go", "pkg", "mod">>, <<"proj", ".venv", "lib", "site-packages">>,
                        <<".cache", "uv">>, <<".bun", "install", "cache">>, <<".npm", "_npx">>,
                        <<".vscode", "extensions">>, <<".zcode", "plugins", "cache">>,
                        <<"Applications", "*.app", "Contents">>}}

\* Nothing inside a store is nominated piecemeal, however deep and whatever is
\* detected there; a store as a whole is not inside itself.
ASSUME StoresAreWhole ==
    \A store \in Stores : ~Rules!is_inside_package_store(store) /\
        \A rel \in {<<>>, <<"pkg">>, <<"pkg", "src">>} : Nominated(store \o rel, Everything, Full) = {}

\* A fence in a home directory holds for everything below it, and neither the
\* Docker container nor what leads to it is fenced.
LOCAL Docker == Home \o <<"Library", "Containers", "com.docker.docker", "Data">>
LOCAL Tails == {<<>>, <<"a">>, <<"a", "target">>}
ASSUME FencesHoldBelow ==
    /\ \A p \in {<<"Library", "Mail">>, <<"Library", "Mobile Documents">>, <<"Library", "Messages">>,
                 <<"Library", "Containers", "com.apple.x">>, <<"Pictures", "*.photoslibrary">>} :
          \A tail \in Tails : Rules!is_macos_os_dir(Home \o p \o tail)
    /\ \A n \in 1..Len(Docker) : ~Rules!is_macos_os_dir(SubSeq(Docker, 1, n))

\* The system's directories are fenced as such only: what lies below one is not,
\* but for those of /Library that are named.
ASSUME SystemFencesAreFlat ==
    \A d \in Rules!SystemDirs : LET below == Append(d, "Caches") IN
        Rules!is_macos_os_dir(below) <=> d = <<"Library">>

\* A curated cache lies in the home directory outside every fence, is not
\* ~/Library/Caches, contains no other, and is no part of a store, but for the
\* download cache of go modules.
LOCAL Caches == Rules!global_cache_candidates(Home)
ASSUME CuratedAreSafe ==
    /\ \A c \in Caches : /\ IsStrictPrefix(Home, c) /\ ~Rules!is_macos_os_dir(c)
                          /\ c # Home \o <<"Library", "Caches">>
                          /\ \A d \in Caches : IsPrefix(c, d) => c = d
    /\ {c \in Caches : Rules!is_inside_package_store(c)} = {Home \o <<"go", "pkg", "mod", "cache">>}
    /\ Rules!build_tool_cache_candidates(Home) \subseteq Caches

\* Merging in any order gives the outermost of all paths, each once: nothing
\* nominated is lost, and no two items of it contain each other unless two
\* scanned candidates did.
LOCAL Paths == {<<"h">>, <<"h", "c">>, <<"h", "c", "x">>, <<"h", "d">>}
LOCAL Orders(S) == {s \in [1..Cardinality(S) -> S] : \A p \in S : \E i \in DOMAIN s : s[i] = p}
LOCAL Merged(known, order) == Rules!merge_global_cache_candidates(known, order)
ASSUME MergeKeepsTheOutermost ==
    \A known, global \in SUBSET Paths : \A order \in Orders(global) :
        LET out == Merged(known, order) IN
        /\ \A p \in known \cup global : \E q \in out : IsPrefix(q, p)
        /\ out \subseteq known \cup global
        /\ \A p, q \in out : IsStrictPrefix(p, q) => {p, q} \subseteq known
        /\ \A other \in Orders(global) : Merged(known, other) = out

\* The running binary is never inside what the scan proposes; a curated cache
\* merged in later may contain it.
ASSUME SelfIsKept ==
    LET exe == <<"h", "c", "x">> IN
    /\ \A known \in SUBSET Paths : \A c \in Rules!exclude_self_binary_ancestors(known, exe) : ~IsPrefix(c, exe)
    /\ \E known \in SUBSET Paths :
          \E c \in Merged(Rules!exclude_self_binary_ancestors(known, exe), <<<<"h", "c">>>>) : IsPrefix(c, exe)

\* Of backups that look alike exactly one, the newest, is left.
ASSUME OneBackupStays ==
    \A entries \in [1..3 -> [size : {1, 2}, mtime : {0, 1, Rules!DaySeconds - 1, Rules!DaySeconds}]] :
        LET gone == Rules!triplicate_nominate(entries) IN
        \A i \in DOMAIN entries :
            LET alike == {j \in DOMAIN entries : Rules!SameBackup(entries[i], entries[j])} IN
            \E kept \in alike : /\ alike \ gone = {kept}
                                /\ \A j \in alike : entries[j].mtime <= entries[kept].mtime

\* A vendored tree in a project of its own is never an orphan, and an age at the
\* limit is not over it.
ASSUME StalenessNeedsEvidence ==
    /\ \A snap \in Snapshots : Rules!is_orphan_node_modules(snap)
                                 => "node" \notin Rules!detect_project_from_snapshot(snap)
    /\ ~Rules!node_modules_stale(730 * Rules!DaySeconds) /\ Rules!node_modules_stale(730 * Rules!DaySeconds + 1)
    /\ \A used \in {30, 31}, referenced \in BOOLEAN :
          Rules!venv_stale(referenced, used) <=> ~referenced /\ used = 31
=============================================================================

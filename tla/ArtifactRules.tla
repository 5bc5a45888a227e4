---------------------------- MODULE ArtifactRules ----------------------------
(***************************************************************************)
(* How the scan classifies a directory by the names in it                  *)
(* (domain/artifact.rs, domain/disk_scan.rs): which kinds of project it    *)
(* is, which of its children are nominated, which names end the walk,      *)
(* which paths no rule may reach, and what makes two scans share a cache.  *)
(*                                                                         *)
(* A path is the sequence of its components.  A name with a star stands    *)
(* for every name of that form ("target_*", "*.csproj").  A snapshot of a  *)
(* directory is the names of its files and the names of its directories.   *)
(***************************************************************************)
EXTENDS Integers, FiniteSets, SequencesExt

CONSTANTS Hidden,    \* the names that begin with a dot
          Revision   \* the classifier revision and crate version

-----------------------------------------------------------------------------
(* Names. *)

LaneRoots == {"_build-lane*", "target-lane*"}
is_lane_build_root_name(name) == name \in LaneRoots

DependencyDirs == {"node_modules", ".venv", "venv", "env", "deps", "vendor", ".bundle"}
WebOutputs == {".next", ".nuxt", ".output", ".vercel", ".turbo", ".vite", ".parcel-cache"}
BuildOutputs == {"target", "Binaries", "Intermediate", "DerivedDataCache", "_build", ".elixir_ls",
                 "build", "dist", "coverage", "htmlcov", "CMakeFiles", "bin", "obj"}

is_artifact_leaf_name(name) ==
    \/ is_lane_build_root_name(name) \/ name = "target_*"
    \/ name \in DependencyDirs \cup WebOutputs \cup BuildOutputs \cup {".gradle"}

VersionControl == {".git", ".hg", ".svn"}
PythonCaches == {".tox", ".nox", ".pytest_cache", ".mypy_cache", ".ruff_cache", "__pycache__"}
MacOsMetadata == {".Trash", ".Spotlight-V100", ".fseventsd", ".DocumentRevisions-V100",
                  ".TemporaryItems", ".Trashes", ".MobileBackups"}

traversal_barrier_names == VersionControl \cup DependencyDirs \cup WebOutputs \cup BuildOutputs
                           \cup PythonCaches \cup MacOsMetadata
is_traversal_barrier_name(name) ==
    is_lane_build_root_name(name) \/ name = "target_*" \/ name \in traversal_barrier_names

-----------------------------------------------------------------------------
(* Paths. *)

Has(path, i, names) == i \in DOMAIN path /\ path[i] \in names
Passes(path, part) ==
    \E i \in 1..(Len(path) - Len(part) + 1) : SubSeq(path, i, i + Len(part) - 1) = part

\* How many components below the i-th a store has its root; what is deeper
\* lies inside somebody else's shipped artifact.
StoreDepths(path, i) ==
    LET at(names, next) == Has(path, i, names) /\ Has(path, i + 1, next) IN
    UNION {
        IF at({".cargo"}, {"registry", "git"}) THEN {2} ELSE {},
        IF at({"go"}, {"pkg"}) /\ Has(path, i + 2, {"mod"}) THEN {2} ELSE {},
        IF path[i] \in {"site-packages", "uv-cache"} THEN {0} ELSE {},
        IF at({".cache"}, {"uv", "pre-commit", "act"}) THEN {1} ELSE {},
        IF at({".bun"}, {"install"}) THEN {2} ELSE {},
        IF at({".npm"}, {"_npx"}) \/ at(Hidden, {"extensions"}) THEN {1} ELSE {},
        IF at({"plugins"}, {"cache"}) \/ at({"*.app"}, {"Contents"}) THEN {1} ELSE {}}

is_inside_package_store(path) ==
    \E i \in DOMAIN path : \E depth \in StoreDepths(path, i) : Len(path) - i > depth

\* The fences: the system's own directories, and what in a home directory
\* blocks on the network or raises a privacy prompt.
SystemDirs ==
    {<<d>> : d \in {"System", "Library", "Applications", "Volumes", "Network", "private", "usr",
                    "bin", "sbin", "etc", "var", "opt"}}
    \cup {<<"Library", d>> : d \in {"Application Support", "Caches", "Developer", "Containers",
                                    "Group Containers"}}

is_macos_os_dir(path) ==
    /\ path \notin {<<"tmp">>, <<"private", "tmp">>}
    /\ ".antigravitycli" \notin ToSet(path)
    /\ IF Len(path) > 1 /\ Head(path) = "Users"
       THEN \/ \E d \in {"Mobile Documents", "Mail", "Messages"} : Passes(path, <<"Library", d>>)
            \/ /\ Passes(Front(path), <<"Library", "Containers">>)
               /\ ~Passes(path, <<"Library", "Containers", "com.docker.docker">>)
            \/ "*.photoslibrary" \in ToSet(path)
       ELSE path \in SystemDirs

\* Stores the walk does not enter.
is_global_cache(path) ==
    ToSet(path) \cap {".pnpm-store", ".rustup", ".asdf", ".pyenv", ".rbenv", ".mix", ".hex", ".osa"}
        # {}

-----------------------------------------------------------------------------
(* What a directory is. *)

has_file(snap, names) == snap.files \cap names # {}
has_dir(snap, names) == snap.dirs \cap names # {}

MarkerFiles ==
    [node |-> {"package.json"},
     next |-> {"next.config.js", "next.config.mjs", "next.config.ts"},
     nuxt |-> {"nuxt.config.js", "nuxt.config.ts", "nuxt.config.mjs"},
     python |-> {"pyproject.toml", "setup.py", "setup.cfg", "requirements.txt", "poetry.lock",
                 "Pipfile", "uv.lock"},
     maven |-> {"pom.xml"},
     gradle |-> {"build.gradle", "build.gradle.kts", "settings.gradle", "settings.gradle.kts",
                 "gradlew"},
     rust |-> {"Cargo.toml"}, lean |-> {"lakefile.lean", "lakefile.toml"}, go |-> {"go.mod"},
     elixir |-> {"mix.exs"}, erlang |-> {"rebar.config", "erlang.mk"}, php |-> {"composer.json"},
     ruby |-> {"Gemfile"}, swift |-> {"Package.swift"}, native |-> {"CMakeLists.txt", "Makefile"},
     dotnet |-> {"*.csproj", "*.fsproj", "*.sln"}, unreal |-> {"*.uproject", "*.uplugin"}]
AiMarkers == {".agents", ".gemini", ".claude"}
EngineLayout == {"Source", "Shaders", "Build"}

detect_project_from_snapshot(snap) ==
    {kind \in DOMAIN MarkerFiles : has_file(snap, MarkerFiles[kind])}
    \cup {kind \in {"unreal"} : EngineLayout \subseteq snap.dirs}
    \cup {kind \in {"ai_project"} : has_dir(snap, AiMarkers)}
    \cup {kind \in {"session_logs"} :
            "tmp" \in snap.dirs /\ (has_file(snap, {"Cargo.toml"}) \/ has_dir(snap, {".gemini"}))}

-----------------------------------------------------------------------------
(* What in it is nominated. *)

Names(set) == {<<n>> : n \in set}

\* The directories of each kind of project: whatever the flags say, with
\* --aggressive, and with --deps.
Always ==
    [node |-> Names({".turbo", ".parcel-cache", ".vite", "coverage"}),
     next |-> Names({".next", "out"}),
     nuxt |-> Names({".nuxt", ".output", "dist"}),
     python |-> Names({".pytest_cache", ".mypy_cache", ".ruff_cache", ".tox", ".nox", "htmlcov",
                       "*.egg-info"}),
     maven |-> Names({"target"}),
     gradle |-> Names({"build", ".gradle"}),
     lean |-> Names({".lake"}),
     rust |-> Names({"target", "target_*", "target-lane*"}),
     elixir |-> Names({"_build", ".elixir_ls", "_build-lane*"}),
     erlang |-> Names({"_build", "_build-lane*", "ebin"}),
     php |-> {<<"var", "cache">>, <<"cache">>},
     ruby |-> Names({".bundle", "coverage"}),
     swift |-> Names({".build"}),
     native |-> Names({"CMakeFiles"}),
     ai_project |-> {<<".agents">>, <<".gemini", "tmp">>, <<".claude", "tmp">>},
     session_logs |-> Names({"tmp"}),
     dotnet |-> Names({"bin", "obj"}),
     unreal |-> Names({"Intermediate", "DerivedDataCache", "Saved"})]

Aggressive ==
    [node |-> Names({"dist", "build"}), python |-> Names({"dist", "build"}),
     go |-> Names({"bin", "dist"}), swift |-> Names({"build"}),
     native |-> Names({"build", "cmake-build-*"}), unreal |-> Names({"Binaries"})]

Deps ==
    [node |-> Names({"node_modules"}), python |-> Names({".venv", "venv", "env"}),
     elixir |-> Names({"deps"}), erlang |-> Names({"deps"}), php |-> Names({"vendor"}),
     ruby |-> {<<"vendor", "bundle">>}]

Files ==
    [node |-> {".eslintcache"}, python |-> {".coverage"}, go |-> {"coverage.out", "cover.out"},
     erlang |-> {"erl_crash.dump"}, native |-> {"CMakeCache.txt"}, session_logs |-> {"*.jsonl"}]

For(kinds, table) == UNION {table[k] : k \in kinds \cap DOMAIN table}

\* Of a nested path only the first component is looked up.
add_dir(root, rels, snap) == {root \o rel : rel \in {r \in rels : Head(r) \in snap.dirs}}
add_file(root, names, snap) == {Append(root, n) : n \in names \cap snap.files}

erl_crash_dump_candidate(root, snap) == add_file(root, {"erl_crash.dump"}, snap)
ios_build_pods_candidates(root, snap) ==
    IF has_file(snap, {"Podfile.lock"})
    THEN add_dir(root, {<<"ios", "build">>, <<"ios", "Pods">>}, snap) ELSE {}

\* The kinds are those detected in the same snapshot.
artifact_candidates_from_snapshot(root, kinds, args, snap) ==
    LET dirs == For(kinds, Always) \cup (IF args.aggressive THEN For(kinds, Aggressive) ELSE {})
                \cup (IF args.deps THEN For(kinds, Deps) ELSE {})
    IN  {c \in add_dir(root, dirs, snap) \cup add_file(root, For(kinds, Files), snap)
               \cup erl_crash_dump_candidate(root, snap) \cup ios_build_pods_candidates(root, snap) :
            ~is_inside_package_store(c)}

\* What the entries of the scan cache depend on.
scan_cache_revision_prefix == <<Revision>>
scan_cache_fingerprint(args) ==
    scan_cache_revision_prefix \o <<args.deps, args.aggressive, args.tool_roots>>

-----------------------------------------------------------------------------
(* The caches nominated whole, and the candidates they replace. *)

build_tool_cache_candidates(home) ==
    {home \o <<"Library", "Caches", c>> : c \in {"Mozilla.sccache", "dotslash",
        "BytecodeAlliance.wasmtime", "node-gyp", "pyinstaller"}}
    \cup {home \o <<".terraform", "providers">>}

global_cache_candidates(home) ==
    build_tool_cache_candidates(home)
    \cup {home \o <<"Library", "Caches", c>> : c \in {"Homebrew", "go-build", "ms-playwright", "pip",
            "uv", "org.swift.swiftpm", "JetBrains", "trivy", "Google"}}
    \cup {home \o rel : rel \in {
            <<"Library", "pnpm", "store">>, <<"Library", "Developer", "Xcode", "DerivedData">>,
            <<"Library", "Developer", "CoreSimulator", "Caches">>, <<".cache">>,
            <<".cargo", "registry", "cache">>, <<".cargo", "registry", "src">>,
            <<".npm", "_cacache">>, <<".npm", "_npx">>, <<"go", "pkg", "mod", "cache">>}}

exclude_self_binary_ancestors(candidates, exe) == {c \in candidates : ~IsPrefix(c, exe)}

MergeOne(known, path) ==
    IF \E k \in known : IsPrefix(k, path) THEN known
    ELSE {k \in known : ~IsPrefix(path, k)} \cup {path}
merge_global_cache_candidates(known, global) == FoldLeft(MergeOne, known, global)

-----------------------------------------------------------------------------
(* The further classes of the disk-scan corpus: decisions no command calls    *)
(* yet.  Times are not before 1970.                                           *)

MiB == 1024 * 1024
DaySeconds == 86400
node_modules_stale(ageSecs) == ageSecs > 2 * 365 * DaySeconds
venv_stale(referenced, ageDays) == ~referenced /\ ageDays > 30

LockFiles == {"package.json", "package-lock.json", "yarn.lock", "pnpm-lock.yaml", "bun.lockb"}
is_orphan_node_modules(snap) == has_dir(snap, {"node_modules"}) /\ ~has_file(snap, LockFiles)

is_tcc_gate_path(path) == Passes(path, <<"Library", "Mail">>) \/ ".Trash" \in ToSet(path)
is_tmp_lane_build_root(path) ==
    ToSet(path) \cap {"tmp", "T"} # {} /\ is_artifact_leaf_name(Last(path))
is_tmp_pack_file(path) ==
    Passes(path, <<".git", "objects", "pack", "tmp_pack_*">>)

is_electron_http_cache_dir(path) ==
    "*.app" \in ToSet(path) /\ Last(path) \in {"Cache", "Code Cache", "GPUCache"}
electron_cache_refused(path, worker) == worker /\ is_electron_http_cache_dir(path)

is_installer_dmg(ext, size) == ext \in {"dmg", "pkg"} /\ size > 100 * MiB
AtRootLevel(path) ==
    \/ Len(path) = 1
    \/ Len(path) = 3 /\ path[1] = "Users"
    \/ Len(path) > 1 /\ path[Len(path) - 1] \in {"Downloads", "Desktop", "Documents"}
is_stale_archive(path, ext, size, age) ==
    ext \in {"zip", "tar.gz", "tgz", "7z"} /\ size > 500 * MiB /\ age > 180 /\ AtRootLevel(path)

OperatorClasses == {"colima datadisk", "model weights", "simulator devices", "installer",
                    "history giant blob", "stale archive"}
is_operator_call_reason(classes) == classes \cap OperatorClasses # {}

\* Copies of one size made on one day: all but the newest go; of copies of one
\* age the one listed last stays.
Day(t) == t \div DaySeconds
SameBackup(a, b) == a.size = b.size /\ Day(a.mtime) = Day(b.mtime)
triplicate_nominate(entries) ==
    {i \in DOMAIN entries : \E j \in DOMAIN entries :
        /\ SameBackup(entries[i], entries[j])
        /\ \/ entries[i].mtime < entries[j].mtime
           \/ entries[i].mtime = entries[j].mtime /\ i < j}
=============================================================================

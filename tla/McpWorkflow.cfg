\* Two workspaces, two lists of roots and two
\* deletion calls, with restarts anywhere between the calls.
CONSTANTS
    Workspace = {w1, w2}
    RootList = {r1, r2}
    NoRoots = NoRoots
    Unset = Unset
    Explicit = Explicit
    Home = Home
    MaxCalls = 2
    Absent = Absent
    None = None
SPECIFICATION McpSpec
INVARIANTS CleanAnswerIsOwn PlanInheritsAudit ApprovalIsOnDisk
SYMMETRY Alike

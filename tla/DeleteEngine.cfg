\* Two workers, four items (one nested, one on GitHub) and two moves of other
\* processes within the first two seconds.
CONSTANTS
    d = d
    s = s
    f = f
    g = g
    x = x
    o = o
    y = y
    gh = gh
    Path = {d, s, f, g, x, o, y, gh}
    Below <- MCBelow
    Plan = {d, x, g, gh}
    FileItem = {x, g}
    GithubItem = {gh}
    Target = o
    Alias <- MCAlias
    PlannedBytes = 2
    Volumes <- MCVolumes
    MaxConcurrent = 2
    MaxClock = 2
    MaxMoves = 2
SPECIFICATION FairSpec
INVARIANTS DeletedMeansGone  RemovalIsAccounted VerdictIsTrue
PROPERTIES  Terminates
CHECK_DEADLOCK FALSE

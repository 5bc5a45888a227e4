\* One builder, any number of edits, two approvers (acknowledging or not, with
\* either of two secrets) and one executor on one plan file.
CONSTANTS
    project = project
    entry = entry
    os = os
    a1 = a1
    a2 = a2
    e1 = e1
    keyFile = keyFile
    emptyKey = emptyKey
    NoSecret = NoSecret
    Path = {project, entry, os}
    Below <- MCBelow
    OsPath = {os}
    Unsure = {project}
    Approver = {a1, a2}
    Executor = {e1}
    Secret = {keyFile, emptyKey}
    MaxApprovals = 2
SPECIFICATION Spec
INVARIANT RunningIsApproved
PROPERTY KeepsPromise
SYMMETRY Approvers

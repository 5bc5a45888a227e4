CONSTANTS
    home = home
    app = app
    agents = agents
    target = target
    lane = lane
    none = none
    f = f
    Dir = {home, app, agents}
    Leaf = {target, lane}
    Top = none
    Parent <- MCParent
    Project = {app, agents}
    Artifact = {agents, target, lane}
    Lane = {lane}
    Curated = {app}
    Tracked = {agents}
    Running = {}
    Linked = {app, agents}
    File = {f}
    Root = {home, app, lane}
    Window = 1
    MaxClock = 1
    MaxBytes = 2
    MaxChanges = 2
    MaxScans = 2
SPECIFICATION ScanSpec
INVARIANTS
    ScanTypeOK
    
    
    
CHECK_DEADLOCK FALSE

CONSTANTS
    daily = daily
    pressure = pressure
    target = target
    venv = venv
    leftover = leftover
    app = app
    Run = {daily, pressure}
    Narrowing = {pressure}
    Item = {target, venv, leftover, app}
    Bytes <- MCBytes
    Unsure = {leftover, app}
    BuildDir = {target, venv}
    Cap <- MCCap
    MaxClock = 2
SPECIFICATION Spec
INVARIANTS
    NothingUnsure
    CapIsBudget
    LiveWorkSpared
    StandingIsHonest
CHECK_DEADLOCK FALSE

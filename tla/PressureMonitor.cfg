CONSTANTS
    launchd = launchd
    Configurations <- MCConfigurations
    Monitor = {launchd}
    Threshold = 2
    Margin = 1
    MaxBudget = 2
    Cooldown = 2
    MaxFree = 3
    MaxBack = 1
    MaxOrphans = 1
SPECIFICATION FairSpec
INVARIANTS
    KeepsCooldown
    BudgetIsCalledFor
PROPERTY
    PressureIsAnswered

CONSTANTS
    Enabled = TRUE
    MaxRestarts = 3
    Window = 6
    InitialDelay = 2
    MaxDelay = 5
    MaxUint = 7
    StepBack = 2
    CountBound = 5
SPECIFICATION Spec
INVARIANTS
    BackoffKept
    BudgetOutOfReach
PROPERTY BudgetKept KeepsBudget

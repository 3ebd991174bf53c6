SPECIFICATION Spec
CONSTANTS
    blink = blink  log = log
    Keys = {blink, log}
    MaxTasks = 3
    MaxRegs = 2
    EarlyCalls = TRUE
    DisplayGoes = FALSE
SYMMETRY Symmetry
INVARIANTS NoneLost

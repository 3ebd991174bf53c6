SPECIFICATION FairSpec
CONSTANTS
    blink = blink  log = log
    Keys = {blink, log}
    MaxTasks = 3
    MaxRegs = 2
    EarlyCalls = FALSE
    DisplayGoes = TRUE
INVARIANTS CancelledNeverRuns FifoOrder NoneLost
PROPERTIES TaskServed ImplementsAgenda

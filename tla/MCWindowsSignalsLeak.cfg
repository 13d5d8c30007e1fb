CONSTANTS
    t1 = t1
    t2 = t2
    c1 = c1
    c2 = c2
    f1 = f1
    f2 = f2
    NoOwner = NoOwner
    Threads <- MCThreads
    CtrlCs <- MCCtrlCs
    Files <- MCFiles
    FaultThreads <- MCFaultThreads
    Script <- MCScriptInterrupt
SPECIFICATION Spec
PROPERTIES CallsReturn
CHECK_DEADLOCK FALSE

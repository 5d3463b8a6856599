SPECIFICATION FairSpec
CONSTANTS
    e1 = e1
    p1 = p1
    p2 = p2
    Engines = {e1, e2, e3}
    Procs = {p1, p2}
    ProcOf <- MCProcOf
    Operators = {op}
    AUTOMATION = AUTOMATION
    NoOwner = NoOwner
    Transport = "BROWSER"
    MaxInquiries = 2
    Delivery = "prompt"
PROPERTIES HumanHaltLeavesRetryable
CHECK_DEADLOCK FALSE

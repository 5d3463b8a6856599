SPECIFICATION FairSpec
CONSTANTS
    e1 = e1
    p1 = p1
    p2 = p2
    Engines = {e1, e2}
    Procs = {p1, p2, p3}
    ProcOf <- MCProcOf
    Operators = {}
    AUTOMATION = AUTOMATION
    NoOwner = NoOwner
    Transport = "BROWSER"
    MaxInquiries = 2
    Delivery = "late"
INVARIANTS ExclusiveAdmission
PROPERTIES AdmissionSettles
CHECK_DEADLOCK FALSE

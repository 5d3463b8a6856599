SPECIFICATION Spec
CONSTANTS
    e1 = e1
    p1 = p1
    p2 = p2
    Engines = {e1, e2, e3}
    Procs = {p1, p2}
    ProcOf <- MCProcOf
    Operators = {}
    AUTOMATION = AUTOMATION
    NoOwner = NoOwner
    Transport = "HTTP"
    MaxInquiries = 2
    Delivery = "late"
INVARIANTS SingleActuation
CHECK_DEADLOCK FALSE

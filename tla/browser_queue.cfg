SPECIFICATION Spec
CONSTANTS
    r1 = r1
    automation = automation
    operator = operator
    Requests = {r1, r2, r3}
    Owners = {automation, operator}
    OwnerOf <- MCOwnerOf
    CLOSE = CLOSE
    NoRequest = NoRequest
    MaxToken = 3
INVARIANTS AuditedOnce NoOvertaking
CHECK_DEADLOCK FALSE

SPECIFICATION Spec
CONSTANTS
    Sessions = {s1, s2}
    NoSession = NoSession
    Statuses = {"PROVISIONAL_CREDIT_POSTED", "NEEDS_HUMAN"}
    Executions = {1}
    Outcomes = {"SUCCESS"}
    Keys = {"credit"}
    DeadlineTypes = {"NOTICE_2_DAY"}
    MaxToken = 2
SYMMETRY SessionSymmetry
INVARIANTS RebuildFaithful
PROPERTIES MoneyNeverForgotten
CHECK_DEADLOCK FALSE

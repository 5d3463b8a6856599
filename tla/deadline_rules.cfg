SPECIFICATION Spec
CONSTANTS
    Years <- MCYears
    Openings <- MCOpenings
    Checks <- MCChecks
INVARIANTS RulesInv DueExact DeadlinesOrdered CalendarFollowsLaw LapsedIsOverdue OverdueWithinOffset
CHECK_DEADLOCK FALSE

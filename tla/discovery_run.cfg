SPECIFICATION FairSpec
CONSTANTS
    MaxCycles = 7
    NoCredit = NoCredit
INVARIANTS AgentCreditsGoal NoSilentCredit CompiledIsBacked
PROPERTIES RunEnds
CHECK_DEADLOCK FALSE

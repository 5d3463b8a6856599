SPECIFICATION FairSpec
CONSTANTS
    Lives = 3
    NoWorker = NoWorker
    Concurrent = {2}
INVARIANTS SentMeansDone UncertainIsEscalated ClaimInv EffectsInOrder ClockBeforeEffect FailureKeepsClock
PROPERTIES StatusAdvances CaseSettles EffectsKeepGuarantee
CHECK_DEADLOCK FALSE

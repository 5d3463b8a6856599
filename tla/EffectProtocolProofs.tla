------------------------ MODULE EffectProtocolProofs ------------------------
(***************************************************************************)
(* Proofs about EffectProtocol, for any set of engines, processes and      *)
(* operators and either transport.                                         *)
(***************************************************************************)
EXTENDS EffectProtocol, TLAPS

\* The initial rows and locals have their types
LEMMA TypeInit == Init => TypeOK
  BY EngineAssumption, OptionAssumption
  DEF Init, TypeOK, ExecutionOutcome, OutcomeCategory, OutcomeCode, ExecutionPhase,
      NoRecovery, NoOutcome, Outcome, Recovery, EnginePc, LeaseState,
      ExecutionStatus, RequestState

\* Every action keeps every row and local value in its type
LEMMA TypeStep == TypeOK /\ [Next]_vars => TypeOK'
<1> SUFFICES ASSUME TypeOK, [Next]_vars PROVE TypeOK'
  OBVIOUS
<1> USE EngineAssumption DEF TypeOK, At, Goto, ledger, locals, target
<1>1. ASSUME NEW e \in Engines, ClaimEffect(e)
      PROVE  TypeOK'
  BY <1>1 DEF ClaimEffect, EnginePc, EffectClaimStatus
<1>2. ASSUME NEW e \in Engines, ClaimRejected(e)
      PROVE  TypeOK'
  BY <1>2 DEF ClaimRejected, EnginePc
<1>3. ASSUME NEW e \in Engines, PrecheckAlreadyApplied(e)
      PROVE  TypeOK'
  BY <1>3 DEF PrecheckAlreadyApplied, EnginePc, EffectClaimStatus,
      ExecutionStatus
<1>4. ASSUME NEW e \in Engines, PrecheckHalted(e)
      PROVE  TypeOK'
  BY <1>4 DEF PrecheckHalted, EnginePc, EffectClaimStatus
<1>5. ASSUME NEW e \in Engines, PrecheckNotApplied(e)
      PROVE  TypeOK'
  BY <1>5 DEF PrecheckNotApplied, EnginePc
<1>6. ASSUME NEW e \in Engines, StageIntent(e)
      PROVE  TypeOK'
  BY <1>6 DEF StageIntent, EnginePc
<1>7. ASSUME NEW e \in Engines, EnterApplying(e)
      PROVE  TypeOK'
  BY <1>7 DEF EnterApplying, EnginePc, EffectClaimStatus,
      ExecutionStatus, LeaseState
<1>8. ASSUME NEW e \in Engines, EnterApplyingRaises(e)
      PROVE  TypeOK'
  BY <1>8 DEF EnterApplyingRaises, EnginePc
<1>9. ASSUME NEW e \in Engines, Heartbeat(e)
      PROVE  TypeOK'
  BY <1>9 DEF Heartbeat, EnginePc
<1>10. ASSUME NEW e \in Engines, HeartbeatFenced(e)
       PROVE  TypeOK'
  BY <1>10 DEF HeartbeatFenced, EnginePc, ExecutionOutcome,
      OutcomeCategory, OutcomeCode, ExecutionPhase, Outcome
<1>11. ASSUME NEW e \in Engines, HaltBeforeSubmit(e)
       PROVE  TypeOK'
  BY <1>11 DEF HaltBeforeSubmit, EnginePc, HaltsBeforeSubmit,
      ExecutionOutcome, OutcomeCategory, OutcomeCode, ExecutionPhase,
      Outcome
<1>12. ASSUME NEW e \in Engines, Submit(e)
       PROVE  TypeOK'
  BY <1>12 DEF Submit, EnginePc, RequestState
<1>13. ASSUME NEW e \in Engines, SubmitReturns(e)
       PROVE  TypeOK'
  BY <1>13 DEF SubmitReturns, EnginePc
<1>14. ASSUME NEW e \in Engines, SubmitUnauthorized(e)
       PROVE  TypeOK'
  BY <1>14 DEF SubmitUnauthorized, EnginePc, ExecutionOutcome,
      OutcomeCategory, OutcomeCode, ExecutionPhase, Outcome
<1>15. ASSUME NEW e \in Engines, SubmitInterrupted(e)
       PROVE  TypeOK'
  BY <1>15 DEF SubmitInterrupted, EnginePc
<1>16. ASSUME NEW e \in Engines, PostcheckConfirms(e)
       PROVE  TypeOK'
  BY <1>16 DEF PostcheckConfirms, EnginePc, ExecutionOutcome,
      OutcomeCategory, OutcomeCode, ExecutionPhase, Outcome
<1>17. ASSUME NEW e \in Engines, PostcheckUnconfirmed(e)
       PROVE  TypeOK'
  BY <1>17 DEF PostcheckUnconfirmed, EnginePc
<1>18. ASSUME NEW e \in Engines, ReconcileConclusive(e)
       PROVE  TypeOK'
  BY <1>18 DEF ReconcileConclusive, EnginePc, ExecutionOutcome,
      OutcomeCategory, OutcomeCode, ExecutionPhase, Outcome
<1>19. ASSUME NEW e \in Engines, ReconcileRetry(e)
       PROVE  TypeOK'
  BY <1>19 DEF ReconcileRetry
<1>20. ASSUME NEW e \in Engines, ReconcileInconclusive(e)
       PROVE  TypeOK'
  BY <1>20 DEF ReconcileInconclusive, EnginePc, ExecutionOutcome,
      OutcomeCategory, OutcomeCode, ExecutionPhase, Outcome
<1>21. ASSUME NEW e \in Engines, Settle(e)
       PROVE  TypeOK'
  BY <1>21 DEF Settle, EnginePc, EffectClaimStatus, ExecutionStatus,
      ReleasedLease, LeaseState, settle_claim_status, is_success,
      ExecutionOutcome, OutcomeCategory, OutcomeCode, ExecutionPhase,
      Outcome, NoOutcome
<1>22. ASSUME NEW e \in Engines, SettleRaises(e)
       PROVE  TypeOK'
  BY <1>22 DEF SettleRaises, EnginePc, ExecutionOutcome,
      OutcomeCategory, OutcomeCode, ExecutionPhase, Outcome, NoOutcome
<1>23. ASSUME NEW e \in Engines, TargetApplies(e)
       PROVE  TypeOK'
  BY <1>23 DEF TargetApplies, RequestState
<1>24. ASSUME NEW e \in Engines, TargetUnauthorized(e)
       PROVE  TypeOK'
  BY <1>24 DEF TargetUnauthorized, RequestState
<1>25. ASSUME NEW e \in Engines, RequestDropped(e)
       PROVE  TypeOK'
  BY <1>25 DEF RequestDropped, RequestState
<1>26. ASSUME NEW p \in Procs, Crash(p)
       PROVE  TypeOK'
  BY <1>26 DEF Crash, EnginePc, Recovery, NoRecovery, ExecutionOutcome,
      OutcomeCategory, OutcomeCode, ExecutionPhase, Outcome, NoOutcome
<1>27. ASSUME NEW p \in Procs, RecoverScan(p)
       PROVE  TypeOK'
  BY <1>27 DEF RecoverScan, OwnerIsDead, Recovery
<1>28. ASSUME NEW p \in Procs, RecoverNothing(p)
       PROVE  TypeOK'
  BY <1>28 DEF RecoverNothing, LeaseAfterRecovery, ReleasedLease,
      LeaseState
<1>29. ASSUME NEW p \in Procs, RecoverInquire(p)
       PROVE  TypeOK'
  BY <1>29 DEF RecoverInquire, Recovery
<1>30. ASSUME NEW p \in Procs, RecoverInconclusive(p)
       PROVE  TypeOK'
  BY <1>30 DEF RecoverInconclusive, Recovery, NoRecovery,
      LeaseAfterRecovery, ReleasedLease, LeaseState
<1>31. ASSUME NEW p \in Procs, RecoverApplied(p)
       PROVE  TypeOK'
  BY <1>31 DEF RecoverApplied, Recovery, NoRecovery, LeaseAfterRecovery,
      ReleasedLease, LeaseState, EffectClaimStatus
<1>32. ASSUME NEW p \in Procs, RecoverAbsent(p)
       PROVE  TypeOK'
  BY <1>32 DEF RecoverAbsent, Recovery, NoRecovery, LeaseAfterRecovery,
      ReleasedLease, LeaseState, EffectClaimStatus
<1>33. ASSUME NEW p \in Procs, RecoverStale(p)
       PROVE  TypeOK'
  BY <1>33 DEF RecoverStale, Recovery, NoRecovery, LeaseAfterRecovery,
      ReleasedLease, LeaseState
<1>34. ASSUME LeaseExpires
       PROVE  TypeOK'
  BY <1>34 DEF LeaseExpires, LeaseState
<1>35. ASSUME InitiateHandoff
       PROVE  TypeOK'
  BY <1>35 DEF InitiateHandoff, LeaseAfterRecovery, ReleasedLease,
      LeaseState
<1>36. ASSUME HandleReleaseLease
       PROVE  TypeOK'
  BY <1>36 DEF HandleReleaseLease, LeaseState
<1>37. ASSUME NEW o \in Operators, ClaimOperatorLease(o)
       PROVE  TypeOK'
  BY <1>37 DEF ClaimOperatorLease, LeaseState
<1>38. CASE UNCHANGED vars
  BY <1>38 DEF vars
<1> QED
  BY <1>1, <1>2, <1>3, <1>4, <1>5, <1>6, <1>7, <1>8, <1>9, <1>10, <1>11,
      <1>12, <1>13, <1>14, <1>15, <1>16, <1>17, <1>18, <1>19, <1>20,
      <1>21, <1>22, <1>23, <1>24, <1>25, <1>26, <1>27, <1>28, <1>29,
      <1>30, <1>31, <1>32, <1>33, <1>34, <1>35, <1>36, <1>37, <1>38 DEF
      Next, Proceed, Resolve, Recover

\* The type invariant: every row and local value of the protocol keeps its type
\* whatever the interleaving of workers, crashes, recoveries and operators.
THEOREM TypeCorrect == Spec => []TypeOK
  BY TypeInit, TypeStep, PTL DEF Spec

\* SafetyInv is inductive: it relates what the ledger says, what every worker
\* and recovery believes, and what the target holds.
THEOREM SafetyInductive == Spec => []SafetyInv
<1>1. Init => SafetyInv
  <2> SUFFICES ASSUME Init PROVE SafetyInv
    OBVIOUS
  <2>1. TypeOK
    BY TypeInit
  <2>2. Ownership /\ Evidence /\ WriteAhead
    BY EngineAssumption DEF Init, Ownership, Evidence, WriteAhead, Admitted, Live
  <2>3. EngineKnowledge /\ RecoveryKnowledge
    BY DEF Init, EngineKnowledge, RecoveryKnowledge, is_success, NoOutcome, Outcome,
           NoRecovery
  <2>4. LedgerMatchesTarget
    BY DEF Init, LedgerMatchesTarget, SuccessRows, Succeeded
  <2> QED
    BY <2>1, <2>2, <2>3, <2>4 DEF SafetyInv
<1>2. SafetyInv /\ [Next]_vars => SafetyInv'
  <2> SUFFICES ASSUME SafetyInv, [Next]_vars PROVE SafetyInv'
    OBVIOUS
  <2>0. TypeOK /\ TypeOK'
    BY TypeStep DEF SafetyInv
  <2> USE EngineAssumption, <2>0 DEF SafetyInv, TypeOK, At, Goto, ledger, locals, target
  <2>1. ASSUME NEW e \in Engines, ClaimEffect(e)
        PROVE  SafetyInv'
    <3> USE <2>1 DEF ClaimEffect
    <3>1. Ownership'
      BY DEF Ownership, ClaimMatches, Live, Admitted, RecoveryKnowledge,
             OwnerIsDead, InProgress
    <3>2. Evidence'
      BY DEF Evidence, Ownership, ClaimMatches, Admitted
    <3>3. EngineKnowledge'
      BY DEF EngineKnowledge, is_success, Recorded
    <3>4. RecoveryKnowledge'
      BY DEF RecoveryKnowledge, OwnerIsDead, Live, Recorded, InProgress,
             Recovery
    <3>5. LedgerMatchesTarget'
      BY DEF LedgerMatchesTarget, SuccessRows, Succeeded, Recorded,
             EngineKnowledge, RecoveryKnowledge, Ownership, Evidence,
             ClaimMatches, Admitted
    <3>6. WriteAhead'
      BY DEF WriteAhead, Evidence, Ownership, ClaimMatches, Admitted,
             EffectClaimStatus
    <3> QED
      BY <2>0, <3>1, <3>2, <3>3, <3>4, <3>5, <3>6 DEF SafetyInv
  <2>2. ASSUME NEW e \in Engines, ClaimRejected(e)
        PROVE  SafetyInv'
    <3> USE <2>2 DEF ClaimRejected
    <3>1. Ownership'
      BY DEF Ownership, ClaimMatches, Live, Admitted, RecoveryKnowledge,
             OwnerIsDead, InProgress
    <3>2. Evidence'
      BY DEF Evidence, Ownership, ClaimMatches, Admitted
    <3>3. EngineKnowledge'
      BY DEF EngineKnowledge, is_success, Recorded
    <3>4. RecoveryKnowledge' /\ LedgerMatchesTarget' /\ WriteAhead'
      BY DEF RecoveryKnowledge, OwnerIsDead, Live, Recorded,
             LedgerMatchesTarget, SuccessRows, WriteAhead, ClaimMatches
    <3> QED
      BY <2>0, <3>1, <3>2, <3>3, <3>4 DEF SafetyInv
  <2>3. ASSUME NEW e \in Engines, PrecheckAlreadyApplied(e)
        PROVE  SafetyInv'
    <3> USE <2>3 DEF PrecheckAlreadyApplied
    <3>1. Ownership'
      BY DEF Ownership, ClaimMatches, Live, Admitted, RecoveryKnowledge,
             OwnerIsDead, InProgress
    <3>2. Evidence'
      BY DEF Evidence, Ownership, ClaimMatches, Admitted
    <3>3. EngineKnowledge'
      BY DEF EngineKnowledge, is_success, Recorded
    <3>4. RecoveryKnowledge'
      BY DEF RecoveryKnowledge, OwnerIsDead, Live, Recorded, InProgress,
             Recovery
    <3>5. LedgerMatchesTarget'
      BY DEF LedgerMatchesTarget, SuccessRows, Succeeded, Recorded,
             EngineKnowledge, RecoveryKnowledge, Ownership, Evidence,
             ClaimMatches, Admitted
    <3>6. WriteAhead'
      BY DEF WriteAhead, Evidence, Ownership, ClaimMatches, Admitted,
             EffectClaimStatus
    <3> QED
      BY <2>0, <3>1, <3>2, <3>3, <3>4, <3>5, <3>6 DEF SafetyInv
  <2>4. ASSUME NEW e \in Engines, PrecheckHalted(e)
        PROVE  SafetyInv'
    <3> USE <2>4 DEF PrecheckHalted
    <3>1. Ownership'
      BY DEF Ownership, ClaimMatches, Live, Admitted, RecoveryKnowledge,
             OwnerIsDead, InProgress
    <3>2. Evidence'
      BY DEF Evidence, Ownership, ClaimMatches, Admitted
    <3>3. EngineKnowledge'
      BY DEF EngineKnowledge, is_success, Recorded
    <3>4. RecoveryKnowledge'
      BY DEF RecoveryKnowledge, OwnerIsDead, Live, Recorded, InProgress,
             Recovery
    <3>5. LedgerMatchesTarget'
      BY DEF LedgerMatchesTarget, SuccessRows, Succeeded, Recorded,
             EngineKnowledge, RecoveryKnowledge, Ownership, Evidence,
             ClaimMatches, Admitted
    <3>6. WriteAhead'
      BY DEF WriteAhead, Evidence, Ownership, ClaimMatches, Admitted,
             EffectClaimStatus
    <3> QED
      BY <2>0, <3>1, <3>2, <3>3, <3>4, <3>5, <3>6 DEF SafetyInv
  <2>5. ASSUME NEW e \in Engines, PrecheckNotApplied(e)
        PROVE  SafetyInv'
    <3> USE <2>5 DEF PrecheckNotApplied
    <3>1. Ownership'
      BY DEF Ownership, ClaimMatches, Live, Admitted, RecoveryKnowledge,
             OwnerIsDead, InProgress
    <3>2. Evidence'
      BY DEF Evidence, Ownership, ClaimMatches, Admitted
    <3>3. EngineKnowledge'
      BY DEF EngineKnowledge, is_success, Recorded
    <3>4. RecoveryKnowledge' /\ LedgerMatchesTarget' /\ WriteAhead'
      BY DEF RecoveryKnowledge, OwnerIsDead, Live, Recorded,
             LedgerMatchesTarget, SuccessRows, WriteAhead, ClaimMatches
    <3> QED
      BY <2>0, <3>1, <3>2, <3>3, <3>4 DEF SafetyInv
  <2>6. ASSUME NEW e \in Engines, StageIntent(e)
        PROVE  SafetyInv'
    <3> USE <2>6 DEF StageIntent
    <3>1. Ownership'
      BY DEF Ownership, ClaimMatches, Live, Admitted, RecoveryKnowledge,
             OwnerIsDead, InProgress
    <3>2. Evidence'
      BY DEF Evidence, Ownership, ClaimMatches, Admitted
    <3>3. EngineKnowledge'
      BY DEF EngineKnowledge, is_success, Recorded
    <3>4. LedgerMatchesTarget'
      BY DEF LedgerMatchesTarget, SuccessRows, Succeeded, Recorded,
             EngineKnowledge, RecoveryKnowledge, Ownership, Evidence,
             ClaimMatches, Admitted
    <3>5. WriteAhead'
      BY DEF WriteAhead, Evidence, Ownership, ClaimMatches, Admitted,
             EffectClaimStatus
    <3>6. RecoveryKnowledge'
      BY DEF RecoveryKnowledge, OwnerIsDead, Live, Recorded
    <3> QED
      BY <2>0, <3>1, <3>2, <3>3, <3>4, <3>5, <3>6 DEF SafetyInv
  <2>7. ASSUME NEW e \in Engines, EnterApplying(e)
        PROVE  SafetyInv'
    <3> USE <2>7 DEF EnterApplying
    <3>1. Ownership'
      BY DEF Ownership, ClaimMatches, Live, Admitted, RecoveryKnowledge,
             OwnerIsDead, InProgress
    <3>2. Evidence'
      BY DEF Evidence, Ownership, ClaimMatches, Admitted
    <3>3. EngineKnowledge'
      BY DEF EngineKnowledge, is_success, Recorded
    <3>4. RecoveryKnowledge'
      BY DEF RecoveryKnowledge, OwnerIsDead, Live, Recorded, InProgress,
             Recovery
    <3>5. LedgerMatchesTarget'
      BY DEF LedgerMatchesTarget, SuccessRows, Succeeded, Recorded,
             EngineKnowledge, RecoveryKnowledge, Ownership, Evidence,
             ClaimMatches, Admitted
    <3>6. WriteAhead'
      BY DEF WriteAhead, Evidence, Ownership, ClaimMatches, Admitted,
             EffectClaimStatus
    <3> QED
      BY <2>0, <3>1, <3>2, <3>3, <3>4, <3>5, <3>6 DEF SafetyInv
  <2>8. ASSUME NEW e \in Engines, EnterApplyingRaises(e)
        PROVE  SafetyInv'
    <3> USE <2>8 DEF EnterApplyingRaises
    <3>1. Ownership'
      BY DEF Ownership, ClaimMatches, Live, Admitted, RecoveryKnowledge,
             OwnerIsDead, InProgress
    <3>2. Evidence'
      BY DEF Evidence, Ownership, ClaimMatches, Admitted
    <3>3. EngineKnowledge'
      BY DEF EngineKnowledge, is_success, Recorded
    <3>4. RecoveryKnowledge' /\ LedgerMatchesTarget' /\ WriteAhead'
      BY DEF RecoveryKnowledge, OwnerIsDead, Live, Recorded,
             LedgerMatchesTarget, SuccessRows, WriteAhead, ClaimMatches
    <3> QED
      BY <2>0, <3>1, <3>2, <3>3, <3>4 DEF SafetyInv
  <2>9. ASSUME NEW e \in Engines, Heartbeat(e)
        PROVE  SafetyInv'
    <3> USE <2>9 DEF Heartbeat
    <3>1. Ownership'
      BY DEF Ownership, ClaimMatches, Live, Admitted, RecoveryKnowledge,
             OwnerIsDead, InProgress
    <3>2. Evidence'
      BY DEF Evidence, Ownership, ClaimMatches, Admitted
    <3>3. EngineKnowledge'
      BY DEF EngineKnowledge, is_success, Recorded
    <3>4. RecoveryKnowledge' /\ LedgerMatchesTarget' /\ WriteAhead'
      BY DEF RecoveryKnowledge, OwnerIsDead, Live, Recorded,
             LedgerMatchesTarget, SuccessRows, WriteAhead, ClaimMatches
    <3> QED
      BY <2>0, <3>1, <3>2, <3>3, <3>4 DEF SafetyInv
  <2>10. ASSUME NEW e \in Engines, HeartbeatFenced(e)
         PROVE  SafetyInv'
    <3> USE <2>10 DEF HeartbeatFenced
    <3>1. Ownership'
      BY DEF Ownership, ClaimMatches, Live, Admitted, RecoveryKnowledge,
             OwnerIsDead, InProgress, Outcome
    <3>2. Evidence'
      BY DEF Evidence, Ownership, ClaimMatches, Admitted, Outcome
    <3>3. EngineKnowledge'
      BY DEF EngineKnowledge, is_success, Recorded, Outcome
    <3>4. RecoveryKnowledge' /\ LedgerMatchesTarget' /\ WriteAhead'
      BY DEF RecoveryKnowledge, OwnerIsDead, Live, Recorded,
             LedgerMatchesTarget, SuccessRows, WriteAhead, ClaimMatches
    <3> QED
      BY <2>0, <3>1, <3>2, <3>3, <3>4 DEF SafetyInv
  <2>11. ASSUME NEW e \in Engines, HaltBeforeSubmit(e)
         PROVE  SafetyInv'
    <3> USE <2>11 DEF HaltBeforeSubmit
    <3>1. Ownership'
      BY DEF Ownership, ClaimMatches, Live, Admitted, RecoveryKnowledge,
             OwnerIsDead, InProgress, HaltsBeforeSubmit, Outcome
    <3>2. Evidence'
      BY DEF Evidence, Ownership, ClaimMatches, Admitted,
             HaltsBeforeSubmit, Outcome
    <3>3. EngineKnowledge'
      BY DEF EngineKnowledge, is_success, Recorded, HaltsBeforeSubmit,
             Outcome
    <3>4. RecoveryKnowledge' /\ LedgerMatchesTarget' /\ WriteAhead'
      BY DEF RecoveryKnowledge, OwnerIsDead, Live, Recorded,
             LedgerMatchesTarget, SuccessRows, WriteAhead, ClaimMatches
    <3> QED
      BY <2>0, <3>1, <3>2, <3>3, <3>4 DEF SafetyInv
  <2>12. ASSUME NEW e \in Engines, Submit(e)
         PROVE  SafetyInv'
    <3> USE <2>12 DEF Submit
    <3>1. Ownership'
      BY DEF Ownership, ClaimMatches, Live, Admitted, RecoveryKnowledge,
             OwnerIsDead, InProgress
    <3>2. Evidence'
      BY DEF Evidence, Ownership, ClaimMatches, Admitted
    <3>3. EngineKnowledge'
      BY DEF EngineKnowledge, is_success, Recorded
    <3>4. WriteAhead'
      BY DEF WriteAhead, Evidence, Ownership, ClaimMatches, Admitted,
             EffectClaimStatus
    <3>5. RecoveryKnowledge' /\ LedgerMatchesTarget'
      BY DEF RecoveryKnowledge, OwnerIsDead, Live, Recorded,
             LedgerMatchesTarget, SuccessRows
    <3> QED
      BY <2>0, <3>1, <3>2, <3>3, <3>4, <3>5 DEF SafetyInv
  <2>13. ASSUME NEW e \in Engines, SubmitReturns(e)
         PROVE  SafetyInv'
    <3> USE <2>13 DEF SubmitReturns
    <3>1. Ownership'
      BY DEF Ownership, ClaimMatches, Live, Admitted, RecoveryKnowledge,
             OwnerIsDead, InProgress
    <3>2. Evidence'
      BY DEF Evidence, Ownership, ClaimMatches, Admitted
    <3>3. EngineKnowledge'
      BY DEF EngineKnowledge, is_success, Recorded
    <3>4. RecoveryKnowledge' /\ LedgerMatchesTarget' /\ WriteAhead'
      BY DEF RecoveryKnowledge, OwnerIsDead, Live, Recorded,
             LedgerMatchesTarget, SuccessRows, WriteAhead, ClaimMatches
    <3> QED
      BY <2>0, <3>1, <3>2, <3>3, <3>4 DEF SafetyInv
  <2>14. ASSUME NEW e \in Engines, SubmitUnauthorized(e)
         PROVE  SafetyInv'
    <3> USE <2>14 DEF SubmitUnauthorized
    <3>1. Ownership'
      BY DEF Ownership, ClaimMatches, Live, Admitted, RecoveryKnowledge,
             OwnerIsDead, InProgress, Outcome
    <3>2. Evidence'
      BY DEF Evidence, Ownership, ClaimMatches, Admitted, Outcome
    <3>3. EngineKnowledge'
      BY DEF EngineKnowledge, is_success, Recorded, Outcome
    <3>4. RecoveryKnowledge' /\ LedgerMatchesTarget' /\ WriteAhead'
      BY DEF RecoveryKnowledge, OwnerIsDead, Live, Recorded,
             LedgerMatchesTarget, SuccessRows, WriteAhead, ClaimMatches
    <3> QED
      BY <2>0, <3>1, <3>2, <3>3, <3>4 DEF SafetyInv
  <2>15. ASSUME NEW e \in Engines, SubmitInterrupted(e)
         PROVE  SafetyInv'
    <3> USE <2>15 DEF SubmitInterrupted
    <3>1. Ownership'
      BY DEF Ownership, ClaimMatches, Live, Admitted, RecoveryKnowledge,
             OwnerIsDead, InProgress
    <3>2. Evidence'
      BY DEF Evidence, Ownership, ClaimMatches, Admitted
    <3>3. EngineKnowledge'
      BY DEF EngineKnowledge, is_success, Recorded
    <3>4. RecoveryKnowledge' /\ LedgerMatchesTarget' /\ WriteAhead'
      BY DEF RecoveryKnowledge, OwnerIsDead, Live, Recorded,
             LedgerMatchesTarget, SuccessRows, WriteAhead, ClaimMatches
    <3> QED
      BY <2>0, <3>1, <3>2, <3>3, <3>4 DEF SafetyInv
  <2>16. ASSUME NEW e \in Engines, PostcheckConfirms(e)
         PROVE  SafetyInv'
    <3> USE <2>16 DEF PostcheckConfirms
    <3>1. Ownership'
      BY DEF Ownership, ClaimMatches, Live, Admitted, RecoveryKnowledge,
             OwnerIsDead, InProgress, Outcome
    <3>2. Evidence'
      BY DEF Evidence, Ownership, ClaimMatches, Admitted, Outcome
    <3>3. EngineKnowledge'
      BY DEF EngineKnowledge, is_success, Recorded, Outcome
    <3>4. RecoveryKnowledge' /\ LedgerMatchesTarget' /\ WriteAhead'
      BY DEF RecoveryKnowledge, OwnerIsDead, Live, Recorded,
             LedgerMatchesTarget, SuccessRows, WriteAhead, ClaimMatches
    <3> QED
      BY <2>0, <3>1, <3>2, <3>3, <3>4 DEF SafetyInv
  <2>17. ASSUME NEW e \in Engines, PostcheckUnconfirmed(e)
         PROVE  SafetyInv'
    <3> USE <2>17 DEF PostcheckUnconfirmed
    <3>1. Ownership'
      BY DEF Ownership, ClaimMatches, Live, Admitted, RecoveryKnowledge,
             OwnerIsDead, InProgress
    <3>2. Evidence'
      BY DEF Evidence, Ownership, ClaimMatches, Admitted
    <3>3. EngineKnowledge'
      BY DEF EngineKnowledge, is_success, Recorded
    <3>4. RecoveryKnowledge' /\ LedgerMatchesTarget' /\ WriteAhead'
      BY DEF RecoveryKnowledge, OwnerIsDead, Live, Recorded,
             LedgerMatchesTarget, SuccessRows, WriteAhead, ClaimMatches
    <3> QED
      BY <2>0, <3>1, <3>2, <3>3, <3>4 DEF SafetyInv
  <2>18. ASSUME NEW e \in Engines, ReconcileConclusive(e)
         PROVE  SafetyInv'
    <3> USE <2>18 DEF ReconcileConclusive
    <3>1. Ownership'
      BY DEF Ownership, ClaimMatches, Live, Admitted, RecoveryKnowledge,
             OwnerIsDead, InProgress, Outcome
    <3>2. Evidence'
      BY DEF Evidence, Ownership, ClaimMatches, Admitted, Outcome
    <3>3. EngineKnowledge'
      BY DEF EngineKnowledge, is_success, Recorded, Outcome
    <3>4. RecoveryKnowledge' /\ LedgerMatchesTarget' /\ WriteAhead'
      BY DEF RecoveryKnowledge, OwnerIsDead, Live, Recorded,
             LedgerMatchesTarget, SuccessRows, WriteAhead, ClaimMatches
    <3> QED
      BY <2>0, <3>1, <3>2, <3>3, <3>4 DEF SafetyInv
  <2>19. ASSUME NEW e \in Engines, ReconcileRetry(e)
         PROVE  SafetyInv'
    <3> USE <2>19 DEF ReconcileRetry
    <3>1. Ownership' /\ Evidence' /\ EngineKnowledge' /\
          RecoveryKnowledge' /\ LedgerMatchesTarget' /\ WriteAhead'
      BY DEF Ownership, ClaimMatches, Live, Evidence, EngineKnowledge,
             Recorded, RecoveryKnowledge, OwnerIsDead,
             LedgerMatchesTarget, SuccessRows, WriteAhead
    <3> QED
      BY <2>0, <3>1 DEF SafetyInv
  <2>20. ASSUME NEW e \in Engines, ReconcileInconclusive(e)
         PROVE  SafetyInv'
    <3> USE <2>20 DEF ReconcileInconclusive
    <3>1. Ownership'
      BY DEF Ownership, ClaimMatches, Live, Admitted, RecoveryKnowledge,
             OwnerIsDead, InProgress, Outcome
    <3>2. Evidence'
      BY DEF Evidence, Ownership, ClaimMatches, Admitted, Outcome
    <3>3. EngineKnowledge'
      BY DEF EngineKnowledge, is_success, Recorded, Outcome
    <3>4. RecoveryKnowledge' /\ LedgerMatchesTarget' /\ WriteAhead'
      BY DEF RecoveryKnowledge, OwnerIsDead, Live, Recorded,
             LedgerMatchesTarget, SuccessRows, WriteAhead, ClaimMatches
    <3> QED
      BY <2>0, <3>1, <3>2, <3>3, <3>4 DEF SafetyInv
  <2>21. ASSUME NEW e \in Engines, Settle(e)
         PROVE  SafetyInv'
    <3> USE <2>21 DEF Settle
    <3>1. Ownership'
      BY DEF Ownership, ClaimMatches, Live, Admitted, RecoveryKnowledge,
             OwnerIsDead, InProgress, settle_claim_status, is_success,
             Outcome, NoOutcome
    <3>2. Evidence'
      BY DEF Evidence, Ownership, ClaimMatches, Admitted,
             settle_claim_status, is_success, Outcome, NoOutcome
    <3>3. EngineKnowledge'
      BY DEF EngineKnowledge, is_success, Recorded, settle_claim_status,
             Outcome, NoOutcome
    <3>4. RecoveryKnowledge'
      BY DEF RecoveryKnowledge, OwnerIsDead, Live, Recorded, InProgress,
             Recovery, settle_claim_status, is_success, Outcome,
             NoOutcome
    <3>5. LedgerMatchesTarget'
      <4>1. SuccessRows = {} /\ recoveryRow = "NONE" /\ intent # "COMMITTED"
        BY DEF LedgerMatchesTarget, Ownership, ClaimMatches, Admitted
      <4>2. \A f \in Engines \ {e} : executions'[f] = executions[f]
        OBVIOUS
      <4>3. CASE is_success(out[e])
        <5>1. claim'.status = "APPLIED" /\ Recorded'
          BY <4>3 DEF settle_claim_status, EngineKnowledge, Recorded
        <5>2. SuccessRows' = {e}
          BY <4>1, <4>2, <4>3 DEF SuccessRows, Succeeded, EngineKnowledge
        <5> QED
          BY <4>1, <5>1, <5>2 DEF LedgerMatchesTarget
      <4>4. CASE ~is_success(out[e])
        <5>1. claim'.status # "APPLIED" /\ intent' = intent
          BY <4>4 DEF settle_claim_status
        <5>2. SuccessRows' = {}
          <6>1. executions'[e] \notin Succeeded
            BY <4>4 DEF Succeeded, EngineKnowledge, ExecutionOutcome, OutcomeCode
          <6> QED
            BY <4>1, <4>2, <6>1 DEF SuccessRows
        <5> QED
          BY <4>1, <5>1, <5>2 DEF LedgerMatchesTarget
      <4> QED
        BY <4>3, <4>4
    <3>6. WriteAhead'
      <4>1. claim'.status \in EffectClaimStatus \ {"CLAIMED"}
        BY DEF settle_claim_status, EffectClaimStatus
      <4>2. executions'[e] # "NONE"
        BY DEF ExecutionOutcome, OutcomeCode
      <4>3. intent # "NONE" => intent' # "NONE"
        OBVIOUS
      <4> QED
        BY <4>1, <4>2, <4>3 DEF WriteAhead, ClaimMatches, Evidence, Ownership
    <3> QED
      BY <2>0, <3>1, <3>2, <3>3, <3>4, <3>5, <3>6 DEF SafetyInv
  <2>22. ASSUME NEW e \in Engines, SettleRaises(e)
         PROVE  SafetyInv'
    <3> USE <2>22 DEF SettleRaises
    <3>1. Ownership'
      BY DEF Ownership, ClaimMatches, Live, Admitted, RecoveryKnowledge,
             OwnerIsDead, InProgress, Outcome, NoOutcome
    <3>2. Evidence'
      BY DEF Evidence, Ownership, ClaimMatches, Admitted, Outcome,
             NoOutcome
    <3>3. EngineKnowledge'
      BY DEF EngineKnowledge, is_success, Recorded, Outcome, NoOutcome
    <3>4. RecoveryKnowledge' /\ LedgerMatchesTarget' /\ WriteAhead'
      BY DEF RecoveryKnowledge, OwnerIsDead, Live, Recorded,
             LedgerMatchesTarget, SuccessRows, WriteAhead, ClaimMatches
    <3> QED
      BY <2>0, <3>1, <3>2, <3>3, <3>4 DEF SafetyInv
  <2>23. ASSUME NEW e \in Engines, TargetApplies(e)
         PROVE  SafetyInv'
    <3> USE <2>23 DEF TargetApplies
    <3>1. Evidence'
      BY DEF Evidence, Ownership, ClaimMatches, Admitted
    <3>2. EngineKnowledge'
      BY DEF EngineKnowledge, is_success, Recorded
    <3>3. RecoveryKnowledge'
      BY DEF RecoveryKnowledge, OwnerIsDead, Live, Recorded, InProgress,
             Recovery
    <3>4. LedgerMatchesTarget'
      BY DEF LedgerMatchesTarget, SuccessRows, Succeeded, Recorded,
             EngineKnowledge, RecoveryKnowledge, Ownership, Evidence,
             ClaimMatches, Admitted
    <3>5. WriteAhead'
      BY DEF WriteAhead, Evidence, Ownership, ClaimMatches, Admitted,
             EffectClaimStatus
    <3>6. Ownership'
      BY DEF Ownership, ClaimMatches, Live
    <3> QED
      BY <2>0, <3>1, <3>2, <3>3, <3>4, <3>5, <3>6 DEF SafetyInv
  <2>24. ASSUME NEW e \in Engines, TargetUnauthorized(e)
         PROVE  SafetyInv'
    <3> USE <2>24 DEF TargetUnauthorized
    <3>1. Evidence'
      BY DEF Evidence, Ownership, ClaimMatches, Admitted
    <3>2. WriteAhead'
      BY DEF WriteAhead, Evidence, Ownership, ClaimMatches, Admitted,
             EffectClaimStatus
    <3>3. Ownership' /\ EngineKnowledge' /\ RecoveryKnowledge' /\
          LedgerMatchesTarget'
      BY DEF Ownership, ClaimMatches, Live, EngineKnowledge, Recorded,
             RecoveryKnowledge, OwnerIsDead, LedgerMatchesTarget,
             SuccessRows
    <3> QED
      BY <2>0, <3>1, <3>2, <3>3 DEF SafetyInv
  <2>25. ASSUME NEW e \in Engines, RequestDropped(e)
         PROVE  SafetyInv'
    <3> USE <2>25 DEF RequestDropped
    <3>1. Evidence'
      BY DEF Evidence, Ownership, ClaimMatches, Admitted
    <3>2. WriteAhead'
      BY DEF WriteAhead, Evidence, Ownership, ClaimMatches, Admitted,
             EffectClaimStatus
    <3>3. Ownership' /\ EngineKnowledge' /\ RecoveryKnowledge' /\
          LedgerMatchesTarget'
      BY DEF Ownership, ClaimMatches, Live, EngineKnowledge, Recorded,
             RecoveryKnowledge, OwnerIsDead, LedgerMatchesTarget,
             SuccessRows
    <3> QED
      BY <2>0, <3>1, <3>2, <3>3 DEF SafetyInv
  <2>26. ASSUME NEW p \in Procs, Crash(p)
         PROVE  SafetyInv'
    <3> USE <2>26 DEF Crash
    <3>1. Ownership'
      BY DEF Ownership, ClaimMatches, Live, Admitted, RecoveryKnowledge,
             OwnerIsDead, InProgress, Outcome, NoOutcome, NoRecovery
    <3>2. Evidence'
      BY DEF Evidence, Ownership, ClaimMatches, Admitted, Outcome,
             NoOutcome, NoRecovery
    <3>3. EngineKnowledge'
      BY DEF EngineKnowledge, is_success, Recorded, Outcome, NoOutcome,
             NoRecovery
    <3>4. RecoveryKnowledge'
      BY DEF RecoveryKnowledge, OwnerIsDead, Live, Recorded, InProgress,
             Recovery, Outcome, NoOutcome, NoRecovery
    <3>5. LedgerMatchesTarget' /\ WriteAhead'
      BY DEF LedgerMatchesTarget, SuccessRows, Recorded, WriteAhead,
             ClaimMatches
    <3> QED
      BY <2>0, <3>1, <3>2, <3>3, <3>4, <3>5 DEF SafetyInv
  <2>27. ASSUME NEW p \in Procs, RecoverScan(p)
         PROVE  SafetyInv'
    <3> USE <2>27 DEF RecoverScan
    <3>1. RecoveryKnowledge'
      BY DEF RecoveryKnowledge, OwnerIsDead, Live, Recorded, InProgress,
             Recovery
    <3>2. Ownership' /\ Evidence' /\ EngineKnowledge' /\
          LedgerMatchesTarget' /\ WriteAhead'
      BY DEF Ownership, ClaimMatches, Live, Evidence, EngineKnowledge,
             Recorded, LedgerMatchesTarget, SuccessRows, WriteAhead
    <3> QED
      BY <2>0, <3>1, <3>2 DEF SafetyInv
  <2>28. ASSUME NEW p \in Procs, RecoverInquire(p)
         PROVE  SafetyInv'
    <3> USE <2>28 DEF RecoverInquire
    <3>1. RecoveryKnowledge'
      BY DEF RecoveryKnowledge, OwnerIsDead, Live, Recorded, InProgress,
             Recovery
    <3>2. Ownership' /\ Evidence' /\ EngineKnowledge' /\
          LedgerMatchesTarget' /\ WriteAhead'
      BY DEF Ownership, ClaimMatches, Live, Evidence, EngineKnowledge,
             Recorded, LedgerMatchesTarget, SuccessRows, WriteAhead
    <3> QED
      BY <2>0, <3>1, <3>2 DEF SafetyInv
  <2>29. ASSUME NEW p \in Procs, RecoverInconclusive(p)
         PROVE  SafetyInv'
    <3> USE <2>29 DEF RecoverInconclusive
    <3>1. RecoveryKnowledge'
      BY DEF RecoveryKnowledge, OwnerIsDead, Live, Recorded, InProgress,
             Recovery, NoRecovery
    <3>2. Ownership' /\ Evidence' /\ EngineKnowledge' /\
          LedgerMatchesTarget' /\ WriteAhead'
      BY DEF Ownership, ClaimMatches, Live, Evidence, EngineKnowledge,
             Recorded, LedgerMatchesTarget, SuccessRows, WriteAhead
    <3> QED
      BY <2>0, <3>1, <3>2 DEF SafetyInv
  <2>30. ASSUME NEW p \in Procs, RecoverApplied(p)
         PROVE  SafetyInv'
    <3> USE <2>30 DEF RecoverApplied
    <3>1. Ownership'
      BY DEF Ownership, ClaimMatches, Live, Admitted, RecoveryKnowledge,
             OwnerIsDead, InProgress, NoRecovery
    <3>2. Evidence'
      BY DEF Evidence, Ownership, ClaimMatches, Admitted, NoRecovery,
             InProgress, OwnerIsDead, Live
    <3>3. RecoveryKnowledge'
      BY DEF RecoveryKnowledge, OwnerIsDead, Live, Recorded, InProgress,
             Recovery, NoRecovery
    <3>4. LedgerMatchesTarget'
      BY DEF LedgerMatchesTarget, SuccessRows, Succeeded, Recorded,
             EngineKnowledge, RecoveryKnowledge, Ownership, Evidence,
             ClaimMatches, Admitted, NoRecovery, InProgress,
             OwnerIsDead, Live
    <3>5. WriteAhead'
      BY DEF WriteAhead, Evidence, Ownership, ClaimMatches, Admitted,
             EffectClaimStatus, NoRecovery, InProgress, OwnerIsDead,
             Live
    <3>6. EngineKnowledge'
      BY DEF EngineKnowledge, Recorded
    <3> QED
      BY <2>0, <3>1, <3>2, <3>3, <3>4, <3>5, <3>6 DEF SafetyInv
  <2>31. ASSUME NEW p \in Procs, RecoverAbsent(p)
         PROVE  SafetyInv'
    <3> USE <2>31 DEF RecoverAbsent
    <3>1. Ownership'
      BY DEF Ownership, ClaimMatches, Live, Admitted, RecoveryKnowledge,
             OwnerIsDead, InProgress, NoRecovery
    <3>2. RecoveryKnowledge'
      BY DEF RecoveryKnowledge, OwnerIsDead, Live, Recorded, InProgress,
             Recovery, NoRecovery
    <3>3. LedgerMatchesTarget'
      BY DEF LedgerMatchesTarget, SuccessRows, Succeeded, Recorded,
             EngineKnowledge, RecoveryKnowledge, Ownership, Evidence,
             ClaimMatches, Admitted, NoRecovery, InProgress,
             OwnerIsDead, Live
    <3>4. WriteAhead'
      BY DEF WriteAhead, Evidence, Ownership, ClaimMatches, Admitted,
             EffectClaimStatus, NoRecovery, InProgress, OwnerIsDead,
             Live
    <3>5. Evidence' /\ EngineKnowledge'
      BY DEF Evidence, EngineKnowledge, Recorded
    <3> QED
      BY <2>0, <3>1, <3>2, <3>3, <3>4, <3>5 DEF SafetyInv
  <2>32. ASSUME NEW p \in Procs, RecoverStale(p)
         PROVE  SafetyInv'
    <3> USE <2>32 DEF RecoverStale
    <3>1. RecoveryKnowledge'
      BY DEF RecoveryKnowledge, OwnerIsDead, Live, Recorded, InProgress,
             Recovery, NoRecovery
    <3>2. Ownership' /\ Evidence' /\ EngineKnowledge' /\
          LedgerMatchesTarget' /\ WriteAhead'
      BY DEF Ownership, ClaimMatches, Live, Evidence, EngineKnowledge,
             Recorded, LedgerMatchesTarget, SuccessRows, WriteAhead
    <3> QED
      BY <2>0, <3>1, <3>2 DEF SafetyInv
  <2>33. ASSUME UNCHANGED <<alive, claim, intent, executions, recoveryRow, locals,
                           target, rec>>
         PROVE  SafetyInv'
    <3> USE <2>33
    <3>1. Ownership' /\ Evidence' /\ EngineKnowledge'
      BY DEF Ownership, ClaimMatches, Live, Evidence, EngineKnowledge, Recorded
    <3>2. RecoveryKnowledge' /\ LedgerMatchesTarget' /\ WriteAhead'
      BY DEF RecoveryKnowledge, OwnerIsDead, Live, Recorded, LedgerMatchesTarget,
             SuccessRows, WriteAhead, ClaimMatches
    <3> QED
      BY <2>0, <3>1, <3>2 DEF SafetyInv
  <2> QED
    BY <2>1, <2>2, <2>3, <2>4, <2>5, <2>6, <2>7, <2>8, <2>9, <2>10, <2>11,
       <2>12, <2>13, <2>14, <2>15, <2>16, <2>17, <2>18, <2>19, <2>20,
       <2>21, <2>22, <2>23, <2>24, <2>25, <2>26, <2>27, <2>28, <2>29,
       <2>30, <2>31, <2>32, <2>33 DEF Next, Proceed, Resolve, Recover,
       RecoverNothing, LeaseExpires, InitiateHandoff, HandleReleaseLease,
       ClaimOperatorLease, vars
<1> QED
  BY <1>1, <1>2, PTL DEF Spec

\* At most one worker is ever between the admission of an effect and its
\* settlement, and it owns the claim: for any number of workers and crashes, and
\* however late the target is.
THEOREM ExclusiveAdmissionHolds == Spec => []ExclusiveAdmission
<1>1. SafetyInv => ExclusiveAdmission
  BY DEF SafetyInv, ExclusiveAdmission, Ownership, ClaimMatches, InProgress, Admitted
<1> QED
  BY <1>1, SafetyInductive, PTL

\* The ledger reports an effect applied only when the target has it, and counts
\* it exactly once.
THEOREM LedgerMatchesTargetHolds == Spec => []LedgerMatchesTarget
<1>1. SafetyInv => LedgerMatchesTarget
  BY DEF SafetyInv
<1> QED
  BY <1>1, SafetyInductive, PTL

\* No commit request exists without durable evidence of it.
THEOREM WriteAheadHolds == Spec => []WriteAhead
<1>1. SafetyInv => WriteAhead
  BY DEF SafetyInv
<1> QED
  BY <1>1, SafetyInductive, PTL

\* The transactions that write the effect_claims row; all others leave it alone
LEMMA ClaimWriters ==
  ASSUME [Next]_vars, claim' # claim
  PROVE  \/ \E e \in Engines :
              \/ ClaimEffect(e) \/ PrecheckAlreadyApplied(e) \/ PrecheckHalted(e)
              \/ EnterApplying(e) \/ Settle(e)
         \/ \E p \in Procs : RecoverApplied(p) \/ RecoverAbsent(p)
  BY DEF Next, Proceed, Resolve, Recover, vars, ledger, ClaimRejected,
         PrecheckNotApplied, StageIntent, EnterApplyingRaises, Heartbeat,
         HeartbeatFenced, HaltBeforeSubmit, Submit, SubmitReturns,
         SubmitUnauthorized, SubmitInterrupted, PostcheckConfirms,
         PostcheckUnconfirmed, ReconcileConclusive, ReconcileRetry,
         ReconcileInconclusive, SettleRaises, TargetApplies, TargetUnauthorized,
         RequestDropped, Crash, RecoverScan, RecoverNothing, RecoverInquire,
         RecoverInconclusive, RecoverStale, LeaseExpires, InitiateHandoff,
         HandleReleaseLease, ClaimOperatorLease

\* Settled claims stay settled, and a claim changes hands only by re-claiming a
\* FAILED_RETRYABLE row under the next fencing token.
THEOREM ClaimDisciplineHolds == Spec => ClaimDiscipline
<1> DEFINE Disciplined ==
       /\ claim.status \in {"APPLIED", "UNCERTAIN", "FAILED_PERMANENT"} =>
            claim' = claim
       /\ claim'.owner # claim.owner =>
            /\ claim.status \in {"ABSENT", "FAILED_RETRYABLE"}
            /\ claim'.token = claim.token + 1
<1>1. TypeOK /\ [Next]_vars => [Disciplined]_claim
  <2> SUFFICES ASSUME TypeOK, [Next]_vars, claim' # claim
               PROVE  Disciplined
    OBVIOUS
  <2> USE DEF TypeOK
  <2>1. ASSUME NEW e \in Engines, ClaimEffect(e)
        PROVE  Disciplined
    BY <2>1 DEF ClaimEffect
  <2>2. ASSUME NEW e \in Engines, PrecheckAlreadyApplied(e)
        PROVE  Disciplined
    BY <2>2 DEF PrecheckAlreadyApplied, ClaimMatches
  <2>3. ASSUME NEW e \in Engines, PrecheckHalted(e)
        PROVE  Disciplined
    BY <2>3 DEF PrecheckHalted, ClaimMatches
  <2>4. ASSUME NEW e \in Engines, EnterApplying(e)
        PROVE  Disciplined
    BY <2>4 DEF EnterApplying, ClaimMatches
  <2>5. ASSUME NEW e \in Engines, Settle(e)
        PROVE  Disciplined
    BY <2>5 DEF Settle, ClaimMatches
  <2>6. ASSUME NEW p \in Procs, RecoverApplied(p) \/ RecoverAbsent(p)
        PROVE  Disciplined
    BY <2>6 DEF RecoverApplied, RecoverAbsent, ClaimMatches, InProgress
  <2> QED
    BY ClaimWriters, <2>1, <2>2, <2>3, <2>4, <2>5, <2>6
<1> QED
  BY <1>1, TypeCorrect, PTL DEF Spec, ClaimDiscipline

-----------------------------------------------------------------------------
(***************************************************************************)
(* What EffectProtocol guarantees when no request is delivered late: one   *)
(* actuation, an effect that is never put up for another attempt, and the  *)
(* refinement of EffectGuarantee.  The run effect_late_retry shows that    *)
(* the assumption Delivery = "prompt" cannot be dropped.                   *)
(***************************************************************************)

\* PromptInv is preserved: an outstanding or applied request always belongs to
\* the claim's current owner, and nobody who declares the effect absent is wrong.
THEOREM PromptInductive ==
  ASSUME Delivery = "prompt"
  PROVE  Spec => []PromptInv
<1>1. Init => PromptInv
  BY EngineAssumption DEF Init, PromptInv, TargetTruth, Recorded, RequestOwned,
     AbsenceKnown, NoRecovery
<1>2. SafetyInv /\ SafetyInv' /\ PromptInv /\ [Next]_vars => PromptInv'
  <2> SUFFICES ASSUME SafetyInv, SafetyInv', PromptInv, [Next]_vars
               PROVE  PromptInv'
    OBVIOUS
  <2> USE EngineAssumption DEF SafetyInv, PromptInv, TypeOK, At, Goto, ledger, locals,
          target
  <2>1. ASSUME NEW e \in Engines, ClaimEffect(e)
        PROVE  PromptInv'
    <3> USE <2>1 DEF ClaimEffect
    <3>1. RequestOwned'
      BY DEF RequestOwned, ClaimMatches, Ownership, Admitted, Evidence
    <3>2. AbsenceKnown'
      BY DEF AbsenceKnown, RequestOwned, ClaimMatches, InProgress,
             Ownership, Live, OwnerIsDead, RecoveryKnowledge,
             settle_claim_status, is_success, TargetTruth, Recorded,
             Recovery, Evidence, Admitted, Answered
    <3>3. TargetTruth'
      BY DEF TargetTruth, Recorded
    <3> QED
      BY <3>1, <3>2, <3>3 DEF PromptInv
  <2>2. ASSUME NEW e \in Engines, ClaimRejected(e)
        PROVE  PromptInv'
    <3> USE <2>2 DEF ClaimRejected
    <3>1. AbsenceKnown'
      BY DEF AbsenceKnown, RequestOwned, ClaimMatches, InProgress,
             Ownership, Live, OwnerIsDead, RecoveryKnowledge,
             settle_claim_status, is_success, TargetTruth, Recorded,
             Recovery, Evidence, Admitted, Answered
    <3>2. TargetTruth' /\ RequestOwned'
      BY DEF TargetTruth, Recorded, RequestOwned, ClaimMatches
    <3> QED
      BY <3>1, <3>2 DEF PromptInv
  <2>3. ASSUME NEW e \in Engines, PrecheckAlreadyApplied(e)
        PROVE  PromptInv'
    <3> USE <2>3 DEF PrecheckAlreadyApplied
    <3>1. RequestOwned'
      BY DEF RequestOwned, ClaimMatches, Ownership, Admitted, Evidence
    <3>2. AbsenceKnown'
      BY DEF AbsenceKnown, RequestOwned, ClaimMatches, InProgress,
             Ownership, Live, OwnerIsDead, RecoveryKnowledge,
             settle_claim_status, is_success, TargetTruth, Recorded,
             Recovery, Evidence, Admitted, Answered
    <3>3. TargetTruth'
      BY DEF TargetTruth, Recorded
    <3> QED
      BY <3>1, <3>2, <3>3 DEF PromptInv
  <2>4. ASSUME NEW e \in Engines, PrecheckHalted(e)
        PROVE  PromptInv'
    <3> USE <2>4 DEF PrecheckHalted
    <3>1. RequestOwned'
      BY DEF RequestOwned, ClaimMatches, Ownership, Admitted, Evidence
    <3>2. AbsenceKnown'
      BY DEF AbsenceKnown, RequestOwned, ClaimMatches, InProgress,
             Ownership, Live, OwnerIsDead, RecoveryKnowledge,
             settle_claim_status, is_success, TargetTruth, Recorded,
             Recovery, Evidence, Admitted, Answered
    <3>3. TargetTruth'
      BY DEF TargetTruth, Recorded
    <3> QED
      BY <3>1, <3>2, <3>3 DEF PromptInv
  <2>5. ASSUME NEW e \in Engines, PrecheckNotApplied(e)
        PROVE  PromptInv'
    <3> USE <2>5 DEF PrecheckNotApplied
    <3>1. AbsenceKnown'
      BY DEF AbsenceKnown, RequestOwned, ClaimMatches, InProgress,
             Ownership, Live, OwnerIsDead, RecoveryKnowledge,
             settle_claim_status, is_success, TargetTruth, Recorded,
             Recovery, Evidence, Admitted, Answered
    <3>2. TargetTruth' /\ RequestOwned'
      BY DEF TargetTruth, Recorded, RequestOwned, ClaimMatches
    <3> QED
      BY <3>1, <3>2 DEF PromptInv
  <2>6. ASSUME NEW e \in Engines, StageIntent(e)
        PROVE  PromptInv'
    <3> USE <2>6 DEF StageIntent
    <3>1. AbsenceKnown'
      BY DEF AbsenceKnown, RequestOwned, ClaimMatches, InProgress,
             Ownership, Live, OwnerIsDead, RecoveryKnowledge,
             settle_claim_status, is_success, TargetTruth, Recorded,
             Recovery, Evidence, Admitted, Answered
    <3>2. TargetTruth' /\ RequestOwned'
      BY DEF TargetTruth, Recorded, RequestOwned, ClaimMatches
    <3> QED
      BY <3>1, <3>2 DEF PromptInv
  <2>7. ASSUME NEW e \in Engines, EnterApplying(e)
        PROVE  PromptInv'
    <3> USE <2>7 DEF EnterApplying
    <3>1. RequestOwned'
      BY DEF RequestOwned, ClaimMatches, Ownership, Admitted, Evidence
    <3>2. AbsenceKnown'
      BY DEF AbsenceKnown, RequestOwned, ClaimMatches, InProgress,
             Ownership, Live, OwnerIsDead, RecoveryKnowledge,
             settle_claim_status, is_success, TargetTruth, Recorded,
             Recovery, Evidence, Admitted, Answered
    <3>3. TargetTruth'
      BY DEF TargetTruth, Recorded
    <3> QED
      BY <3>1, <3>2, <3>3 DEF PromptInv
  <2>8. ASSUME NEW e \in Engines, EnterApplyingRaises(e)
        PROVE  PromptInv'
    <3> USE <2>8 DEF EnterApplyingRaises
    <3>1. AbsenceKnown'
      BY DEF AbsenceKnown, RequestOwned, ClaimMatches, InProgress,
             Ownership, Live, OwnerIsDead, RecoveryKnowledge,
             settle_claim_status, is_success, TargetTruth, Recorded,
             Recovery, Evidence, Admitted, Answered
    <3>2. TargetTruth' /\ RequestOwned'
      BY DEF TargetTruth, Recorded, RequestOwned, ClaimMatches
    <3> QED
      BY <3>1, <3>2 DEF PromptInv
  <2>9. ASSUME NEW e \in Engines, Heartbeat(e)
        PROVE  PromptInv'
    <3> USE <2>9 DEF Heartbeat
    <3>1. AbsenceKnown'
      BY DEF AbsenceKnown, RequestOwned, ClaimMatches, InProgress,
             Ownership, Live, OwnerIsDead, RecoveryKnowledge,
             settle_claim_status, is_success, TargetTruth, Recorded,
             Recovery, Evidence, Admitted, Answered
    <3>2. TargetTruth' /\ RequestOwned'
      BY DEF TargetTruth, Recorded, RequestOwned, ClaimMatches
    <3> QED
      BY <3>1, <3>2 DEF PromptInv
  <2>10. ASSUME NEW e \in Engines, HeartbeatFenced(e)
         PROVE  PromptInv'
    <3> USE <2>10 DEF HeartbeatFenced
    <3>1. AbsenceKnown'
      BY DEF AbsenceKnown, RequestOwned, ClaimMatches, InProgress,
             Ownership, Live, OwnerIsDead, RecoveryKnowledge,
             settle_claim_status, is_success, TargetTruth, Recorded,
             Recovery, Evidence, Admitted, Answered, Outcome
    <3>2. TargetTruth' /\ RequestOwned'
      BY DEF TargetTruth, Recorded, RequestOwned, ClaimMatches
    <3> QED
      BY <3>1, <3>2 DEF PromptInv
  <2>11. ASSUME NEW e \in Engines, HaltBeforeSubmit(e)
         PROVE  PromptInv'
    <3> USE <2>11 DEF HaltBeforeSubmit
    <3>1. AbsenceKnown'
      BY DEF AbsenceKnown, RequestOwned, ClaimMatches, InProgress,
             Ownership, Live, OwnerIsDead, RecoveryKnowledge,
             settle_claim_status, is_success, TargetTruth, Recorded,
             Recovery, Evidence, Admitted, Answered, HaltsBeforeSubmit,
             Outcome
    <3>2. TargetTruth' /\ RequestOwned'
      BY DEF TargetTruth, Recorded, RequestOwned, ClaimMatches
    <3> QED
      BY <3>1, <3>2 DEF PromptInv
  <2>12. ASSUME NEW e \in Engines, Submit(e)
         PROVE  PromptInv'
    <3> USE <2>12 DEF Submit
    <3>1. TargetTruth'
      BY DEF TargetTruth, Recorded, Evidence
    <3>2. RequestOwned'
      BY DEF RequestOwned, ClaimMatches, Ownership, Admitted, Evidence
    <3>3. AbsenceKnown'
      BY DEF AbsenceKnown, RequestOwned, ClaimMatches, InProgress,
             Ownership, Live, OwnerIsDead, RecoveryKnowledge,
             settle_claim_status, is_success, TargetTruth, Recorded,
             Recovery, Evidence, Admitted, Answered
    <3> QED
      BY <3>1, <3>2, <3>3 DEF PromptInv
  <2>13. ASSUME NEW e \in Engines, SubmitReturns(e)
         PROVE  PromptInv'
    <3> USE <2>13 DEF SubmitReturns
    <3>1. AbsenceKnown'
      BY DEF AbsenceKnown, RequestOwned, ClaimMatches, InProgress,
             Ownership, Live, OwnerIsDead, RecoveryKnowledge,
             settle_claim_status, is_success, TargetTruth, Recorded,
             Recovery, Evidence, Admitted, Answered
    <3>2. TargetTruth' /\ RequestOwned'
      BY DEF TargetTruth, Recorded, RequestOwned, ClaimMatches
    <3> QED
      BY <3>1, <3>2 DEF PromptInv
  <2>14. ASSUME NEW e \in Engines, SubmitUnauthorized(e)
         PROVE  PromptInv'
    <3> USE <2>14 DEF SubmitUnauthorized
    <3>1. AbsenceKnown'
      BY DEF AbsenceKnown, RequestOwned, ClaimMatches, InProgress,
             Ownership, Live, OwnerIsDead, RecoveryKnowledge,
             settle_claim_status, is_success, TargetTruth, Recorded,
             Recovery, Evidence, Admitted, Answered, Outcome
    <3>2. TargetTruth' /\ RequestOwned'
      BY DEF TargetTruth, Recorded, RequestOwned, ClaimMatches
    <3> QED
      BY <3>1, <3>2 DEF PromptInv
  <2>15. ASSUME NEW e \in Engines, SubmitInterrupted(e)
         PROVE  PromptInv'
    <3> USE <2>15 DEF SubmitInterrupted
    <3>1. AbsenceKnown'
      BY DEF AbsenceKnown, RequestOwned, ClaimMatches, InProgress,
             Ownership, Live, OwnerIsDead, RecoveryKnowledge,
             settle_claim_status, is_success, TargetTruth, Recorded,
             Recovery, Evidence, Admitted, Answered
    <3>2. TargetTruth' /\ RequestOwned'
      BY DEF TargetTruth, Recorded, RequestOwned, ClaimMatches
    <3> QED
      BY <3>1, <3>2 DEF PromptInv
  <2>16. ASSUME NEW e \in Engines, PostcheckConfirms(e)
         PROVE  PromptInv'
    <3> USE <2>16 DEF PostcheckConfirms
    <3>1. AbsenceKnown'
      BY DEF AbsenceKnown, RequestOwned, ClaimMatches, InProgress,
             Ownership, Live, OwnerIsDead, RecoveryKnowledge,
             settle_claim_status, is_success, TargetTruth, Recorded,
             Recovery, Evidence, Admitted, Answered, Outcome
    <3>2. TargetTruth' /\ RequestOwned'
      BY DEF TargetTruth, Recorded, RequestOwned, ClaimMatches
    <3> QED
      BY <3>1, <3>2 DEF PromptInv
  <2>17. ASSUME NEW e \in Engines, PostcheckUnconfirmed(e)
         PROVE  PromptInv'
    <3> USE <2>17 DEF PostcheckUnconfirmed
    <3>1. AbsenceKnown'
      BY DEF AbsenceKnown, RequestOwned, ClaimMatches, InProgress,
             Ownership, Live, OwnerIsDead, RecoveryKnowledge,
             settle_claim_status, is_success, TargetTruth, Recorded,
             Recovery, Evidence, Admitted, Answered
    <3>2. TargetTruth' /\ RequestOwned'
      BY DEF TargetTruth, Recorded, RequestOwned, ClaimMatches
    <3> QED
      BY <3>1, <3>2 DEF PromptInv
  <2>18. ASSUME NEW e \in Engines, ReconcileConclusive(e)
         PROVE  PromptInv'
    <3> USE <2>18 DEF ReconcileConclusive
    <3>1. AbsenceKnown'
      BY DEF AbsenceKnown, RequestOwned, ClaimMatches, InProgress,
             Ownership, Live, OwnerIsDead, RecoveryKnowledge,
             settle_claim_status, is_success, TargetTruth, Recorded,
             Recovery, Evidence, Admitted, Answered, Outcome
    <3>2. TargetTruth' /\ RequestOwned'
      BY DEF TargetTruth, Recorded, RequestOwned, ClaimMatches
    <3> QED
      BY <3>1, <3>2 DEF PromptInv
  <2>19. ASSUME NEW e \in Engines, ReconcileRetry(e)
         PROVE  PromptInv'
    <3> USE <2>19 DEF ReconcileRetry
    <3>1. TargetTruth' /\ RequestOwned' /\ AbsenceKnown'
      BY DEF TargetTruth, Recorded, RequestOwned, ClaimMatches,
             AbsenceKnown
    <3> QED
      BY <3>1 DEF PromptInv
  <2>20. ASSUME NEW e \in Engines, ReconcileInconclusive(e)
         PROVE  PromptInv'
    <3> USE <2>20 DEF ReconcileInconclusive
    <3>1. AbsenceKnown'
      BY DEF AbsenceKnown, RequestOwned, ClaimMatches, InProgress,
             Ownership, Live, OwnerIsDead, RecoveryKnowledge,
             settle_claim_status, is_success, TargetTruth, Recorded,
             Recovery, Evidence, Admitted, Answered, Outcome
    <3>2. TargetTruth' /\ RequestOwned'
      BY DEF TargetTruth, Recorded, RequestOwned, ClaimMatches
    <3> QED
      BY <3>1, <3>2 DEF PromptInv
  <2>21. ASSUME NEW e \in Engines, Settle(e)
         PROVE  PromptInv'
    <3> USE <2>21 DEF Settle
    <3>1. RequestOwned'
      <4>1. \A f \in Engines \ {e} : req[f] \notin {"wire", "applied"}
        BY DEF RequestOwned, ClaimMatches
      <4>2. CASE is_success(out[e])
        <5>1. req[e] # "wire"
          BY <4>1, <4>2 DEF EngineKnowledge, TargetTruth
        <5> QED
          BY <4>1, <4>2, <5>1 DEF RequestOwned, settle_claim_status, ClaimMatches
      <4>3. CASE ~is_success(out[e])
        <5>1. req[e] \in {"wire", "applied"} =>
                settle_claim_status(out[e]) = "UNCERTAIN"
          BY <4>3 DEF AbsenceKnown, settle_claim_status
        <5> QED
          BY <4>1, <5>1 DEF RequestOwned, ClaimMatches
      <4> QED
        BY <4>2, <4>3
    <3>2. AbsenceKnown'
      BY DEF AbsenceKnown, RequestOwned, ClaimMatches, InProgress,
             Ownership, Live, OwnerIsDead, RecoveryKnowledge,
             settle_claim_status, is_success, TargetTruth, Recorded,
             Recovery, Evidence, Admitted, Answered, Outcome, NoOutcome
    <3>3. TargetTruth'
      BY DEF TargetTruth, Recorded
    <3> QED
      BY <3>1, <3>2, <3>3 DEF PromptInv
  <2>22. ASSUME NEW e \in Engines, SettleRaises(e)
         PROVE  PromptInv'
    <3> USE <2>22 DEF SettleRaises
    <3>1. AbsenceKnown'
      BY DEF AbsenceKnown, RequestOwned, ClaimMatches, InProgress,
             Ownership, Live, OwnerIsDead, RecoveryKnowledge,
             settle_claim_status, is_success, TargetTruth, Recorded,
             Recovery, Evidence, Admitted, Answered, Outcome, NoOutcome
    <3>2. TargetTruth' /\ RequestOwned'
      BY DEF TargetTruth, Recorded, RequestOwned, ClaimMatches
    <3> QED
      BY <3>1, <3>2 DEF PromptInv
  <2>23. ASSUME NEW e \in Engines, TargetApplies(e)
         PROVE  PromptInv'
    <3> USE <2>23 DEF TargetApplies
    <3>1. TargetTruth'
      BY DEF TargetTruth, Recorded
    <3>2. RequestOwned'
      BY DEF RequestOwned, ClaimMatches, Ownership, Admitted, Evidence
    <3>3. AbsenceKnown'
      BY DEF AbsenceKnown, RequestOwned, ClaimMatches, InProgress,
             Ownership, Live, OwnerIsDead, RecoveryKnowledge,
             settle_claim_status, is_success, TargetTruth, Recorded,
             Recovery, Evidence, Admitted, Answered
    <3> QED
      BY <3>1, <3>2, <3>3 DEF PromptInv
  <2>24. ASSUME NEW e \in Engines, TargetUnauthorized(e)
         PROVE  PromptInv'
    <3> USE <2>24 DEF TargetUnauthorized
    <3>1. TargetTruth'
      BY DEF TargetTruth, Recorded
    <3>2. RequestOwned'
      BY DEF RequestOwned, ClaimMatches, Ownership, Admitted, Evidence
    <3>3. AbsenceKnown'
      BY DEF AbsenceKnown, RequestOwned, ClaimMatches, InProgress,
             Ownership, Live, OwnerIsDead, RecoveryKnowledge,
             settle_claim_status, is_success, TargetTruth, Recorded,
             Recovery, Evidence, Admitted, Answered
    <3> QED
      BY <3>1, <3>2, <3>3 DEF PromptInv
  <2>25. ASSUME NEW e \in Engines, RequestDropped(e)
         PROVE  PromptInv'
    <3> USE <2>25 DEF RequestDropped
    <3>1. TargetTruth'
      BY DEF TargetTruth, Recorded
    <3>2. RequestOwned'
      BY DEF RequestOwned, ClaimMatches, Ownership, Admitted, Evidence
    <3>3. AbsenceKnown'
      BY DEF AbsenceKnown, RequestOwned, ClaimMatches, InProgress,
             Ownership, Live, OwnerIsDead, RecoveryKnowledge,
             settle_claim_status, is_success, TargetTruth, Recorded,
             Recovery, Evidence, Admitted, Answered
    <3> QED
      BY <3>1, <3>2, <3>3 DEF PromptInv
  <2>26. ASSUME NEW p \in Procs, Crash(p)
         PROVE  PromptInv'
    <3> USE <2>26 DEF Crash
    <3>1. AbsenceKnown'
      BY DEF AbsenceKnown, RequestOwned, ClaimMatches, InProgress,
             Ownership, Live, OwnerIsDead, RecoveryKnowledge,
             settle_claim_status, is_success, TargetTruth, Recorded,
             Recovery, Evidence, Admitted, Answered, Outcome, NoOutcome,
             NoRecovery
    <3>2. TargetTruth' /\ RequestOwned'
      BY DEF TargetTruth, Recorded, RequestOwned, ClaimMatches
    <3> QED
      BY <3>1, <3>2 DEF PromptInv
  <2>27. ASSUME NEW p \in Procs, RecoverScan(p)
         PROVE  PromptInv'
    <3> USE <2>27 DEF RecoverScan
    <3>1. AbsenceKnown'
      BY DEF AbsenceKnown, RequestOwned, ClaimMatches, InProgress,
             Ownership, Live, OwnerIsDead, RecoveryKnowledge,
             settle_claim_status, is_success, TargetTruth, Recorded,
             Recovery, Evidence, Admitted, Answered
    <3>2. TargetTruth' /\ RequestOwned'
      BY DEF TargetTruth, Recorded, RequestOwned, ClaimMatches
    <3> QED
      BY <3>1, <3>2 DEF PromptInv
  <2>28. ASSUME NEW p \in Procs, RecoverInquire(p)
         PROVE  PromptInv'
    <3> USE <2>28 DEF RecoverInquire
    <3>1. AbsenceKnown'
      BY DEF AbsenceKnown, RequestOwned, ClaimMatches, InProgress,
             Ownership, Live, OwnerIsDead, RecoveryKnowledge,
             settle_claim_status, is_success, TargetTruth, Recorded,
             Recovery, Evidence, Admitted, Answered
    <3>2. TargetTruth' /\ RequestOwned'
      BY DEF TargetTruth, Recorded, RequestOwned, ClaimMatches
    <3> QED
      BY <3>1, <3>2 DEF PromptInv
  <2>29. ASSUME NEW p \in Procs, RecoverInconclusive(p)
         PROVE  PromptInv'
    <3> USE <2>29 DEF RecoverInconclusive
    <3>1. AbsenceKnown'
      BY DEF AbsenceKnown, RequestOwned, ClaimMatches, InProgress,
             Ownership, Live, OwnerIsDead, RecoveryKnowledge,
             settle_claim_status, is_success, TargetTruth, Recorded,
             Recovery, Evidence, Admitted, Answered, NoRecovery
    <3>2. TargetTruth' /\ RequestOwned'
      BY DEF TargetTruth, Recorded, RequestOwned, ClaimMatches
    <3> QED
      BY <3>1, <3>2 DEF PromptInv
  <2>30. ASSUME NEW p \in Procs, RecoverApplied(p)
         PROVE  PromptInv'
    <3> USE <2>30 DEF RecoverApplied
    <3>1. RequestOwned'
      BY DEF RequestOwned, TargetTruth, ClaimMatches, InProgress,
             RecoveryKnowledge
    <3>2. AbsenceKnown'
      BY DEF AbsenceKnown, RequestOwned, ClaimMatches, InProgress,
             Ownership, Live, OwnerIsDead, RecoveryKnowledge,
             settle_claim_status, is_success, TargetTruth, Recorded,
             Recovery, Evidence, Admitted, Answered, NoRecovery
    <3>3. TargetTruth'
      BY DEF TargetTruth, Recorded
    <3> QED
      BY <3>1, <3>2, <3>3 DEF PromptInv
  <2>31. ASSUME NEW p \in Procs, RecoverAbsent(p)
         PROVE  PromptInv'
    <3> USE <2>31 DEF RecoverAbsent
    <3>1. RequestOwned'
      BY DEF RequestOwned, AbsenceKnown, ClaimMatches, InProgress
    <3>2. AbsenceKnown'
      BY DEF AbsenceKnown, RequestOwned, ClaimMatches, InProgress,
             Ownership, Live, OwnerIsDead, RecoveryKnowledge,
             settle_claim_status, is_success, TargetTruth, Recorded,
             Recovery, Evidence, Admitted, Answered, NoRecovery
    <3>3. TargetTruth'
      BY DEF TargetTruth, Recorded
    <3> QED
      BY <3>1, <3>2, <3>3 DEF PromptInv
  <2>32. ASSUME NEW p \in Procs, RecoverStale(p)
         PROVE  PromptInv'
    <3> USE <2>32 DEF RecoverStale
    <3>1. AbsenceKnown'
      BY DEF AbsenceKnown, RequestOwned, ClaimMatches, InProgress,
             Ownership, Live, OwnerIsDead, RecoveryKnowledge,
             settle_claim_status, is_success, TargetTruth, Recorded,
             Recovery, Evidence, Admitted, Answered, NoRecovery
    <3>2. TargetTruth' /\ RequestOwned'
      BY DEF TargetTruth, Recorded, RequestOwned, ClaimMatches
    <3> QED
      BY <3>1, <3>2 DEF PromptInv
  <2>33. ASSUME UNCHANGED <<alive, claim, intent, executions, recoveryRow, locals,
                           target, rec>>
         PROVE  PromptInv'
    BY <2>33 DEF PromptInv, TargetTruth, Recorded, RequestOwned, ClaimMatches, AbsenceKnown
  <2> QED
    BY <2>1, <2>2, <2>3, <2>4, <2>5, <2>6, <2>7, <2>8, <2>9, <2>10, <2>11,
       <2>12, <2>13, <2>14, <2>15, <2>16, <2>17, <2>18, <2>19, <2>20,
       <2>21, <2>22, <2>23, <2>24, <2>25, <2>26, <2>27, <2>28, <2>29,
       <2>30, <2>31, <2>32, <2>33 DEF Next, Proceed, Resolve, Recover,
       RecoverNothing, LeaseExpires, InitiateHandoff, HandleReleaseLease,
       ClaimOperatorLease, vars
<1> QED
  BY <1>1, <1>2, SafetyInductive, PTL DEF Spec

\* No two commit requests for the effect are ever outstanding or applied.
THEOREM SingleActuationHolds ==
  ASSUME Delivery = "prompt"
  PROVE  Spec => []SingleActuation
<1>1. SafetyInv /\ PromptInv => SingleActuation
  BY DEF SafetyInv, TypeOK, PromptInv, SingleActuation, RequestOwned, ClaimMatches
<1> QED
  BY <1>1, SafetyInductive, PromptInductive, PTL

\* An effect the target holds is never up for another attempt nor written off,
\* by the engine's settlement or a recovery.
THEOREM EffectIsFencedHolds ==
  ASSUME Delivery = "prompt"
  PROVE  Spec => []EffectIsFenced
<1>1. SafetyInv /\ PromptInv => EffectIsFenced
  BY DEF SafetyInv, TypeOK, PromptInv, EffectIsFenced, RequestOwned, ClaimMatches,
         TargetTruth
<1> QED
  BY <1>1, SafetyInductive, PromptInductive, PTL

\* The phases of EffectGuarantee that the claim's statuses stand for
LEMMA PhaseOfStatus ==
  ASSUME TypeOK
  PROVE  /\ claim.status \in {"ABSENT", "FAILED_RETRYABLE"} => GuaranteePhase = "open"
         /\ claim.status \in InProgress => GuaranteePhase = "held"
         /\ claim.status = "APPLIED" => GuaranteePhase = "confirmed"
         /\ claim.status = "UNCERTAIN" => GuaranteePhase = "parked"
         /\ claim.status = "FAILED_PERMANENT" => GuaranteePhase = "closed"
  BY DEF TypeOK, GuaranteePhase, InProgress

\* Only the target's acceptance of a request adds an attempt that happened
LEMMA EffectWriters ==
  ASSUME SafetyInv, [Next]_vars, Applied' # Applied
  PROVE  \E e \in Engines : TargetApplies(e)
<1> SUFFICES ASSUME \A e \in Engines : ~TargetApplies(e) PROVE FALSE
  OBVIOUS
<1>1. \A e \in Engines : req'[e] = "applied" <=> req[e] = "applied"
  BY DEF SafetyInv, TypeOK, Evidence, At, Next, Proceed, Resolve, Recover, vars,
         ledger, locals, target, ClaimEffect, ClaimRejected, PrecheckAlreadyApplied,
         PrecheckHalted, PrecheckNotApplied, StageIntent, EnterApplying,
         EnterApplyingRaises, Heartbeat, HeartbeatFenced, HaltBeforeSubmit, Submit,
         SubmitReturns, SubmitUnauthorized, SubmitInterrupted, PostcheckConfirms,
         PostcheckUnconfirmed, ReconcileConclusive, ReconcileRetry,
         ReconcileInconclusive, Settle, SettleRaises, TargetUnauthorized,
         RequestDropped, Crash, RecoverScan, RecoverNothing, RecoverInquire,
         RecoverInconclusive, RecoverApplied, RecoverAbsent, RecoverStale,
         LeaseExpires, InitiateHandoff, HandleReleaseLease, ClaimOperatorLease
<1> QED
  BY <1>1 DEF Applied

\* The detailed protocol implements EffectGuarantee: the effect happens at most
\* once, only under a held or parked attempt, and an attempt is given up for
\* another one only if its effect has not happened.
THEOREM Refinement ==
  ASSUME Delivery = "prompt"
  PROVE  Spec => ImplementsGuarantee
<1>1. Init => Guarantee!Init
  BY TypeInit, PhaseOfStatus DEF Init, Guarantee!Init, Applied
<1>2. SafetyInv /\ SafetyInv' /\ PromptInv /\ [Next]_vars
        => [Guarantee!Next]_<<GuaranteePhase, Applied>>
  <2> SUFFICES ASSUME SafetyInv, SafetyInv', PromptInv, [Next]_vars
               PROVE  [Guarantee!Next]_<<GuaranteePhase, Applied>>
    OBVIOUS
  <2> USE DEF SafetyInv, PromptInv, TypeOK
  <2>1. ASSUME NEW e \in Engines, ClaimEffect(e)
        PROVE  Guarantee!Admit
    BY <2>1 DEF ClaimEffect, Guarantee!Admit, GuaranteePhase, InProgress, Applied, target
  <2>2. ASSUME NEW e \in Engines, TargetApplies(e)
        PROVE  Guarantee!Happen
    <3> USE <2>2 DEF TargetApplies
    <3>1. Applied = {}
      BY DEF Applied, RequestOwned, ClaimMatches
    <3>2. Applied' = {e}
      BY <3>1 DEF Applied
    <3>3. GuaranteePhase \in {"held", "parked"} /\ UNCHANGED GuaranteePhase
      BY DEF GuaranteePhase, InProgress, RequestOwned, ClaimMatches, ledger
    <3> QED
      BY <3>1, <3>2, <3>3 DEF Guarantee!Happen
  <2>3. ASSUME NEW e \in Engines, PrecheckHalted(e)
        PROVE  Guarantee!GiveUp
    <3> USE <2>3 DEF PrecheckHalted, At, target
    <3>1. claim.status = "CLAIMED" /\ claim'.status = "FAILED_RETRYABLE"
      BY DEF Ownership, ClaimMatches
    <3>2. Applied = {} /\ UNCHANGED Applied
      BY <3>1 DEF Applied, RequestOwned, ClaimMatches
    <3> QED
      BY <3>1, <3>2 DEF Guarantee!GiveUp, GuaranteePhase, InProgress
  <2>4. ASSUME NEW e \in Engines, EnterApplying(e)
        PROVE  UNCHANGED <<GuaranteePhase, Applied>>
    BY <2>4 DEF EnterApplying, ClaimMatches, GuaranteePhase, InProgress, Applied, target
  <2>5. ASSUME NEW e \in Engines, PrecheckAlreadyApplied(e)
        PROVE  FALSE
    BY <2>5 DEF PrecheckAlreadyApplied, At, Ownership, TargetTruth, RequestOwned,
                ClaimMatches
  <2>6. ASSUME NEW e \in Engines, Settle(e)
        PROVE  Guarantee!Next
    <3> USE <2>6 DEF Settle, At, target
    <3>1. GuaranteePhase = "held" /\ UNCHANGED Applied
      BY DEF ClaimMatches, GuaranteePhase, InProgress, Applied
    <3>2. CASE settle_claim_status(out[e]) = "APPLIED"
      <4>1. Applied # {}
        BY <3>2 DEF settle_claim_status, EngineKnowledge, TargetTruth, Applied
      <4>2. GuaranteePhase' = "confirmed"
        BY <3>2 DEF GuaranteePhase, InProgress
      <4> QED
        BY <3>1, <4>1, <4>2 DEF Guarantee!Next, Guarantee!Confirm
    <3>3. CASE settle_claim_status(out[e]) = "UNCERTAIN"
      <4>1. GuaranteePhase' = "parked"
        BY <3>3 DEF GuaranteePhase, InProgress
      <4> QED
        BY <3>1, <4>1 DEF Guarantee!Next, Guarantee!Park
    <3>4. CASE settle_claim_status(out[e]) \in {"FAILED_RETRYABLE", "FAILED_PERMANENT"}
      <4>1. Applied = {}
        BY <3>4 DEF AbsenceKnown, RequestOwned, ClaimMatches, Applied
      <4>2. GuaranteePhase' \in {"open", "closed"}
        BY <3>4 DEF GuaranteePhase, InProgress
      <4> QED
        BY <3>1, <4>1, <4>2 DEF Guarantee!Next, Guarantee!GiveUp
    <3> QED
      BY <3>2, <3>3, <3>4 DEF settle_claim_status
  <2>7. ASSUME NEW p \in Procs, RecoverApplied(p)
        PROVE  Guarantee!Confirm
    <3> USE <2>7 DEF RecoverApplied, target
    <3>1. Applied # {} /\ UNCHANGED Applied
      BY DEF RecoveryKnowledge, TargetTruth, Applied
    <3>2. GuaranteePhase = "held" /\ GuaranteePhase' = "confirmed"
      BY DEF ClaimMatches, GuaranteePhase, InProgress
    <3> QED
      BY <3>1, <3>2 DEF Guarantee!Confirm
  <2>8. ASSUME NEW p \in Procs, RecoverAbsent(p)
        PROVE  Guarantee!GiveUp
    <3> USE <2>8 DEF RecoverAbsent, target
    <3>1. Applied = {} /\ UNCHANGED Applied
      BY DEF AbsenceKnown, RequestOwned, ClaimMatches, Applied, InProgress
    <3>2. GuaranteePhase = "held" /\ GuaranteePhase' = "open"
      BY DEF ClaimMatches, GuaranteePhase, InProgress
    <3> QED
      BY <3>1, <3>2 DEF Guarantee!GiveUp
  <2>9. CASE claim' = claim /\ Applied' = Applied
    BY <2>9 DEF GuaranteePhase
  <2> QED
    BY ClaimWriters, EffectWriters, <2>1, <2>2, <2>3, <2>4, <2>5, <2>6, <2>7, <2>8, <2>9
       DEF Guarantee!Next
<1> QED
  BY <1>1, <1>2, SafetyInductive, PromptInductive, PTL
     DEF Spec, ImplementsGuarantee, Guarantee!Spec
=============================================================================

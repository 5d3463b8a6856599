----------------------- MODULE CaseProjectionsProofs -----------------------
(***************************************************************************)
(* What rebuild_case recovers, for any number of sessions, executions,     *)
(* claims, deadlines and re-claims, and that the record that money moved   *)
(* is never taken back.                                                    *)
(***************************************************************************)
EXTENDS CaseProjections, TLAPS

\* The tables' types, each branch of rebuild_case, and record_event
LEMMA InitType == Init => TypeOK
  <1>1. NoRow \in CaseRow
    BY DEF NoRow, CaseRow, CaseStatus
  <1>2. [status |-> "NONE", owner |-> NoSession, token |-> 0] \in Claim
    BY ProjectionAssumption DEF Claim, ClaimStatus
  <1>3. NoProjections \in Projections
    BY <1>1, <1>2 DEF NoProjections, Projections, ExecutionStatus, DeadlineStatus,
       ObligationStatus
  <1> QED
    BY <1>1, <1>3 DEF Init, TypeOK

\* Each branch of rebuild_case, and each call of the repository, replaces one
\* of the tables' values by one of its type.
LEMMA PutType ==
    ASSUME NEW p \in Projections
    PROVE  /\ \A c \in CaseRow : [p EXCEPT !.case = c] \in Projections
           /\ \A x \in Executions, o \in ExecutionStatus :
                 [p EXCEPT !.execution = [@ EXCEPT ![x] = o]] \in Projections
           /\ \A k \in Keys, i \in {"NONE", "STAGED", "COMMITTED"} :
                 [p EXCEPT !.intent = [@ EXCEPT ![k] = i]] \in Projections
           /\ \A k \in Keys, c \in Claim :
                 [p EXCEPT !.claim = [@ EXCEPT ![k] = c]] \in Projections
           /\ \A d \in DeadlineTypes, v \in DeadlineStatus :
                 [p EXCEPT !.deadline = [@ EXCEPT ![d] = v]] \in Projections
           /\ \A o \in ObligationStatus :
                 [p EXCEPT !.obligation = o] \in Projections
  <1>1. \A c \in CaseRow : [p EXCEPT !.case = c] \in Projections
    BY DEF Projections
  <1>2. \A x \in Executions, o \in ExecutionStatus :
           [p EXCEPT !.execution = [@ EXCEPT ![x] = o]] \in Projections
    BY DEF Projections
  <1>3. \A k \in Keys, i \in {"NONE", "STAGED", "COMMITTED"} :
           [p EXCEPT !.intent = [@ EXCEPT ![k] = i]] \in Projections
    BY DEF Projections
  <1>4. \A k \in Keys, c \in Claim :
           [p EXCEPT !.claim = [@ EXCEPT ![k] = c]] \in Projections
    BY DEF Projections
  <1>5. \A d \in DeadlineTypes, v \in DeadlineStatus :
           [p EXCEPT !.deadline = [@ EXCEPT ![d] = v]] \in Projections
    BY DEF Projections
  <1>6. \A o \in ObligationStatus :
           [p EXCEPT !.obligation = o] \in Projections
    BY DEF Projections
  <1> QED
    BY <1>1, <1>2, <1>3, <1>4, <1>5, <1>6

\* get_case and the row an UPDATE leaves are case rows, and the latter never
\* loses money_moved
LEMMA WrittenType ==
    ASSUME TypeOK, NEW s \in Sessions, NEW status \in Statuses, NEW moved \in BOOLEAN,
           NEW changed, changed = [status |-> status, moneyMoved |-> get_case(s).moneyMoved \/ moved]
    PROVE  /\ get_case(s) \in CaseRow
           /\ changed \in CaseRow
           /\ Written(get_case(s), changed) \in CaseRow
           /\ rows.case.moneyMoved => Written(get_case(s), changed).moneyMoved
           /\ Held(s, changed) \in [Sessions -> CaseRow]
  <1>1. get_case(s) \in CaseRow /\ rows.case \in CaseRow
    BY DEF get_case, TypeOK, Projections
  <1>2. changed \in CaseRow
    BY <1>1 DEF CaseRow, CaseStatus
  <1>3. Written(get_case(s), changed) \in CaseRow
    BY <1>1, <1>2 DEF Written, CaseRow
  <1>4. ASSUME rows.case.moneyMoved, ~Written(get_case(s), changed).moneyMoved PROVE FALSE
    <2>1. Written(get_case(s), changed).moneyMoved
             = IF changed.moneyMoved = get_case(s).moneyMoved
               THEN rows.case.moneyMoved ELSE changed.moneyMoved
      BY DEF Written
    <2>2. changed.moneyMoved # get_case(s).moneyMoved /\ ~changed.moneyMoved
      BY <2>1, <1>4
    <2>3. changed.moneyMoved = (get_case(s).moneyMoved \/ moved)
      OBVIOUS
    <2>4. get_case(s).moneyMoved \in BOOLEAN
      BY <1>1 DEF CaseRow
    <2> QED
      BY <2>2, <2>3, <2>4
  <1>5. Held(s, changed) \in [Sessions -> CaseRow]
    BY <1>2 DEF Held, TypeOK
  <1> QED
    BY <1>1, <1>2, <1>3, <1>4, <1>5

\* Every call keeps the types of the tables and of their rebuild.
LEMMA TypeStep == TypeOK /\ [Next]_vars => TypeOK'
  <1> SUFFICES ASSUME TypeOK, [Next]_vars PROVE TypeOK'
    OBVIOUS
  <1> USE DEF TypeOK, record_event, held, history
  <1>0. /\ [status |-> "RECEIVED", moneyMoved |-> FALSE] \in CaseRow
        /\ NoRow \in CaseRow
        /\ rows.case \in CaseRow /\ replayed.case \in CaseRow
    BY DEF CaseRow, CaseStatus, NoRow, Projections
  <1>1. ASSUME NEW s \in Sessions, CreateCase(s) PROVE TypeOK'
    BY <1>0, <1>1, PutType DEF CreateCase, ReplayCaseCreated
  <1>2. ASSUME NEW s \in Sessions, LoadCase(s) \/ EndSession(s) PROVE TypeOK'
    BY <1>0, <1>2 DEF LoadCase, EndSession
  <1>3. ASSUME NEW s \in Sessions, NEW status \in Statuses, NEW moved \in BOOLEAN,
               UpdateCaseStatus(s, status, moved)
        PROVE  TypeOK'
    BY <1>3, PutType, WrittenType DEF UpdateCaseStatus, ReplayCaseStatusUpdated
  <1>4. ASSUME NEW s \in Sessions, NEW status \in Statuses, SettleMoneyMoved(s, status)
        PROVE  TypeOK'
    <2> DEFINE changed == [status |-> status, moneyMoved |-> TRUE]
    <2>1. changed = [status |-> status, moneyMoved |-> get_case(s).moneyMoved \/ TRUE]
      OBVIOUS
    <2>2. /\ changed \in CaseRow
          /\ Written(get_case(s), changed) \in CaseRow
          /\ Held(s, changed) \in [Sessions -> CaseRow]
      BY <2>1, WrittenType
    <2>3. ReplayCaseStatusUpdated(replayed, changed) \in Projections
      BY <2>2, PutType DEF ReplayCaseStatusUpdated
    <2>4. ReplayMoneyMoved(ReplayCaseStatusUpdated(replayed, changed)) \in Projections
      <3>1. SUFFICES ASSUME NEW p \in Projections PROVE ReplayMoneyMoved(p) \in Projections
        BY <2>3
      <3>2. p.case \in CaseRow
        BY DEF Projections
      <3>3. [p.case EXCEPT !.moneyMoved = TRUE] \in CaseRow
        BY <3>2 DEF CaseRow
      <3> QED
        BY <3>3, PutType DEF ReplayMoneyMoved
    <2> QED
      BY <1>4, <2>2, <2>4, PutType DEF SettleMoneyMoved
  <1>5. ASSUME NEW s \in Sessions, NEW k \in Keys, ClaimEffect(s, k) PROVE TypeOK'
    <2>1. [status |-> "CLAIMED", owner |-> s, token |-> rows.claim[k].token + 1] \in Claim
      BY <1>5, ProjectionAssumption DEF ClaimEffect, Projections, Claim, ClaimStatus
    <2> QED
      BY <1>5, <2>1, PutType DEF ClaimEffect, ReplayEffectClaimed
  <1>6. ASSUME NEW x \in Executions, StartExecution(x) PROVE TypeOK'
    BY <1>6, PutType DEF StartExecution, ReplayExecutionStarted, ExecutionStatus
  <1>7. ASSUME NEW x \in Executions, NEW outcome \in Outcomes, CompleteExecution(x, outcome)
        PROVE  TypeOK'
    BY <1>7, PutType DEF CompleteExecution, ReplayExecutionCompleted, ExecutionStatus
  <1>8. ASSUME NEW k \in Keys, StageIntent(k) \/ MarkIntentCommitted(k) PROVE TypeOK'
    BY <1>8, PutType DEF StageIntent, MarkIntentCommitted, ReplayIntentStaged,
       ReplayIntentCommitted
  <1>9. ASSUME NEW k \in Keys, NEW to \in ClaimStatus \ {"NONE", "CLAIMED"},
               TransitionEffectClaim(k, to)
        PROVE  TypeOK'
    <2>1. rows.claim[k] \in Claim
      BY DEF Projections
    <2>2. [rows.claim[k] EXCEPT !.status = to] \in Claim
      BY <2>1 DEF Claim
    <2> QED
      BY <1>9, <2>2, PutType DEF TransitionEffectClaim, ReplayEffectClaimTransitioned
  <1>10. ASSUME NEW d \in DeadlineTypes, CreateDeadline(d) \/ ResolveDeadline(d) PROVE TypeOK'
    BY <1>10, PutType DEF CreateDeadline, ResolveDeadline, ReplayDeadlineCreated,
       ReplayDeadlineResolved, DeadlineStatus
  <1>11. ASSUME NEW s \in Sessions, LoadPending(s) PROVE TypeOK'
    BY <1>11 DEF LoadPending
  <1>12. ASSUME NEW s \in Sessions, NEW lapsed \in SUBSET DeadlineTypes, MarkOverdue(s, lapsed)
         PROVE  TypeOK'
    BY <1>12 DEF MarkOverdue, Projections, DeadlineStatus
  <1>13. ASSUME CreateObligation \/ ActivateObligation \/ SatisfyObligation PROVE TypeOK'
    BY <1>13, PutType DEF CreateObligation, ActivateObligation, SatisfyObligation,
       ReplayObligationCreated, ReplayObligationActivated, ReplayObligationSatisfied,
       ObligationStatus
  <1>14. ASSUME UNCHANGED vars PROVE TypeOK'
    BY <1>14 DEF vars
  <1> QED
    BY <1>1, <1>2, <1>3, <1>4, <1>5, <1>6, <1>7, <1>8, <1>9, <1>10, <1>11, <1>12, <1>13,
       <1>14
    DEF Next

\* An UPDATE by a session whose row is not stale leaves what its event carries.
LEMMA WrittenCurrent ==
    ASSUME NEW changed \in CaseRow
    PROVE  Written(rows.case, changed) = changed
  <1>1. changed = [status |-> changed.status, moneyMoved |-> changed.moneyMoved]
    BY DEF CaseRow
  <1>2. Written(rows.case, changed)
           = [status |-> changed.status, moneyMoved |-> changed.moneyMoved]
    BY DEF Written
  <1> QED
    BY <1>1, <1>2

\* Replaying MONEY_MOVED over a row that has it changes nothing.
LEMMA MoneyReplay ==
    ASSUME NEW p \in Projections, NEW c \in CaseRow, c.moneyMoved = TRUE
    PROVE  ReplayMoneyMoved([p EXCEPT !.case = c]) = [p EXCEPT !.case = c]
  <1>1. [c EXCEPT !.moneyMoved = TRUE] = c
    BY DEF CaseRow
  <1>2. [p EXCEPT !.case = c].case = c
    BY DEF Projections
  <1>3. PICK q : q = [p EXCEPT !.case = c]
    OBVIOUS
  <1>4. q \in Projections /\ q.case = c
    BY <1>2, <1>3, PutType
  <1>5. [q EXCEPT !.case = c] = q
    BY <1>4 DEF Projections
  <1> QED
    BY <1>1, <1>3, <1>4, <1>5 DEF ReplayMoneyMoved

-----------------------------------------------------------------------------
\* What a marking has selected is a row: the look-up found it PENDING.
Selected == \A s \in Sessions : \A d \in pending[s] : rows.deadline[d] # "NONE"

\* No call takes a deadline's row away.
LEMMA SelectedStep == TypeOK /\ Selected /\ [Next]_vars => Selected'
  <1> SUFFICES ASSUME TypeOK, Selected, [Next]_vars PROVE Selected'
    OBVIOUS
  <1>a. rows \in Projections /\ pending \in [Sessions -> SUBSET DeadlineTypes]
    BY DEF TypeOK
  <1> USE <1>a DEF Projections, Selected, held, history
  <1>1. ASSUME rows'.deadline = rows.deadline, pending' = pending PROVE Selected'
    BY <1>1
  <1>2. ASSUME NEW s \in Sessions, CreateCase(s) \/ LoadCase(s) PROVE Selected'
    BY <1>1, <1>2 DEF CreateCase, LoadCase
  <1>3. ASSUME NEW s \in Sessions, EndSession(s) PROVE Selected'
    BY <1>3 DEF EndSession
  <1>4. ASSUME NEW s \in Sessions, NEW status \in Statuses, NEW moved \in BOOLEAN,
               UpdateCaseStatus(s, status, moved) \/ SettleMoneyMoved(s, status)
        PROVE  Selected'
    BY <1>1, <1>4 DEF UpdateCaseStatus, SettleMoneyMoved
  <1>5. ASSUME NEW x \in Executions, NEW outcome \in Outcomes,
               CompleteExecution(x, outcome)
        PROVE  Selected'
    BY <1>1, <1>5 DEF CompleteExecution
  <1>6. ASSUME NEW x \in Executions, StartExecution(x) PROVE Selected'
    BY <1>1, <1>6 DEF StartExecution
  <1>7. ASSUME NEW k \in Keys, StageIntent(k) \/ MarkIntentCommitted(k) PROVE Selected'
    BY <1>1, <1>7 DEF StageIntent, MarkIntentCommitted
  <1>8. ASSUME NEW s \in Sessions, NEW k \in Keys, ClaimEffect(s, k) PROVE Selected'
    BY <1>1, <1>8 DEF ClaimEffect
  <1>9. ASSUME NEW k \in Keys, NEW to \in ClaimStatus \ {"NONE", "CLAIMED"},
               TransitionEffectClaim(k, to)
        PROVE  Selected'
    BY <1>1, <1>9 DEF TransitionEffectClaim
  <1>10. ASSUME NEW d \in DeadlineTypes, CreateDeadline(d) \/ ResolveDeadline(d)
         PROVE  Selected'
    <2>1. PICK v : v \in {"PENDING", "MET"} /\ pending' = pending
                   /\ rows'.deadline = [rows.deadline EXCEPT ![d] = v]
      BY <1>10 DEF CreateDeadline, ResolveDeadline
    <2> QED
      BY <2>1
  <1>11. ASSUME NEW s \in Sessions, LoadPending(s) PROVE Selected'
    BY <1>11 DEF LoadPending
  <1>12. ASSUME NEW s \in Sessions, NEW lapsed \in SUBSET DeadlineTypes, MarkOverdue(s, lapsed)
         PROVE  Selected'
    <2>1. rows'.deadline = [d \in DeadlineTypes |->
                              IF d \in lapsed THEN "OVERDUE" ELSE rows.deadline[d]]
      BY <1>12 DEF MarkOverdue
    <2>2. \A t \in Sessions : pending'[t] \subseteq pending[t]
      BY <1>12 DEF MarkOverdue
    <2> QED
      BY <2>1, <2>2
  <1>13. ASSUME CreateObligation \/ ActivateObligation \/ SatisfyObligation PROVE Selected'
    BY <1>1, <1>13 DEF CreateObligation, ActivateObligation, SatisfyObligation
  <1>14. ASSUME UNCHANGED vars PROVE Selected'
    BY <1>1, <1>14 DEF vars
  <1> HIDE DEF Selected, Projections, held, history
  <1> QED
    BY <1>2, <1>3, <1>4, <1>5, <1>6, <1>7, <1>8, <1>9, <1>10, <1>11, <1>12, <1>13, <1>14
    DEF Next

\* Sessions that share a case, and deadlines that lapse, leave every other
\* table equal to its rebuild.
LEMMA TablesStep == TypeOK /\ Selected /\ TablesRebuild /\ [Next]_vars => TablesRebuild'
  <1> SUFFICES ASSUME TypeOK, Selected, TablesRebuild, [Next]_vars PROVE TablesRebuild'
    OBVIOUS
  <1>a. /\ rows \in Projections /\ replayed \in Projections /\ integrity = TRUE
        /\ replayed.execution = rows.execution
        /\ replayed.intent = rows.intent
        /\ replayed.claim = rows.claim
        /\ replayed.obligation = rows.obligation
        /\ \A d \in DeadlineTypes :
              /\ d \in overwritten => rows.deadline[d] = "OVERDUE"
              /\ replayed.deadline[d] = IF d \in overwritten THEN "MET"
                                        ELSE IF rows.deadline[d] = "OVERDUE" THEN "PENDING"
                                        ELSE rows.deadline[d]
    BY DEF TypeOK, TablesRebuild
  <1> USE <1>a DEF record_event, TablesRebuild, Projections, held, history
  <1>1. ASSUME NEW s \in Sessions, CreateCase(s) PROVE TablesRebuild'
    BY <1>1 DEF CreateCase, ReplayCaseCreated
  <1>2. ASSUME NEW s \in Sessions, LoadCase(s) \/ EndSession(s) PROVE TablesRebuild'
    BY <1>2 DEF LoadCase, EndSession
  <1>3. ASSUME NEW s \in Sessions, NEW status \in Statuses, NEW moved \in BOOLEAN,
               UpdateCaseStatus(s, status, moved)
        PROVE  TablesRebuild'
    BY <1>3 DEF UpdateCaseStatus, ReplayCaseStatusUpdated
  <1>4. ASSUME NEW s \in Sessions, NEW status \in Statuses, SettleMoneyMoved(s, status)
        PROVE  TablesRebuild'
    BY <1>4 DEF SettleMoneyMoved, ReplayCaseStatusUpdated, ReplayMoneyMoved
  <1>5. ASSUME NEW s \in Sessions, NEW k \in Keys, ClaimEffect(s, k) PROVE TablesRebuild'
    BY <1>5 DEF ClaimEffect, ReplayEffectClaimed
  <1>6. ASSUME NEW x \in Executions, StartExecution(x) PROVE TablesRebuild'
    BY <1>6 DEF StartExecution, ReplayExecutionStarted
  <1>7. ASSUME NEW x \in Executions, NEW outcome \in Outcomes, CompleteExecution(x, outcome)
        PROVE  TablesRebuild'
    BY <1>7 DEF CompleteExecution, ReplayExecutionCompleted
  <1>8. ASSUME NEW k \in Keys, StageIntent(k) \/ MarkIntentCommitted(k) PROVE TablesRebuild'
    <2>1. CASE StageIntent(k)
      BY <2>1 DEF StageIntent, ReplayIntentStaged
    <2>2. CASE MarkIntentCommitted(k)
      BY <2>2 DEF MarkIntentCommitted, ReplayIntentCommitted
    <2> QED
      BY <1>8, <2>1, <2>2
  <1>9. ASSUME NEW k \in Keys, NEW to \in ClaimStatus \ {"NONE", "CLAIMED"},
               TransitionEffectClaim(k, to)
        PROVE  TablesRebuild'
    BY <1>9 DEF TransitionEffectClaim, ReplayEffectClaimTransitioned
  <1>10. ASSUME NEW d \in DeadlineTypes, CreateDeadline(d) \/ ResolveDeadline(d)
         PROVE  TablesRebuild'
    <2>1. replayed.deadline[d] = "NONE" <=> rows.deadline[d] = "NONE"
      OBVIOUS
    <2>2. CASE CreateDeadline(d)
      BY <2>1, <2>2 DEF CreateDeadline, ReplayDeadlineCreated
    <2>3. CASE ResolveDeadline(d)
      BY <2>1, <2>3 DEF ResolveDeadline, ReplayDeadlineResolved
    <2> QED
      BY <1>10, <2>2, <2>3
  <1>11. ASSUME NEW s \in Sessions, LoadPending(s) PROVE TablesRebuild'
    BY <1>11 DEF LoadPending
  <1>12. ASSUME NEW s \in Sessions, NEW lapsed \in SUBSET DeadlineTypes, MarkOverdue(s, lapsed)
         PROVE  TablesRebuild'
    <2>1. \A d \in lapsed : rows.deadline[d] \in {"PENDING", "OVERDUE", "MET"}
      BY <1>12 DEF MarkOverdue, Selected, DeadlineStatus
    <2>2. /\ rows'.deadline = [d \in DeadlineTypes |->
                                  IF d \in lapsed THEN "OVERDUE" ELSE rows.deadline[d]]
          /\ overwritten' = overwritten \cup {d \in lapsed : rows.deadline[d] = "MET"}
          /\ replayed' = replayed
      BY <1>12 DEF MarkOverdue
    <2>3. ASSUME NEW d \in DeadlineTypes
          PROVE  /\ d \in overwritten' => rows'.deadline[d] = "OVERDUE"
                 /\ replayed'.deadline[d] = IF d \in overwritten' THEN "MET"
                                            ELSE IF rows'.deadline[d] = "OVERDUE" THEN "PENDING"
                                            ELSE rows'.deadline[d]
      <3>1. CASE d \in lapsed
        BY <2>1, <2>2, <3>1
      <3>2. CASE d \notin lapsed
        BY <2>2, <3>2
      <3> QED
        BY <3>1, <3>2
    <2> QED
      BY <1>12, <2>3 DEF MarkOverdue
  <1>13. ASSUME CreateObligation \/ ActivateObligation \/ SatisfyObligation
         PROVE  TablesRebuild'
    <2>1. CASE CreateObligation
      BY <2>1 DEF CreateObligation, ReplayObligationCreated
    <2>2. CASE ActivateObligation
      BY <2>2 DEF ActivateObligation, ReplayObligationActivated
    <2>3. CASE SatisfyObligation
      BY <2>3 DEF SatisfyObligation, ReplayObligationSatisfied
    <2> QED
      BY <1>13, <2>1, <2>2, <2>3
  <1>14. ASSUME UNCHANGED vars PROVE TablesRebuild'
    BY <1>14 DEF vars
  <1> QED
    BY <1>1, <1>2, <1>3, <1>4, <1>5, <1>6, <1>7, <1>8, <1>9, <1>10, <1>11, <1>12, <1>13,
       <1>14
    DEF Next

\* An update made from the current row leaves in the table what its event
\* carries, and the other calls leave the row and its rebuild alone.
LEMMA CaseStep == TypeOK /\ CaseRebuilds /\ [Next]_vars => CaseRebuilds'
  <1> SUFFICES ASSUME TypeOK, CaseRebuilds, [Next]_vars, ~outdated'
               PROVE  replayed'.case = rows'.case
    BY DEF CaseRebuilds
  <1>a. rows \in Projections /\ replayed \in Projections /\ outdated \in BOOLEAN
    BY DEF TypeOK
  <1>b. ASSUME ~outdated PROVE replayed.case = rows.case
    BY <1>b DEF CaseRebuilds
  <1> DEFINE Same == replayed'.case = rows'.case
  <1>1. ASSUME NEW s \in Sessions, CreateCase(s) PROVE Same
    BY <1>1, <1>a DEF CreateCase, ReplayCaseCreated, record_event, Projections
  <1>2. ASSUME rows'.case = rows.case, replayed'.case = replayed.case, outdated' = outdated
        PROVE  Same
    BY <1>2, <1>b
  <1>3. ASSUME NEW s \in Sessions, NEW status \in Statuses, NEW moved \in BOOLEAN,
               UpdateCaseStatus(s, status, moved)
        PROVE  Same
    <2> DEFINE changed == [status |-> status, moneyMoved |-> get_case(s).moneyMoved \/ moved]
    <2>1. changed \in CaseRow
      BY WrittenType
    <2>2. get_case(s) = rows.case
      BY <1>3, <1>a DEF UpdateCaseStatus
    <2>3. Written(get_case(s), changed) = changed
      BY <2>1, <2>2, WrittenCurrent
    <2>4. rows' = [rows EXCEPT !.case = changed] /\ replayed' = [replayed EXCEPT !.case = changed]
      BY <1>3, <2>3 DEF UpdateCaseStatus, ReplayCaseStatusUpdated, record_event
    <2> QED
      BY <2>4, <1>a DEF Projections
  <1>4. ASSUME NEW s \in Sessions, NEW status \in Statuses, SettleMoneyMoved(s, status)
        PROVE  Same
    <2> DEFINE changed == [status |-> status, moneyMoved |-> TRUE]
    <2>1. changed \in CaseRow /\ changed.moneyMoved = TRUE
      BY ProjectionAssumption DEF CaseRow, CaseStatus
    <2>2. get_case(s) = rows.case
      BY <1>4, <1>a DEF SettleMoneyMoved
    <2>3. Written(get_case(s), changed) = changed
      BY <2>1, <2>2, WrittenCurrent
    <2>4. ReplayMoneyMoved([replayed EXCEPT !.case = changed]) = [replayed EXCEPT !.case = changed]
      BY <1>a, <2>1, MoneyReplay
    <2>5. rows' = [rows EXCEPT !.case = changed] /\ replayed' = [replayed EXCEPT !.case = changed]
      BY <1>4, <2>3, <2>4 DEF SettleMoneyMoved, ReplayCaseStatusUpdated, record_event
    <2> QED
      BY <2>5, <1>a DEF Projections
  <1> HIDE DEF Same
  <1> USE <1>a DEF record_event, Projections, held, history
  <1>5. ASSUME NEW s \in Sessions, LoadCase(s) \/ EndSession(s) PROVE Same
    BY <1>2, <1>5 DEF LoadCase, EndSession
  <1>6. ASSUME NEW s \in Sessions, NEW k \in Keys, ClaimEffect(s, k) PROVE Same
    BY <1>2, <1>6 DEF ClaimEffect, ReplayEffectClaimed
  <1>7. ASSUME NEW x \in Executions, StartExecution(x) PROVE Same
    BY <1>2, <1>7 DEF StartExecution, ReplayExecutionStarted
  <1>8. ASSUME NEW x \in Executions, NEW outcome \in Outcomes, CompleteExecution(x, outcome)
        PROVE  Same
    BY <1>2, <1>8 DEF CompleteExecution, ReplayExecutionCompleted
  <1>9. ASSUME NEW k \in Keys, StageIntent(k) \/ MarkIntentCommitted(k) PROVE Same
    BY <1>2, <1>9 DEF StageIntent, MarkIntentCommitted, ReplayIntentStaged,
       ReplayIntentCommitted
  <1>10. ASSUME NEW k \in Keys, NEW to \in ClaimStatus \ {"NONE", "CLAIMED"},
                TransitionEffectClaim(k, to)
         PROVE  Same
    BY <1>2, <1>10 DEF TransitionEffectClaim, ReplayEffectClaimTransitioned
  <1>11. ASSUME NEW d \in DeadlineTypes, CreateDeadline(d) \/ ResolveDeadline(d) PROVE Same
    BY <1>2, <1>11 DEF CreateDeadline, ResolveDeadline, ReplayDeadlineCreated,
       ReplayDeadlineResolved
  <1>12. ASSUME NEW s \in Sessions,
                LoadPending(s) \/ \E lapsed \in SUBSET DeadlineTypes : MarkOverdue(s, lapsed)
         PROVE  Same
    BY <1>2, <1>12 DEF LoadPending, MarkOverdue
  <1>13. ASSUME CreateObligation \/ ActivateObligation \/ SatisfyObligation PROVE Same
    BY <1>2, <1>13 DEF CreateObligation, ActivateObligation, SatisfyObligation,
       ReplayObligationCreated, ReplayObligationActivated, ReplayObligationSatisfied
  <1>14. ASSUME UNCHANGED vars PROVE Same
    BY <1>2, <1>14 DEF vars
  <1>15. Same
    BY <1>1, <1>3, <1>4, <1>5, <1>6, <1>7, <1>8, <1>9, <1>10, <1>11, <1>12, <1>13, <1>14
    DEF Next
  <1> QED
    BY <1>15 DEF Same

\* Any number of sessions, with copies of any age, and markings of any delay:
\* rebuild_case gives back what RebuildFaithful says it does.
THEOREM RebuildFaithfulHolds == Spec => []RebuildFaithful
  <1>1. Init => TypeOK /\ Selected /\ RebuildFaithful
    <2>1. Init => Selected /\ RebuildFaithful
      BY DEF Init, Selected, RebuildFaithful, TablesRebuild, CaseRebuilds, NoProjections
    <2> QED
      BY <2>1, InitType
  <1>2. TypeOK /\ Selected /\ RebuildFaithful /\ [Next]_vars
           => (TypeOK /\ Selected /\ RebuildFaithful)'
    BY TypeStep, SelectedStep, TablesStep, CaseStep DEF RebuildFaithful
  <1> QED
    BY <1>1, <1>2, PTL DEF Spec

\* A case that does not exist has moved no money: what CreateCase relies on.
AbsentUnmoved == ~Exists => ~rows.case.moneyMoved

\* Of the calls, only those that write the case row could take money_moved back.
\* The insert finds no row, and an UPDATE writes the column only to set it.
LEMMA MoneyStep ==
    ASSUME TypeOK, AbsentUnmoved, [Next]_vars
    PROVE  /\ rows.case.moneyMoved => rows'.case.moneyMoved
           /\ AbsentUnmoved'
  <1> DEFINE Kept == /\ rows.case.moneyMoved => rows'.case.moneyMoved
                     /\ AbsentUnmoved'
  <1>a. rows \in Projections /\ rows.case \in CaseRow
    BY DEF TypeOK, Projections
  <1>1. ASSUME NEW s \in Sessions, CreateCase(s) PROVE Kept
    <2>1. rows'.case = [status |-> "RECEIVED", moneyMoved |-> FALSE]
      BY <1>1, <1>a DEF CreateCase, Projections
    <2> QED
      BY <1>1, <2>1 DEF CreateCase, AbsentUnmoved, Exists
  <1>2. ASSUME NEW s \in Sessions, NEW status \in Statuses, NEW moved \in BOOLEAN,
               NEW changed,
               changed = [status |-> status, moneyMoved |-> get_case(s).moneyMoved \/ moved],
               Exists, rows' = [rows EXCEPT !.case = Written(get_case(s), changed)]
        PROVE  Kept
    <2>1. rows'.case = Written(get_case(s), changed)
      BY <1>2, <1>a DEF Projections
    <2>2. rows.case.moneyMoved => rows'.case.moneyMoved
      BY <1>2, <2>1, WrittenType
    <2>3. rows'.case.status \in {rows.case.status, status}
      BY <1>2, <2>1 DEF Written
    <2>4. rows'.case.status # "ABSENT"
      BY <1>2, <2>3, ProjectionAssumption DEF Exists
    <2> QED
      BY <2>2, <2>4 DEF AbsentUnmoved, Exists
  <1>3. ASSUME NEW s \in Sessions, NEW status \in Statuses, NEW moved \in BOOLEAN,
               UpdateCaseStatus(s, status, moved)
        PROVE  Kept
    BY <1>2, <1>3 DEF UpdateCaseStatus
  <1>4. ASSUME NEW s \in Sessions, NEW status \in Statuses, SettleMoneyMoved(s, status)
        PROVE  Kept
    <2>1. [status |-> status, moneyMoved |-> TRUE]
             = [status |-> status, moneyMoved |-> get_case(s).moneyMoved \/ TRUE]
      OBVIOUS
    <2> QED
      BY <1>2, <1>4, <2>1 DEF SettleMoneyMoved
  <1>5. ASSUME rows'.case = rows.case PROVE Kept
    BY <1>5 DEF AbsentUnmoved, Exists
  <1> HIDE DEF Kept
  <1>6. ASSUME NEW s \in Sessions, LoadCase(s) \/ EndSession(s) PROVE Kept
    BY <1>5, <1>6 DEF LoadCase, EndSession
  <1>7. ASSUME NEW s \in Sessions, NEW k \in Keys, ClaimEffect(s, k) PROVE Kept
    BY <1>5, <1>7, <1>a DEF ClaimEffect, Projections
  <1>8. ASSUME NEW x \in Executions, StartExecution(x) PROVE Kept
    BY <1>5, <1>8, <1>a DEF StartExecution, Projections
  <1>9. ASSUME NEW x \in Executions, NEW outcome \in Outcomes, CompleteExecution(x, outcome)
        PROVE  Kept
    BY <1>5, <1>9, <1>a DEF CompleteExecution, Projections
  <1>10. ASSUME NEW k \in Keys, StageIntent(k) \/ MarkIntentCommitted(k) PROVE Kept
    BY <1>5, <1>10, <1>a DEF StageIntent, MarkIntentCommitted, Projections
  <1>11. ASSUME NEW k \in Keys, NEW to \in ClaimStatus \ {"NONE", "CLAIMED"},
                TransitionEffectClaim(k, to)
         PROVE  Kept
    BY <1>5, <1>11, <1>a DEF TransitionEffectClaim, Projections
  <1>12. ASSUME NEW d \in DeadlineTypes, CreateDeadline(d) \/ ResolveDeadline(d) PROVE Kept
    BY <1>5, <1>12, <1>a DEF CreateDeadline, ResolveDeadline, Projections
  <1>13. ASSUME NEW s \in Sessions,
                LoadPending(s) \/ \E lapsed \in SUBSET DeadlineTypes : MarkOverdue(s, lapsed)
         PROVE  Kept
    BY <1>5, <1>13, <1>a DEF LoadPending, MarkOverdue, Projections
  <1>14. ASSUME CreateObligation \/ ActivateObligation \/ SatisfyObligation PROVE Kept
    BY <1>5, <1>14, <1>a DEF CreateObligation, ActivateObligation, SatisfyObligation,
       Projections
  <1>15. ASSUME UNCHANGED vars PROVE Kept
    BY <1>5, <1>15 DEF vars
  <1>16. Kept
    BY <1>1, <1>3, <1>4, <1>6, <1>7, <1>8, <1>9, <1>10, <1>11, <1>12, <1>13, <1>14, <1>15
    DEF Next
  <1> QED
    BY <1>16 DEF Kept

\* No call, of any of the sessions that share a case, takes back money_moved.
THEOREM MoneyNeverForgottenHolds == Spec => MoneyNeverForgotten
  <1>1. Init => TypeOK /\ AbsentUnmoved
    <2>1. Init => AbsentUnmoved
      BY DEF Init, AbsentUnmoved, NoProjections, NoRow
    <2> QED
      BY <2>1, InitType
  <1>2. TypeOK /\ AbsentUnmoved /\ [Next]_vars => (TypeOK /\ AbsentUnmoved)'
    BY TypeStep, MoneyStep
  <1>3. TypeOK /\ AbsentUnmoved /\ [Next]_vars
           => [rows.case.moneyMoved => rows'.case.moneyMoved]_vars
    BY MoneyStep
  <1> QED
    BY <1>1, <1>2, <1>3, PTL DEF Spec, MoneyNeverForgotten
=============================================================================

------------------------- MODULE TargetStoresProofs -------------------------
(***************************************************************************)
(* For any callers, cases, inputs and references: a target never has two   *)
(* effects of a case, what its callers are told stays true until a reset,  *)
(* and the target with its callers implements TargetContract.              *)
(***************************************************************************)
EXTENDS TargetStores, TLAPS

-----------------------------------------------------------------------------
(* One effect per case *)

LEMMA StoreInit == Init => StoreInv
  <1> SUFFICES ASSUME Init PROVE StoreInv
    OBVIOUS
  <1>1. TypeOK
    BY DEF Init, TypeOK, Statuses
  <1>2. OneEffectPerCase
    BY DEF Init, OneEffectPerCase
  <1> QED BY <1>1, <1>2 DEF StoreInv

\* The one transaction that writes keeps row, history and balance together
LEMMA PostKeepsStore ==
    ASSUME StoreInv, NEW in \in Inputs \cup HandInputs, NEW x \in Refs,
           Post(in, x), target' = target
    PROVE  /\ rows' \in [Cases -> Row \cup {NoRow}]
           /\ history' \in [Cases -> Nat]
           /\ credited' \in [Cases -> Nat]
           /\ OneEffectPerCase'
  <1>1. in.case \in Cases
    BY TargetAssumption
  <1>2. [in |-> in, ref |-> x] \in Row /\ [in |-> in, ref |-> x] # NoRow
    BY TargetAssumption DEF Row
  <1>3. /\ rows \in [Cases -> Row \cup {NoRow}]
        /\ history \in [Cases -> Nat] /\ credited \in [Cases -> Nat]
    BY DEF StoreInv, TypeOK
  <1>4. /\ rows' \in [Cases -> Row \cup {NoRow}]
        /\ history' \in [Cases -> Nat] /\ credited' \in [Cases -> Nat]
    BY <1>1, <1>2, <1>3 DEF Post
  <1>5. ASSUME NEW c \in Cases
        PROVE  /\ history'[c] = IF rows'[c] = NoRow THEN 0 ELSE 1
               /\ credited'[c] = IF IsCore' THEN history'[c] ELSE 0
    <2>1. IsCore' = IsCore
      BY DEF IsCore
    <2>2. /\ history[c] = IF rows[c] = NoRow THEN 0 ELSE 1
          /\ credited[c] = IF IsCore THEN history[c] ELSE 0
      BY DEF StoreInv, OneEffectPerCase
    <2> QED BY <1>1, <1>2, <1>3, <2>1, <2>2 DEF Post
  <1> QED BY <1>4, <1>5 DEF OneEffectPerCase

\* Every other step of the target's handlers leaves the store alone
LEMMA ServeStore == ASSUME StoreInv, NEW r \in Requests, Serve(r) PROVE StoreInv'
  <1> USE DEF StoreInv
  <1>1. CASE HandleRefused(r) \/ HandleRejected(r) \/ HandleRepeated(r) \/ LoseRequest(r)
    <2>1. TypeOK'
      BY <1>1 DEF HandleRefused, HandleRejected, HandleRepeated, LoseRequest, Answer,
                  Accepted, Statuses, TypeOK, store, local
    <2>2. OneEffectPerCase'
      BY <1>1 DEF HandleRefused, HandleRejected, HandleRepeated, LoseRequest,
                  OneEffectPerCase, IsCore, store
    <2> QED BY <2>1, <2>2
  <1>2. CASE HandleApplied(r)
    <2>1. PICK x \in Refs : Post(input[r], x)
      BY <1>2 DEF HandleApplied
    <2>2. input[r] \in Inputs \cup HandInputs /\ target' = target
      BY <1>2 DEF HandleApplied, TypeOK
    <2>3. /\ rows' \in [Cases -> Row \cup {NoRow}]
          /\ history' \in [Cases -> Nat] /\ credited' \in [Cases -> Nat]
          /\ OneEffectPerCase'
      BY <2>1, <2>2, PostKeepsStore
    <2>4. TypeOK'
      BY <1>2, <2>3 DEF HandleApplied, TypeOK, Answer, Accepted, Statuses, local
    <2> QED BY <2>3, <2>4
  <1> QED BY <1>1, <1>2 DEF Serve

\* A caller never writes to the store
LEMMA AttemptStore == ASSUME StoreInv, NEW r \in Requests, Attempt(r) PROVE StoreInv'
  <1> USE DEF StoreInv
  <1>1. target' = target /\ store' = store /\ UNCHANGED <<switches, landed, input, wiped>>
    BY DEF Attempt, Precheck, PrecheckFails, Dispatch, TakeAnswer, GiveUp, Confirm,
           PostcheckUnconfirmed, ReconcileAbsent, ReconcileInconclusive, Audit,
           AsksNothing, wire
  <1>2. OneEffectPerCase'
    BY <1>1 DEF OneEffectPerCase, IsCore, store
  <1>3. Found(r) # NoRow => Found(r).ref \in Refs
    BY TargetAssumption DEF Found, TypeOK, Row
  <1>4. req' \in [Requests -> {"none", "wire", "taken", "lost"} \cup Statuses]
    BY DEF Attempt, Precheck, PrecheckFails, Dispatch, TakeAnswer, GiveUp, Confirm,
           PostcheckUnconfirmed, ReconcileAbsent, ReconcileInconclusive, Audit,
           AsksNothing, wire, TypeOK
  <1>5. ref' \in [Requests -> Refs \cup {NoRef}]
    BY <1>3 DEF Attempt, Precheck, PrecheckFails, Dispatch, TakeAnswer, GiveUp, Confirm,
           PostcheckUnconfirmed, ReconcileAbsent, ReconcileInconclusive, Audit,
           TypeOK, Confirms, Visible
  <1>6. caller' \in [Requests -> {"start", "cleared", "waiting", "postcheck",
                                  "reconcile"} \cup Outcomes]
    BY DEF Attempt, Precheck, PrecheckFails, Dispatch, TakeAnswer, GiveUp, Confirm,
           PostcheckUnconfirmed, ReconcileAbsent, ReconcileInconclusive, Audit,
           Goto, TypeOK, Outcomes, AfterAnswer
  <1>7. TypeOK'
    BY <1>1, <1>4, <1>5, <1>6 DEF TypeOK, store
  <1> QED BY <1>2, <1>7

LEMMA OtherStore ==
    ASSUME StoreInv,
           \/ \E in \in HandInputs : FiledByHand(in)
           \/ SetSwitches \/ Reset \/ Restart
    PROVE  StoreInv'
  <1> USE DEF StoreInv
  <1>1. CASE \E in \in HandInputs : FiledByHand(in)
    <2>1. PICK in \in HandInputs, x \in Refs : FiledByHand(in) /\ Post(in, x)
      BY <1>1 DEF FiledByHand
    <2>2. target' = target
      BY <2>1 DEF FiledByHand
    <2>3. /\ rows' \in [Cases -> Row \cup {NoRow}]
          /\ history' \in [Cases -> Nat] /\ credited' \in [Cases -> Nat]
          /\ OneEffectPerCase'
      BY <2>1, <2>2, PostKeepsStore
    <2> QED BY <2>1, <2>3 DEF FiledByHand, TypeOK, wire, local
  <1>2. CASE SetSwitches
    BY <1>2 DEF SetSwitches, TypeOK, OneEffectPerCase, IsCore, store, wire, local
  <1>3. CASE Reset
    BY <1>3 DEF Reset, TypeOK, OneEffectPerCase, IsCore, wire, local
  <1>4. CASE Restart
    <2>1. TypeOK'
      BY <1>4 DEF Restart, TypeOK, store, local, Statuses
    <2> QED BY <1>4, <2>1 DEF Restart, OneEffectPerCase, IsCore, store
  <1> QED BY <1>1, <1>2, <1>3, <1>4

\* StoreInv is inductive as it stands: the lookup and the insert are one
\* transaction, so no caller, repeat, late request or person at the portal can
\* give a case a second row, a second history entry or a second credit.
THEOREM StoreInductive == Spec => []StoreInv
  <1>1. StoreInv /\ [Next]_vars => StoreInv'
    <2> SUFFICES ASSUME StoreInv, [Next]_vars PROVE StoreInv'
      OBVIOUS
    <2>1. CASE UNCHANGED vars
      BY <2>1 DEF vars, store, wire, local, StoreInv, TypeOK, OneEffectPerCase, IsCore
    <2>2. CASE Next
      BY <2>2, ServeStore, AttemptStore, OtherStore DEF Next
    <2> QED BY <2>1, <2>2
  <1> QED BY <1>1, StoreInit, PTL DEF Spec

-----------------------------------------------------------------------------
(* What callers are told *)

\* A request is dispatched once, lands at most once, and has not landed while
\* it is under way or after it was turned away.
Wiring ==
    \A r \in Requests :
        /\ caller[r] \in {"start", "cleared"} => req[r] = "none"
        /\ req[r] \in {"none", "wire", "401"} => r \notin landed

OutcomeInv == StoreInv /\ Wiring /\ OutcomesAreTrue

\* Its part of OutcomesAreTrue about one request
Told(r) ==
    /\ Applied(r) \/ At(r, "AUDITED") =>
         /\ Found(r) # NoRow /\ Matches(input[r], Found(r))
         /\ Found(r).ref = ref[r]
    /\ At(r, "SESSION_EXPIRED") => r \notin landed /\ req[r] = "taken"
    /\ At(r, "CONFIRMED_NOT_APPLIED") /\ req[r] = "taken" => r \notin landed
    /\ r \in landed => Found(r) # NoRow /\ Matches(input[r], Found(r))
    /\ ~At(r, "TARGET_LEDGER_DIVERGENCE")

LEMMA OutcomesByRequest == OutcomesAreTrue <=> wiped \/ \A r \in Requests : Told(r)
  BY DEF OutcomesAreTrue, Told

LEMMA OutcomeInit == Init => OutcomeInv
  <1> SUFFICES ASSUME Init PROVE OutcomeInv
    OBVIOUS
  <1>1. Wiring
    BY DEF Init, Wiring
  <1>2. OutcomesAreTrue
    BY DEF Init, OutcomesAreTrue, Applied, At
  <1> QED BY <1>1, <1>2, StoreInit DEF OutcomeInv

\* A step that keeps the rows and does not touch request s changes nothing
\* for it; a row once written stays
LEMMA OthersToldTheSame ==
    ASSUME NEW s \in Requests, Told(s), TypeOK,
           caller'[s] = caller[s], ref'[s] = ref[s], input' = input,
           req'[s] = req[s] \/ (req[s] # "taken" /\ req'[s] # "taken"),
           s \in landed' <=> s \in landed,
           Found(s) # NoRow => rows'[input[s].case] = Found(s)
    PROVE  Told(s)'
  BY DEF Told, Applied, At, Found, Matches

LEMMA PostKeepsRows ==
    ASSUME TypeOK, NEW in, NEW x, Post(in, x), NEW c \in Cases, rows[c] # NoRow
    PROVE  rows'[c] = rows[c]
  BY DEF Post, TypeOK

LEMMA ServeOutcome ==
    ASSUME OutcomeInv, NEW r \in Requests, Serve(r), StoreInv'
    PROVE  OutcomeInv'
  <1> USE DEF OutcomeInv
  <1>1. TypeOK /\ \A s \in Requests : input[s] \in Inputs /\ input[s].case \in Cases
    BY TargetAssumption DEF StoreInv, TypeOK
  <1>2. /\ UNCHANGED <<input, caller, ref, wiped>>
        /\ req[r] = "wire" /\ req'[r] \in {"lost"} \cup Statuses
        /\ \A s \in Requests : s # r => req'[s] = req[s]
        /\ \A s \in Requests : s # r => (s \in landed' <=> s \in landed)
    BY <1>1 DEF Serve, HandleRefused, HandleRejected, HandleRepeated, HandleApplied,
                LoseRequest, Answer, Accepted, Statuses, local, TypeOK
  <1>3. CASE HandleRefused(r) \/ HandleRejected(r) \/ HandleRepeated(r) \/ LoseRequest(r)
    <2>1. landed' = landed /\ rows' = rows
      BY <1>3 DEF HandleRefused, HandleRejected, HandleRepeated, LoseRequest, store
    <2>2. Wiring'
      BY <1>2, <2>1 DEF Wiring, Statuses
    <2>3. ASSUME NEW s \in Requests, Told(s) PROVE Told(s)'
      <3>1. req'[s] = req[s] \/ (req[s] # "taken" /\ req'[s] # "taken")
        BY <1>2 DEF Statuses
      <3>2. Found(s) # NoRow => rows'[input[s].case] = Found(s)
        BY <2>1 DEF Found
      <3> QED BY <1>1, <1>2, <2>1, <2>3, <3>1, <3>2, OthersToldTheSame
    <2>4. OutcomesAreTrue'
      BY <1>2, <2>3, OutcomesByRequest DEF OutcomesAreTrue, Told
    <2> QED BY <2>2, <2>4
  <1>4. CASE HandleApplied(r)
    <2>1. PICK x \in Refs : Post(input[r], x)
      BY <1>4 DEF HandleApplied
    <2>2. landed' = landed \cup {r} /\ req'[r] \in {"200", "504"}
      BY <1>1, <1>4 DEF HandleApplied, Answer, Accepted, TypeOK
    <2>3. Wiring'
      BY <1>2, <2>2 DEF Wiring
    <2>4. \A s \in Requests : Found(s) # NoRow => rows'[input[s].case] = Found(s)
      BY <1>1, <2>1, PostKeepsRows DEF Found
    <2>5. ASSUME NEW s \in Requests, s # r, Told(s) PROVE Told(s)'
      BY <1>1, <1>2, <2>4, <2>5, OthersToldTheSame
    <2>6. ASSUME Told(r) PROVE Told(r)'
      <3>1. /\ rows'[input[r].case] = [in |-> input[r], ref |-> x]
            /\ rows[input[r].case] = NoRow
        BY <1>1, <2>1 DEF Post, TypeOK
      <3>2. rows'[input[r].case] # NoRow
        BY <1>1, <3>1, TargetAssumption
      <3>3. ~Applied(r) /\ ~At(r, "AUDITED") /\ ~At(r, "SESSION_EXPIRED")
        BY <1>2, <2>6, <3>1 DEF Told, Found
      <3>4. Matches(input[r], rows'[input[r].case])
        BY <3>1 DEF Matches
      <3> QED BY <1>2, <2>2, <2>6, <3>2, <3>3, <3>4 DEF Told, Applied, At, Found, Matches
    <2>7. OutcomesAreTrue'
      BY <1>2, <2>5, <2>6, OutcomesByRequest DEF OutcomesAreTrue, Told
    <2> QED BY <2>3, <2>7
  <1> QED BY <1>3, <1>4 DEF Serve

\* The steps of caller r decide from the store as it is
LEMMA AttemptTold ==
    ASSUME OutcomeInv, NEW r \in Requests, Attempt(r), Told(r)
    PROVE  Told(r)'
  <1> USE DEF OutcomeInv
  <1>1. TypeOK
    BY DEF StoreInv
  <1>2. /\ UNCHANGED <<rows, input, landed>>
        /\ Found(r)' = Found(r)
    BY DEF Attempt, Precheck, PrecheckFails, Dispatch, TakeAnswer, GiveUp, Confirm,
           PostcheckUnconfirmed, ReconcileAbsent, ReconcileInconclusive, Audit,
           AsksNothing, wire, store, Found
  <1> USE DEF At, Goto
  <1>3. CASE Precheck(r) \/ Confirm(r)
    <2>1. \/ caller'[r] = "cleared"
          \/ /\ caller'[r] \in {"ALREADY_APPLIED", "COMPLETED", "CONFIRMED_APPLIED"}
             /\ Found(r) # NoRow /\ Matches(input[r], Found(r))
             /\ ref'[r] = Found(r).ref
      BY <1>1, <1>3 DEF Precheck, Confirm, Confirms, Visible, TypeOK
    <2> QED BY <1>2, <2>1 DEF Told, Applied, Matches
  <1>4. CASE PrecheckFails(r) \/ GiveUp(r) \/ PostcheckUnconfirmed(r)
                \/ ReconcileInconclusive(r) \/ Dispatch(r)
    <2>1. caller'[r] \in {"PRECHECK_FAILED", "reconcile", "UNCERTAIN_EFFECT", "waiting"}
      BY <1>1, <1>4 DEF PrecheckFails, GiveUp, PostcheckUnconfirmed,
                        ReconcileInconclusive, Dispatch, TypeOK
    <2> QED BY <1>2, <2>1 DEF Told, Applied, Matches
  <1>5. CASE TakeAnswer(r)
    <2>1. /\ req'[r] = "taken"
          /\ \/ caller'[r] \in {"postcheck", "reconcile"}
             \/ caller'[r] = "SESSION_EXPIRED" /\ req[r] = "401"
      BY <1>1, <1>5 DEF TakeAnswer, AfterAnswer, TypeOK
    <2>2. req[r] = "401" => r \notin landed
      BY DEF Wiring
    <2> QED BY <1>2, <2>1, <2>2 DEF Told, Applied, Matches
  <1>6. CASE ReconcileAbsent(r)
    <2>1. caller'[r] = "CONFIRMED_NOT_APPLIED" /\ Found(r) = NoRow
      BY <1>1, <1>6 DEF ReconcileAbsent, Absent, TypeOK
    <2> QED BY <1>2, <2>1 DEF Told, Applied, Matches
  <1>7. CASE Audit(r)
    <2>1. Found(r) # NoRow /\ Matches(input[r], Found(r)) /\ Found(r).ref = ref[r]
      BY <1>7 DEF Audit, Told
    <2>2. history[input[r].case] = 1
      <3>1. input[r].case \in Cases
        BY <1>1, TargetAssumption DEF TypeOK
      <3> QED BY <2>1, <3>1 DEF StoreInv, OneEffectPerCase, Found
    <2>3. AuditAgrees(r)
      BY <1>7, <2>1, <2>2 DEF Audit, Absent, AuditAgrees
    <2>4. caller'[r] = "AUDITED" /\ ref' = ref
      BY <1>1, <1>7, <2>3 DEF Audit, TypeOK
    <2> QED BY <1>2, <2>1, <2>4 DEF Told, Applied, Matches
  <1> QED BY <1>3, <1>4, <1>5, <1>6, <1>7 DEF Attempt

LEMMA AttemptOutcome ==
    ASSUME OutcomeInv, NEW r \in Requests, Attempt(r), StoreInv'
    PROVE  OutcomeInv'
  <1> USE DEF OutcomeInv
  <1>1. TypeOK
    BY DEF StoreInv
  <1>2. /\ UNCHANGED <<rows, input, landed, wiped>>
        /\ \A s \in Requests : s # r =>
              caller'[s] = caller[s] /\ ref'[s] = ref[s] /\ req'[s] = req[s]
    BY <1>1 DEF Attempt, Precheck, PrecheckFails, Dispatch, TakeAnswer, GiveUp, Confirm,
           PostcheckUnconfirmed, ReconcileAbsent, ReconcileInconclusive, Audit,
           AsksNothing, wire, store, Goto, TypeOK
  <1>3. /\ caller'[r] \in {"start", "cleared"} => req'[r] = "none"
        /\ req'[r] \in {"none", "wire", "401"} => r \notin landed
    BY <1>1 DEF Attempt, Precheck, PrecheckFails, Dispatch, TakeAnswer, GiveUp, Confirm,
           PostcheckUnconfirmed, ReconcileAbsent, ReconcileInconclusive, Audit,
           AsksNothing, wire, Goto, At, TypeOK, AfterAnswer, Wiring
  <1>4. Wiring'
    BY <1>2, <1>3 DEF Wiring
  <1>5. ASSUME NEW s \in Requests, Told(s) PROVE Told(s)'
    <2>1. CASE s = r
      BY <1>5, <2>1, AttemptTold
    <2>2. CASE s # r
      BY <1>1, <1>2, <1>5, <2>2, OthersToldTheSame DEF Found
    <2> QED BY <2>1, <2>2
  <1>6. OutcomesAreTrue'
    BY <1>2, <1>5, OutcomesByRequest DEF OutcomesAreTrue, Told
  <1> QED BY <1>4, <1>6

LEMMA OtherOutcome ==
    ASSUME OutcomeInv, StoreInv',
           \/ \E in \in HandInputs : FiledByHand(in)
           \/ SetSwitches \/ Reset \/ Restart
    PROVE  OutcomeInv'
  <1> USE DEF OutcomeInv
  <1>1. TypeOK /\ \A s \in Requests : input[s].case \in Cases
    BY TargetAssumption DEF StoreInv, TypeOK
  <1>2. CASE Reset
    BY <1>2 DEF Reset, Wiring, OutcomesAreTrue, wire, local
  <1>3. CASE (\E in \in HandInputs : FiledByHand(in)) \/ SetSwitches \/ Restart
    <2>1. /\ UNCHANGED <<input, caller, ref, landed, wiped>>
          /\ \A s \in Requests :
                req'[s] = req[s] \/ (req[s] \notin {"none", "taken"} /\ req'[s] = "lost")
      BY <1>1, <1>3 DEF FiledByHand, SetSwitches, Restart, wire, local, Statuses, TypeOK
    <2>2. \A s \in Requests : Found(s) # NoRow => rows'[input[s].case] = Found(s)
      <3>1. CASE SetSwitches \/ Restart
        BY <3>1 DEF SetSwitches, Restart, store, Found
      <3>2. CASE \E in \in HandInputs : FiledByHand(in)
        BY <1>1, <3>2, PostKeepsRows DEF FiledByHand, Found
      <3> QED BY <1>3, <3>1, <3>2
    <2>3. Wiring'
      BY <2>1 DEF Wiring
    <2>4. ASSUME NEW s \in Requests, Told(s) PROVE Told(s)'
      BY <1>1, <2>1, <2>2, <2>4, OthersToldTheSame
    <2>5. OutcomesAreTrue'
      BY <2>1, <2>4, OutcomesByRequest DEF OutcomesAreTrue, Told
    <2> QED BY <2>3, <2>5
  <1> QED BY <1>2, <1>3

\* OutcomesAreTrue with Wiring and StoreInv is inductive
LEMMA OutcomeInductive == Spec => []OutcomeInv
  <1>1. OutcomeInv /\ StoreInv' /\ [Next]_vars => OutcomeInv'
    <2> SUFFICES ASSUME OutcomeInv, StoreInv', [Next]_vars PROVE OutcomeInv'
      OBVIOUS
    <2>1. CASE UNCHANGED vars
      BY <2>1 DEF vars, store, wire, local, OutcomeInv, Wiring, OutcomesAreTrue, Applied,
                  At, Found, Matches
    <2>2. CASE Next
      BY <2>2, ServeOutcome, AttemptOutcome, OtherOutcome DEF Next
    <2> QED BY <2>1, <2>2
  <1> QED BY <1>1, OutcomeInit, StoreInductive, PTL DEF Spec

\* For any callers and faults of the target, until it is reset: a caller told
\* "applied" has a record of its identity, a refusal or an absence is true of
\* a request that is over, and no applied claim is ever found to diverge.
THEOREM OutcomesAreTrueHolds == Spec => []OutcomesAreTrue
  <1>1. OutcomeInv => OutcomesAreTrue
    BY DEF OutcomeInv
  <1> QED BY <1>1, OutcomeInductive, PTL

-----------------------------------------------------------------------------
(* The contract *)

LEMMA VerdictValues ==
    /\ \A l \in {"ALREADY_APPLIED", "COMPLETED", "CONFIRMED_APPLIED",
                 "AUDITED", "TARGET_LEDGER_DIVERGENCE"} : VerdictAt(l) = "applied"
    /\ VerdictAt("CONFIRMED_NOT_APPLIED") = "absent"
    /\ VerdictAt("SESSION_EXPIRED") = "refused"
    /\ \A l \in {"UNCERTAIN_EFFECT", "PRECHECK_FAILED"} : VerdictAt(l) = "unknown"
    /\ \A l \in {"start", "cleared", "waiting", "postcheck", "reconcile"} :
          VerdictAt(l) = "none"
  BY DEF VerdictAt

\* An insert is an Apply of the identity it carries
LEMMA PostApplies ==
    ASSUME TypeOK, NEW in \in Inputs \cup HandInputs, NEW x \in Refs, Post(in, x),
           UNCHANGED <<input, caller>>
    PROVE  Contract!Apply(in.case)
  <1>1. in.case \in Cases /\ [in |-> in, ref |-> x] # NoRow
    BY TargetAssumption
  <1>2. Records[in.case] = NoRow
    BY <1>1 DEF Records, Post
  <1>3. Records' = [Records EXCEPT ![in.case] = Identity(in)]
    <2>1. ASSUME NEW c \in Cases
          PROVE  Records'[c] = IF c = in.case THEN Identity(in) ELSE Records[c]
      BY <1>1 DEF Records, Post, TypeOK, Identity
    <2> QED BY <1>1, <2>1 DEF Records
  <1>4. Identity(in) \in Identities
    BY DEF Identities
  <1>5. UNCHANGED <<Asked, Verdicts>>
    BY DEF Asked, Verdicts, Identity
  <1> QED BY <1>2, <1>3, <1>4, <1>5 DEF Contract!Apply

\* A move of caller r changes what r has been told, and nothing else
LEMMA CallerMoves ==
    ASSUME TypeOK, NEW r \in Requests, NEW l, Goto(r, l), UNCHANGED <<rows, input>>
    PROVE  /\ UNCHANGED <<Records, Asked>>
           /\ Verdicts[r] = VerdictAt(caller[r])
           /\ Verdicts' = [Verdicts EXCEPT ![r] = VerdictAt(l)]
           /\ Records[Asked[r].case] = IF Found(r) = NoRow THEN NoRow ELSE Identity(Found(r).in)
           /\ Asked[r].identity = Identity(input[r])
  <1>1. UNCHANGED <<Records, Asked>>
    BY DEF Records, Asked, Identity
  <1>2. Verdicts' = [Verdicts EXCEPT ![r] = VerdictAt(l)]
    <2>1. ASSUME NEW s \in Requests
          PROVE  Verdicts'[s] = IF s = r THEN VerdictAt(l) ELSE Verdicts[s]
      <3>1. caller'[s] = IF s = r THEN l ELSE caller[s]
        BY DEF Goto, TypeOK
      <3>2. Verdicts'[s] = VerdictAt(caller'[s]) /\ Verdicts[s] = VerdictAt(caller[s])
        BY DEF Verdicts, VerdictAt
      <3> QED BY <3>1, <3>2
    <2> QED BY <2>1 DEF Verdicts
  <1>3. Asked[r] = [case |-> input[r].case, identity |-> Identity(input[r])]
    BY DEF Asked
  <1>4. input[r].case \in Cases
    BY TargetAssumption DEF TypeOK
  <1> QED BY <1>1, <1>2, <1>3, <1>4 DEF Verdicts, Records, Found

LEMMA AttemptTells ==
    ASSUME TypeOK, NEW r \in Requests, Attempt(r)
    PROVE  Contract!Tell(r) \/ UNCHANGED <<Records, Asked, Verdicts>>
  <1>1. UNCHANGED <<rows, input>>
    BY DEF Attempt, Precheck, PrecheckFails, Dispatch, TakeAnswer, GiveUp, Confirm,
           PostcheckUnconfirmed, ReconcileAbsent, ReconcileInconclusive, Audit,
           AsksNothing, store
  <1> DEFINE Plain == {"start", "cleared", "waiting", "postcheck", "reconcile"}
  <1>2. ASSUME NEW l, Goto(r, l), VerdictAt(l) = VerdictAt(caller[r])
        PROVE  UNCHANGED <<Records, Asked, Verdicts>>
    <2>1. Verdicts' = [Verdicts EXCEPT ![r] = Verdicts[r]]
      BY <1>1, <1>2, CallerMoves
    <2>2. Verdicts' = Verdicts
      BY <2>1 DEF Verdicts
    <2> QED BY <1>1, <1>2, <2>2, CallerMoves
  <1>3. ASSUME NEW l, Goto(r, l), caller[r] \in Plain,
               \/ VerdictAt(l) = "applied" /\ Confirms(r)
               \/ VerdictAt(l) = "absent" /\ Absent(r)
               \/ VerdictAt(l) \in {"refused", "unknown"}
        PROVE  Contract!Tell(r)
    <2>1. Verdicts[r] = "none"
      BY <1>1, <1>3, CallerMoves, VerdictValues
    <2>2. CASE VerdictAt(l) = "applied" /\ Confirms(r)
      <3>1. Found(r) # NoRow /\ Identity(Found(r).in) = Identity(input[r])
        BY <2>2 DEF Confirms, Visible, Matches, Identity
      <3> QED BY <1>1, <1>3, <2>1, <2>2, <3>1, CallerMoves DEF Contract!Tell
    <2>3. CASE VerdictAt(l) = "absent" /\ Absent(r)
      BY <1>1, <1>3, <2>1, <2>3, CallerMoves DEF Contract!Tell, Absent
    <2>4. CASE VerdictAt(l) \in {"refused", "unknown"}
      BY <1>1, <1>3, <2>1, <2>4, CallerMoves DEF Contract!Tell
    <2> QED BY <1>3, <2>2, <2>3, <2>4
  <1> USE DEF At
  <1>4. CASE Precheck(r)
    BY <1>2, <1>3, <1>4, VerdictValues DEF Precheck
  <1>5. CASE PrecheckFails(r)
    BY <1>3, <1>5, VerdictValues DEF PrecheckFails
  <1>6. CASE Dispatch(r)
    BY <1>2, <1>6, VerdictValues DEF Dispatch
  <1>7. CASE TakeAnswer(r)
    <2>1. AfterAnswer(req[r]) \in {"postcheck", "reconcile", "SESSION_EXPIRED"}
      BY DEF AfterAnswer
    <2> QED BY <1>2, <1>3, <1>7, <2>1, VerdictValues DEF TakeAnswer
  <1>8. CASE GiveUp(r)
    BY <1>2, <1>8, VerdictValues DEF GiveUp
  <1>9. CASE Confirm(r)
    BY <1>3, <1>9, VerdictValues DEF Confirm
  <1>10. CASE PostcheckUnconfirmed(r)
    BY <1>2, <1>10, VerdictValues DEF PostcheckUnconfirmed
  <1>11. CASE ReconcileAbsent(r)
    BY <1>3, <1>11, VerdictValues DEF ReconcileAbsent
  <1>12. CASE ReconcileInconclusive(r)
    BY <1>3, <1>12, VerdictValues DEF ReconcileInconclusive
  <1>13. CASE Audit(r)
    BY <1>2, <1>13, VerdictValues DEF Audit, Applied
  <1> QED BY <1>4, <1>5, <1>6, <1>7, <1>8, <1>9, <1>10, <1>11, <1>12, <1>13 DEF Attempt

\* The target and its callers implement the contract the effect engine counts
\* on: a case's record is written once and stays until a reset, and a verdict
\* is true of the records when it is given.
THEOREM ContractRefinement == Spec => KeepsContract
  <1>1. Init => Contract!Init
    <2> SUFFICES ASSUME Init PROVE Contract!Init
      OBVIOUS
    <2>1. Records = [c \in Cases |-> NoRow]
      BY DEF Init, Records
    <2>2. Asked \in [Requests -> [case : Cases, identity : Identities]]
      BY TargetAssumption DEF Init, Asked, Identities
    <2>3. Verdicts = [r \in Requests |-> "none"]
      BY VerdictValues DEF Init, Verdicts
    <2> QED BY <2>1, <2>2, <2>3 DEF Contract!Init
  <1>2. StoreInv /\ [Next]_vars => [Contract!Next]_(Contract!vars)
    <2> SUFFICES ASSUME StoreInv, [Next]_vars
                 PROVE  Contract!Next \/ UNCHANGED <<Records, Asked, Verdicts>>
      BY DEF Contract!vars
    <2>1. TypeOK
      BY DEF StoreInv
    <2>2. ASSUME NEW r \in Requests, Serve(r)
          PROVE  Contract!Next \/ UNCHANGED <<Records, Asked, Verdicts>>
      <3>1. CASE HandleApplied(r)
        <4>1. PICK x \in Refs : Post(input[r], x)
          BY <3>1 DEF HandleApplied
        <4>2. input[r] \in Inputs \cup HandInputs /\ input[r].case \in Cases
          BY <2>1, TargetAssumption DEF TypeOK
        <4>3. UNCHANGED <<input, caller>>
          BY <3>1 DEF HandleApplied, local
        <4>4. Contract!Apply(input[r].case)
          BY <2>1, <4>1, <4>2, <4>3, PostApplies
        <4> QED BY <4>2, <4>4 DEF Contract!Next
      <3>2. CASE HandleRefused(r) \/ HandleRejected(r) \/ HandleRepeated(r) \/ LoseRequest(r)
        <4>1. UNCHANGED <<rows, input, caller>>
          BY <3>2 DEF HandleRefused, HandleRejected, HandleRepeated, LoseRequest, store, local
        <4> QED BY <4>1 DEF Records, Asked, Verdicts, Identity, VerdictAt
      <3> QED BY <2>2, <3>1, <3>2 DEF Serve
    <2>3. ASSUME NEW r \in Requests, Attempt(r)
          PROVE  Contract!Next \/ UNCHANGED <<Records, Asked, Verdicts>>
      BY <2>1, <2>3, AttemptTells DEF Contract!Next
    <2>4. ASSUME NEW in \in HandInputs, FiledByHand(in)
          PROVE  Contract!Next
      <3>1. PICK x \in Refs : Post(in, x)
        BY <2>4 DEF FiledByHand
      <3>2. UNCHANGED <<input, caller>> /\ in.case \in Cases
        BY <2>4, TargetAssumption DEF FiledByHand, local
      <3>3. Contract!Apply(in.case)
        BY <2>1, <3>1, <3>2, PostApplies
      <3> QED BY <3>2, <3>3 DEF Contract!Next
    <2>5. CASE Reset
      <3>1. Records' = [c \in Cases |-> NoRow]
        BY <2>5 DEF Reset, Records
      <3>2. UNCHANGED <<Asked, Verdicts>>
        BY <2>5 DEF Reset, local, Asked, Verdicts, Identity, VerdictAt
      <3> QED BY <3>1, <3>2 DEF Contract!Wipe, Contract!Next
    <2>6. CASE SetSwitches \/ Restart \/ UNCHANGED vars
      <3>1. UNCHANGED <<rows, input, caller>>
        BY <2>6 DEF SetSwitches, Restart, vars, store, local
      <3> QED BY <3>1 DEF Records, Asked, Verdicts, Identity, VerdictAt
    <2> QED BY <2>2, <2>3, <2>4, <2>5, <2>6 DEF Next
  <1> QED BY <1>1, <1>2, StoreInductive, PTL DEF Spec, KeepsContract, Contract!Spec
=============================================================================

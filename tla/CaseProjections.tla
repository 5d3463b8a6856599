-------------------------- MODULE CaseProjections --------------------------
(***************************************************************************)
(* The ledger of one case: the mutable projections that LedgerRepository   *)
(* (tandem/ledger/repository.py) keeps, the immutable event it appends     *)
(* with every change, and what rebuild_case (tandem/ledger/rebuild.py)     *)
(* makes of those events.                                                  *)
(*                                                                         *)
(* Each action is one repository call with its event; both are in the same *)
(* transaction, so neither is ever seen without the other.  The event log  *)
(* itself is not kept: rebuild_case reads it once, from the front, so the  *)
(* model carries the projections it would have derived so far (replayed)   *)
(* and extends them event by event.  Timestamps, references and amounts    *)
(* are copied from the row to the event and back, and are left out.        *)
(***************************************************************************)
EXTENDS Naturals

CONSTANTS
    Sessions,       \* database sessions, and owners of claims
    NoSession,      \* owner of a claim that does not exist
    Statuses,       \* case statuses besides RECEIVED
    Executions,     \* ids of capability_executions rows
    Outcomes,       \* statuses an execution completes with
    Keys,           \* idempotency keys
    DeadlineTypes,
    MaxToken        \* bound: a claim is taken at most this often

ASSUME ProjectionAssumption ==
    /\ NoSession \notin Sessions
    /\ "ABSENT" \notin Statuses
    /\ "NONE" \notin Outcomes
    /\ MaxToken \in Nat

VARIABLES
    rows,       \* the case's projections, as the tables hold them
    replayed,   \* the projections rebuild_case derives from the events so far
    integrity,  \* rebuild_case meets no event without its creating event
    view,       \* per session: the case row it has loaded and holds on to
    pending,    \* per session: the deadlines mark_overdue_deadlines found PENDING
    outdated,   \* history: some update was made from a row no longer current
    overwritten \* history: deadlines marked OVERDUE after they had been MET

held == <<view, pending>>
history == <<outdated, overwritten>>
vars == <<rows, replayed, integrity, held, history>>

-----------------------------------------------------------------------------
CaseStatus == Statuses \cup {"RECEIVED", "ABSENT"}
ExecutionStatus == Outcomes \cup {"RUNNING", "NONE"}
DeadlineStatus == {"NONE", "PENDING", "OVERDUE", "MET"}
ObligationStatus == {"NONE", "PLANNED", "ACTIVE", "SATISFIED"}
ClaimStatus == {"NONE", "CLAIMED", "APPLYING", "APPLIED", "FAILED_RETRYABLE",
                "FAILED_PERMANENT", "UNCERTAIN"}
Claim == [status : ClaimStatus, owner : Sessions \cup {NoSession}, token : 0..MaxToken]
CaseRow == [status : CaseStatus, moneyMoved : BOOLEAN]
NoRow == [status |-> "ABSENT", moneyMoved |-> FALSE]

Projections ==
    [case : CaseRow,
     execution : [Executions -> ExecutionStatus],
     intent : [Keys -> {"NONE", "STAGED", "COMMITTED"}],
     claim : [Keys -> Claim],
     deadline : [DeadlineTypes -> DeadlineStatus],
     obligation : ObligationStatus]

TypeOK ==
    /\ rows \in Projections
    /\ replayed \in Projections
    /\ integrity \in BOOLEAN
    /\ view \in [Sessions -> CaseRow]
    /\ pending \in [Sessions -> SUBSET DeadlineTypes]
    /\ outdated \in BOOLEAN
    /\ overwritten \in SUBSET DeadlineTypes

NoProjections ==
    [case |-> NoRow,
     execution |-> [x \in Executions |-> "NONE"],
     intent |-> [k \in Keys |-> "NONE"],
     claim |-> [k \in Keys |-> [status |-> "NONE", owner |-> NoSession, token |-> 0]],
     deadline |-> [d \in DeadlineTypes |-> "NONE"],
     obligation |-> "NONE"]

Init ==
    /\ rows = NoProjections
    /\ replayed = NoProjections
    /\ integrity = TRUE
    /\ view = [s \in Sessions |-> NoRow]
    /\ pending = [s \in Sessions |-> {}]
    /\ outdated = FALSE
    /\ overwritten = {}

-----------------------------------------------------------------------------
(* rebuild_case: the branch for each type of event, applied to p, the      *)
(* projections derived from the events before it                           *)

ReplayCaseCreated(p) == [p EXCEPT !.case = [status |-> "RECEIVED", moneyMoved |-> FALSE]]
ReplayCaseStatusUpdated(p, payload) == [p EXCEPT !.case = payload]
ReplayMoneyMoved(p) == [p EXCEPT !.case = [@ EXCEPT !.moneyMoved = TRUE]]
ReplayExecutionStarted(p, x) == [p EXCEPT !.execution = [@ EXCEPT ![x] = "RUNNING"]]
ReplayExecutionCompleted(p, x, outcome) ==
    [p EXCEPT !.execution = [@ EXCEPT ![x] = outcome]]
ReplayIntentStaged(p, k) == [p EXCEPT !.intent = [@ EXCEPT ![k] = "STAGED"]]
ReplayIntentCommitted(p, k) == [p EXCEPT !.intent = [@ EXCEPT ![k] = "COMMITTED"]]
ReplayEffectClaimed(p, k, payload) == [p EXCEPT !.claim = [@ EXCEPT ![k] = payload]]
ReplayEffectClaimTransitioned(p, k, payload) ==
    [p EXCEPT !.claim = [@ EXCEPT ![k] = payload]]
ReplayDeadlineCreated(p, d) == [p EXCEPT !.deadline = [@ EXCEPT ![d] = "PENDING"]]
ReplayDeadlineResolved(p, d) == [p EXCEPT !.deadline = [@ EXCEPT ![d] = "MET"]]
ReplayObligationCreated(p) == [p EXCEPT !.obligation = "PLANNED"]
ReplayObligationActivated(p) == [p EXCEPT !.obligation = "ACTIVE"]
ReplayObligationSatisfied(p) == [p EXCEPT !.obligation = "SATISFIED"]

\* record_event: the log grows by events whose replay gives p; found says that
\* the row each of them amends has been created by an earlier event, without
\* which rebuild_case raises LedgerIntegrityError
record_event(p, found) ==
    /\ replayed' = p
    /\ integrity' = (integrity /\ found)

-----------------------------------------------------------------------------
(* Case row *)

Exists == rows.case.status # "ABSENT"

\* get_case: a session that holds a loaded row (expire_on_commit=False) is given
\* that row again, with the values it had when it was loaded
get_case(s) == IF view[s] = NoRow THEN rows.case ELSE view[s]

\* create_or_get_case: the primary key decides; only the insert has an event
CreateCase(s) ==
    /\ ~Exists
    /\ rows' = [rows EXCEPT !.case = [status |-> "RECEIVED", moneyMoved |-> FALSE]]
    /\ record_event(ReplayCaseCreated(replayed), TRUE)
    /\ UNCHANGED <<held, history>>

\* A session loads the row and holds on to it: existing_case in run_case
LoadCase(s) ==
    /\ Exists /\ view[s] = NoRow
    /\ view' = [view EXCEPT ![s] = rows.case]
    /\ UNCHANGED <<rows, replayed, integrity, pending, history>>

\* The session ends; the next one in its place has loaded nothing
EndSession(s) ==
    /\ view[s] # NoRow \/ pending[s] # {}
    /\ view' = [view EXCEPT ![s] = NoRow]
    /\ pending' = [pending EXCEPT ![s] = {}]
    /\ UNCHANGED <<rows, replayed, integrity, history>>

\* Mutant: the update writes the whole row the session holds
Written_wholeRow(loaded, changed) == changed

\* The columns of the row the session has changed are written, the others keep
\* what another session may have put there meanwhile
Written(loaded, changed) ==
    [status |-> IF changed.status = loaded.status
                THEN rows.case.status ELSE changed.status,
     moneyMoved |-> IF changed.moneyMoved = loaded.moneyMoved
                    THEN rows.case.moneyMoved ELSE changed.moneyMoved]
Held(s, row) == IF view[s] = NoRow THEN view ELSE [view EXCEPT ![s] = row]

\* update_case_status; moved stands for money_moved, None and False being one
UpdateCaseStatus(s, status, moved) ==
    LET loaded == get_case(s)
        changed == [status |-> status, moneyMoved |-> loaded.moneyMoved \/ moved]
    IN  /\ Exists
        /\ rows' = [rows EXCEPT !.case = Written(loaded, changed)]
        /\ record_event(ReplayCaseStatusUpdated(replayed, changed), TRUE)
        /\ view' = Held(s, changed)
        /\ outdated' = (outdated \/ loaded # rows.case)
        /\ UNCHANGED <<pending, overwritten>>

\* The engine's settlement of a posted credit: the status with money_moved=True,
\* then the MONEY_MOVED event
SettleMoneyMoved(s, status) ==
    LET loaded == get_case(s)
        changed == [status |-> status, moneyMoved |-> TRUE]
    IN  /\ Exists
        /\ rows' = [rows EXCEPT !.case = Written(loaded, changed)]
        /\ record_event(ReplayMoneyMoved(ReplayCaseStatusUpdated(replayed, changed)), TRUE)
        /\ view' = Held(s, changed)
        /\ outdated' = (outdated \/ loaded # rows.case)
        /\ UNCHANGED <<pending, overwritten>>

-----------------------------------------------------------------------------
(* Executions and intents *)

StartExecution(x) ==
    /\ Exists /\ rows.execution[x] = "NONE"
    /\ rows' = [rows EXCEPT !.execution = [@ EXCEPT ![x] = "RUNNING"]]
    /\ record_event(ReplayExecutionStarted(replayed, x), TRUE)
    /\ UNCHANGED <<held, history>>

CompleteExecution(x, outcome) ==
    /\ rows.execution[x] # "NONE"
    /\ rows' = [rows EXCEPT !.execution = [@ EXCEPT ![x] = outcome]]
    /\ record_event(ReplayExecutionCompleted(replayed, x, outcome),
                    replayed.execution[x] # "NONE")
    /\ UNCHANGED <<held, history>>

StageIntent(k) ==
    /\ Exists /\ rows.intent[k] = "NONE"
    /\ rows' = [rows EXCEPT !.intent = [@ EXCEPT ![k] = "STAGED"]]
    /\ record_event(ReplayIntentStaged(replayed, k), TRUE)
    /\ UNCHANGED <<held, history>>

MarkIntentCommitted(k) ==
    /\ rows.intent[k] = "STAGED"
    /\ rows' = [rows EXCEPT !.intent = [@ EXCEPT ![k] = "COMMITTED"]]
    /\ record_event(ReplayIntentCommitted(replayed, k), replayed.intent[k] # "NONE")
    /\ UNCHANGED <<held, history>>

-----------------------------------------------------------------------------
(* Effect claims *)

\* Mutant: the event carries the row as it was read, before the re-claim
ClaimEffect_unrefreshed(s, k) ==
    LET old == rows.claim[k]
        taken == [status |-> "CLAIMED", owner |-> s, token |-> old.token + 1]
        payload == IF old.status = "NONE" THEN taken ELSE [taken EXCEPT !.token = old.token]
    IN  /\ Exists
        /\ old.status \in {"NONE", "FAILED_RETRYABLE"} /\ old.token < MaxToken
        /\ rows' = [rows EXCEPT !.claim = [@ EXCEPT ![k] = taken]]
        /\ record_event(ReplayEffectClaimed(replayed, k, payload), TRUE)
        /\ UNCHANGED <<held, history>>

\* claim_effect: a new claim, or one left retryable under the next token.  The
\* row is refreshed before its values go into the event.
ClaimEffect(s, k) ==
    LET taken == [status |-> "CLAIMED", owner |-> s, token |-> rows.claim[k].token + 1]
    IN  /\ Exists
        /\ rows.claim[k].status \in {"NONE", "FAILED_RETRYABLE"}
        /\ rows.claim[k].token < MaxToken
        /\ rows' = [rows EXCEPT !.claim = [@ EXCEPT ![k] = taken]]
        /\ record_event(ReplayEffectClaimed(replayed, k, taken), TRUE)
        /\ UNCHANGED <<held, history>>

\* transition_effect_claim, called under the owner and token the row has
TransitionEffectClaim(k, to) ==
    LET moved == [rows.claim[k] EXCEPT !.status = to]
    IN  /\ rows.claim[k].status \in {"CLAIMED", "APPLYING"}
        /\ rows' = [rows EXCEPT !.claim = [@ EXCEPT ![k] = moved]]
        /\ record_event(ReplayEffectClaimTransitioned(replayed, k, moved),
                        replayed.claim[k].status # "NONE")
        /\ UNCHANGED <<held, history>>

-----------------------------------------------------------------------------
(* Deadlines and the notice obligation *)

\* create_deadline.  The table keeps no two rows of a type apart from the look-up
\* here, which holds no lock: two runs that open a case at once may each insert a
\* statutory deadline.  The model keeps one row of a type.
CreateDeadline(d) ==
    /\ Exists /\ rows.deadline[d] = "NONE"
    /\ rows' = [rows EXCEPT !.deadline = [@ EXCEPT ![d] = "PENDING"]]
    /\ record_event(ReplayDeadlineCreated(replayed, d), TRUE)
    /\ UNCHANGED <<held, history>>

ResolveDeadline(d) ==
    /\ rows.deadline[d] \in {"PENDING", "OVERDUE"}
    /\ rows' = [rows EXCEPT !.deadline = [@ EXCEPT ![d] = "MET"]]
    /\ record_event(ReplayDeadlineResolved(replayed, d), replayed.deadline[d] # "NONE")
    /\ overwritten' = overwritten \ {d}
    /\ UNCHANGED <<held, outdated>>

\* mark_overdue_deadlines, its SELECT: a read, for which no lock is held
LoadPending(s) ==
    /\ pending[s] = {}
    /\ pending' = [pending EXCEPT ![s] = {d \in DeadlineTypes : rows.deadline[d] = "PENDING"}]
    /\ UNCHANGED <<rows, replayed, integrity, view, history>>

\* mark_overdue_deadlines, its UPDATE by primary key, which writes OVERDUE over
\* whatever the row says by then.  It records DEADLINE_OVERDUE, for which
\* rebuild_case has no branch.
MarkOverdue(s, lapsed) ==
    /\ lapsed # {} /\ lapsed \subseteq pending[s]
    /\ rows' = [rows EXCEPT !.deadline =
                    [d \in DeadlineTypes |-> IF d \in lapsed THEN "OVERDUE" ELSE @[d]]]
    /\ record_event(replayed, TRUE)
    /\ pending' = [pending EXCEPT ![s] = {}]
    /\ overwritten' = overwritten \cup {d \in lapsed : rows.deadline[d] = "MET"}
    /\ UNCHANGED <<view, outdated>>

CreateObligation ==
    /\ Exists /\ rows.obligation = "NONE"
    /\ rows' = [rows EXCEPT !.obligation = "PLANNED"]
    /\ record_event(ReplayObligationCreated(replayed), TRUE)
    /\ UNCHANGED <<held, history>>

\* activate_obligation and satisfy_obligation test the session's copy of the row,
\* which is as old as the session's first look at it (get_obligations_for_case
\* before the credit; expire_on_commit=False).  The row was PLANNED when it was
\* created and any session may have loaded it then, so whatever it says now there
\* may be one to write ACTIVE, or SATISFIED again.
ActivateObligation ==
    /\ rows.obligation # "NONE"
    /\ rows' = [rows EXCEPT !.obligation = "ACTIVE"]
    /\ record_event(ReplayObligationActivated(replayed), replayed.obligation # "NONE")
    /\ UNCHANGED <<held, history>>

SatisfyObligation ==
    /\ rows.obligation # "NONE"
    /\ rows' = [rows EXCEPT !.obligation = "SATISFIED"]
    /\ record_event(ReplayObligationSatisfied(replayed), replayed.obligation # "NONE")
    /\ UNCHANGED <<held, history>>

-----------------------------------------------------------------------------
Next ==
    \/ \E s \in Sessions :
          \/ CreateCase(s)
          \/ LoadCase(s)
          \/ EndSession(s)
          \/ \E status \in Statuses :
                \/ \E moved \in BOOLEAN : UpdateCaseStatus(s, status, moved)
                \/ SettleMoneyMoved(s, status)
          \/ \E k \in Keys : ClaimEffect(s, k)
          \/ LoadPending(s)
          \/ \E lapsed \in SUBSET DeadlineTypes : MarkOverdue(s, lapsed)
    \/ \E x \in Executions :
          \/ StartExecution(x)
          \/ \E outcome \in Outcomes : CompleteExecution(x, outcome)
    \/ \E k \in Keys :
          \/ StageIntent(k)
          \/ MarkIntentCommitted(k)
          \/ \E to \in ClaimStatus \ {"NONE", "CLAIMED"} : TransitionEffectClaim(k, to)
    \/ \E d \in DeadlineTypes : CreateDeadline(d) \/ ResolveDeadline(d)
    \/ CreateObligation
    \/ ActivateObligation
    \/ SatisfyObligation

Spec == Init /\ [][Next]_vars

-----------------------------------------------------------------------------
(* Properties *)

\* rebuild_case meets no event without its creating event, and derives every
\* row besides the case's own; it has no branch for DEADLINE_OVERDUE, so a
\* lapsed deadline is PENDING again, or MET again when it was marked after it had
\* been resolved.
TablesRebuild ==
    /\ integrity
    /\ replayed.execution = rows.execution
    /\ replayed.intent = rows.intent
    /\ replayed.claim = rows.claim
    /\ replayed.obligation = rows.obligation
    /\ \A d \in DeadlineTypes :
          /\ d \in overwritten => rows.deadline[d] = "OVERDUE"
          /\ replayed.deadline[d] = IF d \in overwritten THEN "MET"
                                    ELSE IF rows.deadline[d] = "OVERDUE" THEN "PENDING"
                                    ELSE rows.deadline[d]

\* The events give back the case row as long as no session has updated it from
\* an old copy: the event carries the whole row, the UPDATE only what changed.
CaseRebuilds == ~outdated => replayed.case = rows.case

\* Whatever several sessions do to a case, a rebuild is never refused and gives
\* back the projections as the repository's calls left them, with three exceptions:
\* a deadline that lapsed is PENDING; one that a late marking has made OVERDUE
\* after it was resolved is MET; and the case row may differ once a session has
\* updated it from a copy no longer current.
RebuildFaithful == TablesRebuild /\ CaseRebuilds

\* No call, not even the update of a session that loaded the case before the
\* credit was posted, takes back the record that money moved.
MoneyNeverForgotten ==
    [][rows.case.moneyMoved => rows'.case.moneyMoved]_vars
=============================================================================

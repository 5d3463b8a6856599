--------------------------- MODULE EffectProtocol ---------------------------
(***************************************************************************)
(* The admission and settlement of ONE irreversible effect: one            *)
(* idempotency key, that is one COMMIT capability of one case              *)
(* (tandem/replay/engine.py, EffectEngine.execute_capability), with the    *)
(* ledger rows it writes (tandem/ledger/repository.py), the target system  *)
(* it calls, the operators who may take the case's control lease, process  *)
(* crashes, and the recovery of a dead worker's claim                      *)
(* (tandem/replay/crash_recovery.py).                                      *)
(*                                                                         *)
(* Every action that writes the ledger is one database transaction: the    *)
(* code between two session.commit() calls.  SQLite lets one writer in at  *)
(* a time, so a transaction is atomic; a crash before the commit loses it. *)
(* A process may crash between any two actions, which covers the crash     *)
(* points C to J of tandem/replay/crash_injection.py.                      *)
(***************************************************************************)
EXTENDS Naturals, FiniteSets

CONSTANTS
    Engines,        \* EffectEngine instances; owner_id AUTOMATION:pid:uuid is unique
    Procs,          \* worker processes (pids); a crashed pid is not reused
    ProcOf,         \* the process that runs an engine
    Operators,      \* human operators who can take or force-release the lease
    AUTOMATION,     \* the lease owner that the API's release_lease route writes
    NoOwner,        \* owner of a row that does not exist
    Transport,      \* "HTTP" (processor, documents) or "BROWSER" (core bank)
    MaxInquiries,   \* effect.reconciliation.max_inquiry_attempts
    Delivery        \* "late" if a request nobody waits for can still be applied
                    \* after an inquiry has answered (the target is slower than
                    \* the 5 s transport timeout or the 3 s network-idle wait),
                    \* "prompt" otherwise

ASSUME EngineAssumption ==
    /\ ProcOf \in [Engines -> Procs]
    /\ Engines \cap Operators = {}
    /\ AUTOMATION \notin Engines \cup Operators
    /\ NoOwner \notin Engines \cup Operators \cup {AUTOMATION}
ASSUME OptionAssumption ==
    /\ Transport \in {"HTTP", "BROWSER"}
    /\ MaxInquiries \in Nat
    /\ Delivery \in {"prompt", "late"}

VARIABLES
    alive,          \* the processes that have not crashed
    claim,          \* the effect_claims row
    intent,         \* the effect_intents row's intent_status
    lease,          \* the case_leases row
    executions,     \* per engine, the status of its capability_executions row
    recoveryRow,    \* status of the execution row that crash recovery adds
    pc, tok, out, tries,   \* per engine: place in the code, claim token,
                           \* ExecutionOutcome, inquiries made
    req,            \* per engine, its commit request
    record,         \* the effect's record at the target
    rec             \* per process, its run of recover_dead_effect_claims

ledger == <<claim, intent, lease, executions, recoveryRow>>
locals == <<pc, tok, out, tries>>
target == <<req, record>>
vars   == <<alive, ledger, locals, target, rec>>

-----------------------------------------------------------------------------
(* Rows and local values *)

EffectClaimStatus == {"CLAIMED", "APPLYING", "APPLIED", "UNCERTAIN",
                      "FAILED_RETRYABLE", "FAILED_PERMANENT"}
InProgress == {"CLAIMED", "APPLYING"}

\* "expired" is expires_at <= now with released_at still NULL
LeaseState == {"absent", "held", "expired", "released"}

OutcomeCategory == {"SUCCESS", "BUSINESS_OUTCOME", "RECOVERABLE_FAILURE",
                    "HARD_FAILURE", "UNCERTAIN_EFFECT", "NEEDS_HUMAN"}
OutcomeCode == {"COMPLETED", "CONFIRMED_APPLIED", "CONFIRMED_NOT_APPLIED",
                "MEMBER_NOT_FOUND", "SESSION_EXPIRED", "PAGE_DRIFT",
                "POLICY_VIOLATION", "LEASE_FENCED", "UNCERTAIN_EFFECT",
                "COMPLIANCE_INTERSTITIAL"}
ExecutionPhase == {"BEFORE_SUBMIT", "SUBMIT_INITIATED", "SUBMIT_CONFIRMED",
                   "AFTER_SUBMIT_UNKNOWN"}
ExecutionOutcome ==
    [category : OutcomeCategory, code : OutcomeCode, phase : ExecutionPhase]
Outcome(cat, code, phase) == [category |-> cat, code |-> code, phase |-> phase]
\* the default before execute() has returned: nothing submitted, nothing known
NoOutcome == Outcome("HARD_FAILURE", "POLICY_VIOLATION", "BEFORE_SUBMIT")

is_success(o) == o.category = "SUCCESS"

\* Statuses of an execution row: complete_execution writes the outcome's code
ExecutionStatus == {"NONE", "RUNNING", "ALREADY_APPLIED"} \cup OutcomeCode
Succeeded == {"COMPLETED", "CONFIRMED_APPLIED", "ALREADY_APPLIED"}

\* A request is on the wire until the target applies it, refuses it with 401,
\* or drops it (connection lost, or refused with another error status).
RequestState == {"none", "wire", "applied", "unauthorized", "dropped"}

EnginePc == {"idle", "claimed", "prechecked", "staged", "applying", "ready",
             "sent", "postcheck", "reconcile", "settle", "done", "raised",
             "crashed"}
Recovery == [pc : {"idle", "inquire", "present", "absent"},
             owner : Engines \cup {NoOwner}, token : Nat]
NoRecovery == [pc |-> "idle", owner |-> NoOwner, token |-> 0]

TypeOK ==
    /\ alive \subseteq Procs
    /\ claim \in [status : EffectClaimStatus \cup {"ABSENT"},
                  owner : Engines \cup {NoOwner}, token : Nat]
    /\ intent \in {"NONE", "STAGED", "COMMITTED"}
    /\ lease \in [state : LeaseState,
                  owner : Engines \cup Operators \cup {AUTOMATION, NoOwner}]
    /\ executions \in [Engines -> ExecutionStatus]
    /\ recoveryRow \in {"NONE", "COMPLETED"}
    /\ pc \in [Engines -> EnginePc]
    /\ tok \in [Engines -> Nat]
    /\ out \in [Engines -> ExecutionOutcome]
    /\ tries \in [Engines -> Nat]
    /\ req \in [Engines -> RequestState]
    /\ record \in {"absent", "present"}
    /\ rec \in [Procs -> Recovery]

Init ==
    /\ alive = Procs
    /\ claim = [status |-> "ABSENT", owner |-> NoOwner, token |-> 0]
    /\ intent = "NONE"
    /\ lease = [state |-> "absent", owner |-> NoOwner]
    /\ executions = [e \in Engines |-> "NONE"]
    /\ recoveryRow = "NONE"
    /\ pc = [e \in Engines |-> "idle"]
    /\ tok = [e \in Engines |-> 0]
    /\ out = [e \in Engines |-> NoOutcome]
    /\ tries = [e \in Engines |-> 0]
    /\ req = [e \in Engines |-> "none"]
    /\ record = "absent"
    /\ rec = [p \in Procs |-> NoRecovery]

-----------------------------------------------------------------------------
(* Helpers *)

Live(e) == ProcOf[e] \in alive

\* an engine of a crashed process is at "crashed", so At implies Live
At(e, l) == pc[e] = l
Goto(e, l) == pc' = [pc EXCEPT ![e] = l]

Recorded == record = "present"

\* An inquiry of the target is answered.  Unless late delivery is possible, no
\* request that its sender has stopped waiting for is still on the wire then.
Answered ==
    \/ Delivery = "late"
    \/ \A x \in Engines : req[x] = "wire" => At(x, "sent")

\* transition_effect_claim: the compare-and-set's WHERE clause
ClaimMatches(owner, token, from) ==
    claim.owner = owner /\ claim.token = token /\ claim.status \in from

\* acquire_lease finds no active lease of another owner
LeaseIsFree(o) == lease.state # "held" \/ lease.owner = o

\* heartbeat_lease: owner and fence match a lease that is neither released nor
\* expired.  An engine acquires the lease once and its owner_id is unique, so
\* its fencing token matches exactly when its owner_id does.
LeaseIsLive(o) == lease.state = "held" /\ lease.owner = o

\* release_lease(owner, token) finds its row; it does not look at expires_at
LeaseIsUnreleased(o) == lease.state \in {"held", "expired"} /\ lease.owner = o

\* nothing reads the owner of a released lease
ReleasedLease == [state |-> "released", owner |-> NoOwner]

\* Mutant: recovery does not probe the owner's pid
OwnerIsDead_unprobed(o) == o \in Engines

\* _local_owner_is_dead: only an engine's owner_id carries a pid to probe
OwnerIsDead(o) == o \in Engines /\ ~Live(o)

\* the lease after recovery: a dead owner's unreleased lease is released
LeaseAfterRecovery ==
    IF lease.state \in {"held", "expired"} /\ OwnerIsDead(lease.owner)
    THEN ReleasedLease ELSE lease

\* Mutant: an uncertain effect is left retryable
settle_claim_status_retriesUncertain(o) ==
    IF is_success(o) THEN "APPLIED"
    ELSE IF o.category \in {"UNCERTAIN_EFFECT", "RECOVERABLE_FAILURE", "NEEDS_HUMAN"}
              \/ o.code = "CONFIRMED_NOT_APPLIED"
         THEN "FAILED_RETRYABLE"
    ELSE "FAILED_PERMANENT"

settle_claim_status(o) ==
    IF is_success(o) THEN "APPLIED"
    ELSE IF \/ o.category = "UNCERTAIN_EFFECT"
            \/ o.phase # "BEFORE_SUBMIT" /\ o.code # "CONFIRMED_NOT_APPLIED"
         THEN "UNCERTAIN"
    ELSE IF \/ o.code = "CONFIRMED_NOT_APPLIED"
            \/ o.category \in {"RECOVERABLE_FAILURE", "NEEDS_HUMAN"}
         THEN "FAILED_RETRYABLE"
    ELSE "FAILED_PERMANENT"

-----------------------------------------------------------------------------
(* EffectEngine.execute_capability *)

\* Mutant: the re-claim of a FAILED_RETRYABLE row keeps its fencing token
ClaimEffect_keepsToken(e) ==
    /\ At(e, "idle")
    /\ claim.status \in {"ABSENT", "FAILED_RETRYABLE"}
    /\ LET t == IF claim.status = "ABSENT" THEN 1 ELSE claim.token IN
       /\ claim' = [status |-> "CLAIMED", owner |-> e, token |-> t]
       /\ tok' = [tok EXCEPT ![e] = t]
    /\ Goto(e, "claimed")
    /\ UNCHANGED <<alive, intent, lease, executions, recoveryRow, out, tries,
                   target, rec>>

\* Mutant: only an APPLIED claim turns a second worker away
ClaimEffect_takesOver(e) ==
    /\ At(e, "idle")
    /\ claim.status # "APPLIED"
    /\ claim' = [status |-> "CLAIMED", owner |-> e, token |-> claim.token + 1]
    /\ tok' = [tok EXCEPT ![e] = claim.token + 1]
    /\ Goto(e, "claimed")
    /\ UNCHANGED <<alive, intent, lease, executions, recoveryRow, out, tries,
                   target, rec>>

\* claim_effect, admitted: the row is inserted with token 1, or a
\* FAILED_RETRYABLE row is re-claimed with the next token.
ClaimEffect(e) ==
    /\ At(e, "idle")
    /\ claim.status \in {"ABSENT", "FAILED_RETRYABLE"}
    /\ claim' = [status |-> "CLAIMED", owner |-> e, token |-> claim.token + 1]
    /\ tok' = [tok EXCEPT ![e] = claim.token + 1]
    /\ Goto(e, "claimed")
    /\ UNCHANGED <<alive, intent, lease, executions, recoveryRow, out, tries,
                   target, rec>>

\* claim_effect, rejected: the caller gets ALREADY_CLAIMED or ALREADY_APPLIED
ClaimRejected(e) ==
    /\ At(e, "idle")
    /\ claim.status \notin {"ABSENT", "FAILED_RETRYABLE"}
    /\ Goto(e, "done")
    /\ UNCHANGED <<alive, ledger, tok, out, tries, target, rec>>

\* The precheck finds the record: an ALREADY_APPLIED execution is written and
\* the claim settles without a submit.  The intent is not touched.
PrecheckAlreadyApplied(e) ==
    /\ At(e, "claimed") /\ Answered /\ Recorded
    /\ executions' = [executions EXCEPT ![e] = "ALREADY_APPLIED"]
    /\ claim' = IF ClaimMatches(e, tok[e], {"CLAIMED"})
                THEN [claim EXCEPT !.status = "APPLIED"] ELSE claim
    /\ Goto(e, "done")
    /\ UNCHANGED <<alive, intent, lease, recoveryRow, tok, out, tries, target, rec>>

\* Mutant: the halt returns without settling the claim
PrecheckHalted_keepsClaim(e) ==
    /\ At(e, "claimed")
    /\ Goto(e, "done")
    /\ UNCHANGED <<alive, ledger, tok, out, tries, target, rec>>

\* The precheck is unavailable, ambiguous or malformed: nothing was submitted
PrecheckHalted(e) ==
    /\ At(e, "claimed")
    /\ claim' = IF ClaimMatches(e, tok[e], {"CLAIMED"})
                THEN [claim EXCEPT !.status = "FAILED_RETRYABLE"] ELSE claim
    /\ Goto(e, "done")
    /\ UNCHANGED <<alive, intent, lease, executions, recoveryRow, tok, out, tries,
                   target, rec>>

PrecheckNotApplied(e) ==
    /\ At(e, "claimed") /\ Answered /\ ~Recorded
    /\ Goto(e, "prechecked")
    /\ UNCHANGED <<alive, ledger, tok, out, tries, target, rec>>

\* Mutant: the intent is left for the settlement to write
StageIntent_deferred(e) ==
    /\ At(e, "prechecked")
    /\ Goto(e, "staged")
    /\ UNCHANGED <<alive, ledger, tok, out, tries, target, rec>>

\* stage_intent keeps a row that exists
StageIntent(e) ==
    /\ At(e, "prechecked")
    /\ intent' = IF intent = "NONE" THEN "STAGED" ELSE intent
    /\ Goto(e, "staged")
    /\ UNCHANGED <<alive, claim, lease, executions, recoveryRow, tok, out, tries,
                   target, rec>>

\* One transaction: the lease, the claim's APPLYING and a RUNNING execution
EnterApplying(e) ==
    /\ At(e, "staged")
    /\ LeaseIsFree(e)
    /\ ClaimMatches(e, tok[e], {"CLAIMED"})
    /\ lease' = [state |-> "held", owner |-> e]
    /\ claim' = [claim EXCEPT !.status = "APPLYING"]
    /\ executions' = [executions EXCEPT ![e] = "RUNNING"]
    /\ Goto(e, "applying")
    /\ UNCHANGED <<alive, intent, recoveryRow, tok, out, tries, target, rec>>

\* LeaseConflictError or a stale claim leaves execute_capability; the claim
\* stays CLAIMED because nothing on the way out settles it.
EnterApplyingRaises(e) ==
    /\ At(e, "staged")
    /\ ~LeaseIsFree(e) \/ ~ClaimMatches(e, tok[e], {"CLAIMED"})
    /\ Goto(e, "raised")
    /\ UNCHANGED <<alive, ledger, tok, out, tries, target, rec>>

\* maintain_action_lease before the action.  The browser executor repeats it
\* before every step; the last one, before SUBMIT, is the one that matters.
Heartbeat(e) ==
    /\ At(e, "applying")
    /\ LeaseIsLive(e)
    /\ Goto(e, "ready")
    /\ UNCHANGED <<alive, ledger, tok, out, tries, target, rec>>

\* The fence is lost: the HTTP path raises into the engine's reconciliation,
\* the browser executor answers NEEDS_HUMAN / LEASE_FENCED.
HeartbeatFenced(e) ==
    /\ At(e, "applying")
    /\ ~LeaseIsLive(e)
    /\ IF Transport = "HTTP"
       THEN Goto(e, "reconcile") /\ UNCHANGED out
       ELSE /\ Goto(e, "settle")
            /\ out' = [out EXCEPT ![e] =
                   Outcome("NEEDS_HUMAN", "LEASE_FENCED", "BEFORE_SUBMIT")]
    /\ UNCHANGED <<alive, ledger, tok, tries, target, rec>>

\* What can stop the replay before the submit
HaltsBeforeSubmit ==
    {Outcome("HARD_FAILURE", "POLICY_VIOLATION", "BEFORE_SUBMIT")} \cup
    (IF Transport = "HTTP" THEN {} ELSE
       {Outcome("RECOVERABLE_FAILURE", "PAGE_DRIFT", "BEFORE_SUBMIT"),
        Outcome("NEEDS_HUMAN", "COMPLIANCE_INTERSTITIAL", "BEFORE_SUBMIT"),
        Outcome("BUSINESS_OUTCOME", "MEMBER_NOT_FOUND", "BEFORE_SUBMIT")})

HaltBeforeSubmit(e) ==
    /\ At(e, "ready")
    /\ \E o \in HaltsBeforeSubmit : out' = [out EXCEPT ![e] = o]
    /\ Goto(e, "settle")
    /\ UNCHANGED <<alive, ledger, tok, tries, target, rec>>

\* httpx.post, or the click on the SUBMIT control
Submit(e) ==
    /\ At(e, "ready")
    /\ req' = [req EXCEPT ![e] = "wire"]
    /\ Goto(e, "sent")
    /\ UNCHANGED <<alive, ledger, tok, out, tries, record, rec>>

\* HTTP: a 2xx answer.  Browser: the click returns whether or not the page
\* settled, because the network-idle timeout is swallowed.
SubmitReturns(e) ==
    /\ At(e, "sent")
    /\ Transport = "HTTP" => req[e] = "applied"
    /\ Goto(e, "postcheck")
    /\ UNCHANGED <<alive, ledger, tok, out, tries, target, rec>>

\* HTTP 401: the target did not accept the request
SubmitUnauthorized(e) ==
    /\ At(e, "sent")
    /\ Transport = "HTTP" /\ req[e] = "unauthorized"
    /\ out' = [out EXCEPT ![e] =
           Outcome("RECOVERABLE_FAILURE", "SESSION_EXPIRED", "BEFORE_SUBMIT")]
    /\ Goto(e, "settle")
    /\ UNCHANGED <<alive, ledger, tok, tries, target, rec>>

\* Mutant: an exception after the submit is reported like one before it
SubmitInterrupted_asBefore(e) ==
    /\ At(e, "sent")
    /\ out' = [out EXCEPT ![e] =
           Outcome("RECOVERABLE_FAILURE", "PAGE_DRIFT", "BEFORE_SUBMIT")]
    /\ Goto(e, "settle")
    /\ UNCHANGED <<alive, ledger, tok, tries, target, rec>>

\* POSSIBLY_APPLIED: a transport error, a timeout, an error status, or an
\* exception after the click; the engine reconciles.
SubmitInterrupted(e) ==
    /\ At(e, "sent")
    /\ Goto(e, "reconcile")
    /\ UNCHANGED <<alive, ledger, tok, out, tries, target, rec>>

\* execute_postcheck confirms the record, in its own phase
PostcheckConfirms(e) ==
    /\ At(e, "postcheck") /\ Answered /\ Recorded
    /\ out' = [out EXCEPT ![e] = Outcome("SUCCESS", "COMPLETED", "SUBMIT_CONFIRMED")]
    /\ Goto(e, "settle")
    /\ UNCHANGED <<alive, ledger, tok, tries, target, rec>>

\* Absent, unavailable, ambiguous or malformed: AFTER_SUBMIT_UNKNOWN
PostcheckUnconfirmed(e) ==
    /\ At(e, "postcheck")
    /\ Goto(e, "reconcile")
    /\ UNCHANGED <<alive, ledger, tok, out, tries, target, rec>>

\* reconcile_commit_execution: the inquiry is conclusive
ReconcileConclusive(e) ==
    /\ At(e, "reconcile") /\ Answered
    /\ out' = [out EXCEPT ![e] =
           IF Recorded
           THEN Outcome("SUCCESS", "CONFIRMED_APPLIED", "SUBMIT_CONFIRMED")
           ELSE Outcome("BUSINESS_OUTCOME", "CONFIRMED_NOT_APPLIED",
                        "AFTER_SUBMIT_UNKNOWN")]
    /\ Goto(e, "settle")
    /\ UNCHANGED <<alive, ledger, tok, tries, target, rec>>

\* POSTCHECK_UNAVAILABLE: only the read-only inquiry is repeated
ReconcileRetry(e) ==
    /\ At(e, "reconcile")
    /\ tries[e] + 1 < MaxInquiries
    /\ tries' = [tries EXCEPT ![e] = @ + 1]
    /\ UNCHANGED <<alive, ledger, pc, tok, out, target, rec>>

\* The last attempt was unavailable, or an answer was ambiguous or malformed
ReconcileInconclusive(e) ==
    /\ At(e, "reconcile")
    /\ out' = [out EXCEPT ![e] =
           Outcome("UNCERTAIN_EFFECT", "UNCERTAIN_EFFECT", "AFTER_SUBMIT_UNKNOWN")]
    /\ Goto(e, "settle")
    /\ UNCHANGED <<alive, ledger, tok, tries, target, rec>>

\* Mutant: the intent is committed whatever the outcome
Settle_commitsIntent(e) ==
    /\ At(e, "settle")
    /\ ClaimMatches(e, tok[e], {"APPLYING"})
    /\ LeaseIsUnreleased(e)
    /\ executions' = [executions EXCEPT ![e] = out[e].code]
    /\ claim' = [claim EXCEPT !.status = settle_claim_status(out[e])]
    /\ intent' = "COMMITTED"
    /\ lease' = ReleasedLease
    /\ out' = [out EXCEPT ![e] = NoOutcome]
    /\ Goto(e, "done")
    /\ UNCHANGED <<alive, recoveryRow, tok, tries, target, rec>>

\* The settlement transaction: execution, claim, intent and lease together
Settle(e) ==
    /\ At(e, "settle")
    /\ ClaimMatches(e, tok[e], {"APPLYING"})
    /\ LeaseIsUnreleased(e)
    /\ executions' = [executions EXCEPT ![e] = out[e].code]
    /\ claim' = [claim EXCEPT !.status = settle_claim_status(out[e])]
    /\ intent' = IF is_success(out[e]) /\ intent # "NONE"
                 THEN "COMMITTED" ELSE intent
    /\ lease' = ReleasedLease
    /\ out' = [out EXCEPT ![e] = NoOutcome]
    /\ Goto(e, "done")
    /\ UNCHANGED <<alive, recoveryRow, tok, tries, target, rec>>

\* A stale claim or a lost lease raises inside the settlement and rolls all of
\* it back: the claim stays APPLYING and the execution RUNNING.
SettleRaises(e) ==
    /\ At(e, "settle")
    /\ ~ClaimMatches(e, tok[e], {"APPLYING"}) \/ ~LeaseIsUnreleased(e)
    /\ out' = [out EXCEPT ![e] = NoOutcome]
    /\ Goto(e, "raised")
    /\ UNCHANGED <<alive, ledger, tok, tries, target, rec>>

-----------------------------------------------------------------------------
(* The target: one record per case, whatever the number of requests *)

TargetApplies(e) ==
    /\ req[e] = "wire"
    /\ req' = [req EXCEPT ![e] = "applied"]
    /\ record' = "present"
    /\ UNCHANGED <<alive, ledger, locals, rec>>

TargetUnauthorized(e) ==
    /\ req[e] = "wire"
    /\ req' = [req EXCEPT ![e] = "unauthorized"]
    /\ UNCHANGED <<alive, ledger, locals, record, rec>>

RequestDropped(e) ==
    /\ req[e] = "wire"
    /\ req' = [req EXCEPT ![e] = "dropped"]
    /\ UNCHANGED <<alive, ledger, locals, record, rec>>

-----------------------------------------------------------------------------
(* Crashes and recover_dead_effect_claims, run by the worker of another      *)
(* process.  Its lease release commits with its last write, so it is part of *)
(* the concluding action.                                                    *)

Crash(p) ==
    /\ p \in alive
    /\ alive' = alive \ {p}
    /\ pc' = [e \in Engines |-> IF ProcOf[e] = p THEN "crashed" ELSE pc[e]]
    /\ out' = [e \in Engines |-> IF ProcOf[e] = p THEN NoOutcome ELSE out[e]]
    /\ rec' = [rec EXCEPT ![p] = NoRecovery]
    /\ UNCHANGED <<ledger, tok, tries, target>>

\* A claim in progress whose owner's pid is gone
RecoverScan(p) ==
    /\ p \in alive /\ rec[p].pc = "idle"
    /\ claim.status \in InProgress /\ OwnerIsDead(claim.owner)
    /\ rec' = [rec EXCEPT ![p] =
           [pc |-> "inquire", owner |-> claim.owner, token |-> claim.token]]
    /\ UNCHANGED <<alive, ledger, locals, target>>

\* No claim to recover (settled, or its owner is alive): only the lease
RecoverNothing(p) ==
    /\ p \in alive /\ rec[p].pc = "idle"
    /\ ~(claim.status \in InProgress /\ OwnerIsDead(claim.owner))
    /\ lease' = LeaseAfterRecovery
    /\ UNCHANGED <<alive, claim, intent, executions, recoveryRow, locals, target, rec>>

RecoverInquire(p) ==
    /\ p \in alive /\ rec[p].pc = "inquire" /\ Answered
    /\ rec' = [rec EXCEPT ![p].pc = IF Recorded THEN "present" ELSE "absent"]
    /\ UNCHANGED <<alive, ledger, locals, target>>

\* The inquiry is inconclusive: NEEDS_HUMAN, the claim stays as it is
RecoverInconclusive(p) ==
    /\ p \in alive /\ rec[p].pc = "inquire"
    /\ lease' = LeaseAfterRecovery
    /\ rec' = [rec EXCEPT ![p] = NoRecovery]
    /\ UNCHANGED <<alive, claim, intent, executions, recoveryRow, locals, target>>

RecoverApplied(p) ==
    /\ p \in alive /\ rec[p].pc = "present"
    /\ ClaimMatches(rec[p].owner, rec[p].token, InProgress)
    /\ claim' = [claim EXCEPT !.status = "APPLIED"]
    /\ recoveryRow' = IF \E e \in Engines : executions[e] \in {"COMPLETED", "ALREADY_APPLIED"}
                      THEN recoveryRow ELSE "COMPLETED"
    /\ intent' = "COMMITTED"
    /\ lease' = LeaseAfterRecovery
    /\ rec' = [rec EXCEPT ![p] = NoRecovery]
    /\ UNCHANGED <<alive, executions, locals, target>>

RecoverAbsent(p) ==
    /\ p \in alive /\ rec[p].pc = "absent"
    /\ ClaimMatches(rec[p].owner, rec[p].token, InProgress)
    /\ claim' = [claim EXCEPT !.status = "FAILED_RETRYABLE"]
    /\ lease' = LeaseAfterRecovery
    /\ rec' = [rec EXCEPT ![p] = NoRecovery]
    /\ UNCHANGED <<alive, intent, executions, recoveryRow, locals, target>>

\* "Claim changed concurrently during crash recovery": NEEDS_HUMAN
RecoverStale(p) ==
    /\ p \in alive /\ rec[p].pc \in {"present", "absent"}
    /\ ~ClaimMatches(rec[p].owner, rec[p].token, InProgress)
    /\ lease' = LeaseAfterRecovery
    /\ rec' = [rec EXCEPT ![p] = NoRecovery]
    /\ UNCHANGED <<alive, claim, intent, executions, recoveryRow, locals, target>>

-----------------------------------------------------------------------------
(* The control lease in other hands *)

\* five minutes without a heartbeat
LeaseExpires ==
    /\ lease.state = "held"
    /\ lease' = [lease EXCEPT !.state = "expired"]
    /\ UNCHANGED <<alive, claim, intent, executions, recoveryRow, locals, target, rec>>

\* HandoffCoordinator.initiate_handoff releases the lease whoever holds it.
\* (Its change of the case's status is outside this module.)
InitiateHandoff ==
    /\ Operators # {}
    /\ lease.state \in {"held", "expired"}
    /\ lease' = ReleasedLease
    /\ UNCHANGED <<alive, claim, intent, executions, recoveryRow, locals, target, rec>>

ClaimOperatorLease(o) ==
    /\ LeaseIsFree(o)
    /\ lease' = [state |-> "held", owner |-> o]
    /\ UNCHANGED <<alive, claim, intent, executions, recoveryRow, locals, target, rec>>

\* POST /cases/{case_id}/release_lease: release whoever holds it, then acquire
\* in the name "AUTOMATION"
HandleReleaseLease ==
    /\ Operators # {}
    /\ lease' = [state |-> "held", owner |-> AUTOMATION]
    /\ UNCHANGED <<alive, claim, intent, executions, recoveryRow, locals, target, rec>>

-----------------------------------------------------------------------------
\* the steps of an engine that has been admitted
Proceed(e) ==
    \/ PrecheckAlreadyApplied(e) \/ PrecheckHalted(e) \/ PrecheckNotApplied(e)
    \/ StageIntent(e)
    \/ EnterApplying(e) \/ EnterApplyingRaises(e)
    \/ Heartbeat(e) \/ HeartbeatFenced(e)
    \/ HaltBeforeSubmit(e) \/ Submit(e)
    \/ SubmitReturns(e) \/ SubmitUnauthorized(e) \/ SubmitInterrupted(e)
    \/ PostcheckConfirms(e) \/ PostcheckUnconfirmed(e)
    \/ ReconcileConclusive(e) \/ ReconcileRetry(e) \/ ReconcileInconclusive(e)
    \/ Settle(e) \/ SettleRaises(e)

Resolve(e) == TargetApplies(e) \/ TargetUnauthorized(e) \/ RequestDropped(e)

Recover(p) ==
    \/ RecoverScan(p) \/ RecoverNothing(p) \/ RecoverInquire(p)
    \/ RecoverInconclusive(p) \/ RecoverApplied(p) \/ RecoverAbsent(p)
    \/ RecoverStale(p)

Next ==
    \/ \E e \in Engines :
         ClaimEffect(e) \/ ClaimRejected(e) \/ Proceed(e) \/ Resolve(e)
    \/ \E p \in Procs : Crash(p) \/ Recover(p)
    \/ LeaseExpires \/ InitiateHandoff \/ HandleReleaseLease
    \/ \E o \in Operators : ClaimOperatorLease(o)

Spec == Init /\ [][Next]_vars

\* A running engine keeps running, and the network resolves every request.
\* Crashes, operators, the clock and new engines owe nothing.
FairSpec ==
    /\ Spec
    /\ \A e \in Engines : WF_vars(Proceed(e)) /\ WF_vars(Resolve(e))

-----------------------------------------------------------------------------
(* Properties *)

\* an engine between its admission and its return
Admitted == {"claimed", "prechecked", "staged", "applying", "ready", "sent",
             "postcheck", "reconcile", "settle"}

\* At any time at most one running engine is between the admission of the
\* effect and its settlement, and that engine is the claim's fenced owner:
\* claim_effect, re-claims and crash recovery never let a second worker in.
ExclusiveAdmission ==
    \A e \in Engines : pc[e] \in Admitted =>
        /\ ClaimMatches(e, tok[e], InProgress)
        /\ \A f \in Engines \ {e} : pc[f] \notin Admitted

SuccessRows == {e \in Engines : executions[e] \in Succeeded}

\* The ledger never claims an effect the target does not have, and counts it
\* once: an APPLIED claim has a record at the target and exactly one successful
\* execution row, whoever settled it (engine, precheck or crash recovery), and
\* any other claim has none; a COMMITTED intent belongs to an APPLIED claim.
LedgerMatchesTarget ==
    /\ claim.status = "APPLIED" =>
         /\ Recorded
         /\ \/ recoveryRow = "COMPLETED" /\ SuccessRows = {}
            \/ recoveryRow = "NONE" /\ \E e \in Engines : SuccessRows = {e}
    /\ claim.status # "APPLIED" =>
         recoveryRow = "NONE" /\ SuccessRows = {} /\ intent # "COMMITTED"

\* Write-ahead: no commit request exists before the intent, the claim's
\* APPLYING and a RUNNING execution are durable, so a crash at any later point
\* finds evidence of it.
WriteAhead ==
    \A e \in Engines : req[e] # "none" =>
        /\ intent # "NONE"
        /\ executions[e] # "NONE"
        /\ \/ claim.token > tok[e]
           \/ ClaimMatches(e, tok[e], EffectClaimStatus \ {"CLAIMED"})

\* reconciliation.py: "An uncertain effect MUST NEVER be blindly retried".  No
\* two commit requests for the effect are ever outstanding or applied.
SingleActuation ==
    \A e, f \in Engines :
        req[e] \in {"wire", "applied"} /\ req[f] \in {"wire", "applied"} => e = f

\* An effect the target holds is never up for another attempt nor written off:
\* its claim is still owned, parked UNCERTAIN, or APPLIED.
EffectIsFenced ==
    Recorded => claim.status \in {"APPLYING", "UNCERTAIN", "APPLIED"}

\* A settled claim stays settled, and the claim changes hands only by a
\* re-claim of a FAILED_RETRYABLE row under the next fencing token; a stale
\* worker or a slow recovery never overwrites a newer owner's claim.
ClaimDiscipline ==
    [][/\ claim.status \in {"APPLIED", "UNCERTAIN", "FAILED_PERMANENT"} =>
            claim' = claim
       /\ claim'.owner # claim.owner =>
            /\ claim.status \in {"ABSENT", "FAILED_RETRYABLE"}
            /\ claim'.token = claim.token + 1]_claim

\* What the protocol promises to its callers, as a specification of its own:
\* every step of execute_capability and of the recovery is a step of
\* EffectGuarantee or invisible to it.
GuaranteePhase ==
    CASE claim.status \in {"ABSENT", "FAILED_RETRYABLE"} -> "open"
      [] claim.status \in InProgress                     -> "held"
      [] claim.status = "APPLIED"                        -> "confirmed"
      [] claim.status = "UNCERTAIN"                      -> "parked"
      [] claim.status = "FAILED_PERMANENT"               -> "closed"
Applied == {e \in Engines : req[e] = "applied"}
Guarantee == INSTANCE EffectGuarantee WITH
    phase <- GuaranteePhase, effects <- Applied
ImplementsGuarantee == Guarantee!Spec

\* An admitted engine whose process does not crash settles its claim (when no
\* operator interferes with its lease): it never leaves one behind that no
\* later worker can take.
AdmissionSettles ==
    \A e \in Engines :
        pc[e] = "claimed" ~> ~Live(e) \/ ~ClaimMatches(e, tok[e], InProgress)

\* engine.py settle_claim_status: "Halts that provably happened before the
\* submit -- ... a human interstitial ... -- leave the claim retryable".
HumanHaltLeavesRetryable ==
    \A e \in Engines :
        At(e, "settle") /\ out[e].category = "NEEDS_HUMAN"
            ~> ~Live(e) \/ claim.status = "FAILED_RETRYABLE" \/ claim.token > tok[e]

-----------------------------------------------------------------------------
(* Inductive invariants *)

\* An admitted engine owns the claim under its token, in the status that its
\* place in the code implies; tokens never run ahead of the claim's; an engine
\* is at "crashed" exactly when its process is dead.
Ownership ==
    \A e \in Engines :
        /\ pc[e] = "crashed" <=> ~Live(e)
        /\ tok[e] <= claim.token
        /\ pc[e] \in {"claimed", "prechecked", "staged"} =>
             ClaimMatches(e, tok[e], {"CLAIMED"})
        /\ pc[e] \in Admitted \ {"claimed", "prechecked", "staged"} =>
             ClaimMatches(e, tok[e], {"APPLYING"})

\* Evidence precedes the request, and there is none before the submit
Evidence ==
    \A e \in Engines :
        /\ pc[e] \in Admitted \ {"claimed", "prechecked"} => intent # "NONE"
        /\ pc[e] \in Admitted \ {"claimed", "prechecked", "staged"} =>
             executions[e] = "RUNNING"
        /\ pc[e] \in {"idle", "claimed", "prechecked", "staged", "applying", "ready"} =>
             req[e] = "none"

\* A successful outcome in an engine's hands is the target's
EngineKnowledge ==
    \A e \in Engines :
        /\ is_success(out[e]) => pc[e] = "settle" /\ Recorded
        /\ is_success(out[e]) <=> out[e].code \in {"COMPLETED", "CONFIRMED_APPLIED"}

\* A recovery follows a dead owner and an issued token; a record it saw exists
RecoveryKnowledge ==
    \A p \in Procs : rec[p].pc # "idle" =>
        /\ OwnerIsDead(rec[p].owner)
        /\ rec[p].token <= claim.token
        /\ rec[p].pc = "present" => Recorded

\* SafetyInv is inductive and implies the safety properties that hold for
\* both values of Delivery: admission, evidence and knowledge together are
\* what keeps the ledger in step with the target across crashes.
SafetyInv ==
    /\ TypeOK /\ Ownership /\ Evidence /\ EngineKnowledge /\ RecoveryKnowledge
    /\ LedgerMatchesTarget /\ WriteAhead

\* The record is the doing of this protocol's requests
TargetTruth == Recorded <=> \E e \in Engines : req[e] = "applied"

\* A request that is outstanding or applied is the current owner's
RequestOwned ==
    \A e \in Engines :
        /\ req[e] = "wire" => ClaimMatches(e, tok[e], {"APPLYING", "UNCERTAIN"})
        /\ req[e] = "applied" =>
             ClaimMatches(e, tok[e], {"APPLYING", "UNCERTAIN", "APPLIED"})

\* Whoever is about to declare the effect absent (an engine's settlement, a
\* recovery) is right: the owner's request is gone
AbsenceKnown ==
    /\ \A e \in Engines :
         pc[e] = "settle" /\ settle_claim_status(out[e]) \in
                                {"FAILED_RETRYABLE", "FAILED_PERMANENT"}
           => req[e] \notin {"wire", "applied"}
    /\ \A p \in Procs :
         /\ rec[p].pc = "absent"
         /\ ClaimMatches(rec[p].owner, rec[p].token, InProgress)
         => req[rec[p].owner] \notin {"wire", "applied"}

\* With SafetyInv, inductive when no delivery is late; implies SingleActuation
\* and EffectIsFenced
PromptInv == TargetTruth /\ RequestOwned /\ AbsenceKnown
=============================================================================

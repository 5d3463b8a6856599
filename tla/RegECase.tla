------------------------------ MODULE RegECase ------------------------------
(***************************************************************************)
(* One Regulation E dispute: RegEWorkflow.run_case                         *)
(* (tandem/workflow/reg_e.py) and its state machine, run by the worker     *)
(* pool of successive service processes (tandem/automation/worker.py),     *)
(* with the case's row, its notice obligation and deadlines, and its three *)
(* irreversible effects.                                                   *)
(*                                                                         *)
(* An effect appears here as EffectGuarantee presents it (open, held,      *)
(* parked, confirmed, closed); EffectProtocol shows how the engine keeps   *)
(* that promise.  A worker is the life of one service process, which runs  *)
(* this case at most once: its startup scan resubmits a case it finds, or  *)
(* its API opens the case.  Each action is the code up to one commit.      *)
(***************************************************************************)
EXTENDS Naturals, Sequences, FiniteSets

CONSTANTS
    Lives,      \* the lives of service processes, numbered as they begin
    NoWorker,   \* holder of a claim nobody holds
    Concurrent  \* the lives that may begin while another one has not ended

ASSUME WorkerAssumption ==
    Lives \in Nat /\ NoWorker \notin 1..Lives /\ Concurrent \subseteq 1..Lives

Workers == 1..Lives

VARIABLES
    status,         \* procedure_cases.status, "ABSENT" before the row exists
    moneyMoved,     \* procedure_cases.money_moved
    obligation,     \* status of the NOTICE_2_DAY obligation
    deadlines,      \* status each deadline has by its events (see below)
    completed,      \* capabilities with a successful execution row
    phase, holder,  \* per effect: its claim, and the worker that holds it
    record,         \* per effect: the target has it
    proc,           \* per worker: its process has not started, is up, or died
    overlapped,     \* whether a process has ever started beside another one
    pc,             \* per worker: its task's place in run_case
    seen,           \* per worker: the case status its session has loaded
    snap,           \* per worker: snapshot.completed_capabilities
    loaded          \* per worker: the status its session's copy of the obligation has

\* (By its events a deadline is PENDING until it is MET.  The row may say OVERDUE
\* before that, or after it when a marking comes late: see CaseProjections.)
case    == <<status, moneyMoved, obligation, deadlines>>
effects == <<completed, phase, holder, record>>
procs   == <<proc, overlapped>>
tasks   == <<procs, pc, seen, snap, loaded>>
vars    == <<case, effects, tasks>>

-----------------------------------------------------------------------------
Effects == {"processor.file_chargeback", "core.post_provisional_credit",
            "docs.send_notice"}
Chargeback == "processor.file_chargeback"
Credit == "core.post_provisional_credit"
Notice == "docs.send_notice"
Reads == {"core.verify_member", "core.locate_transaction",
          "core.check_duplicate_dispute"}
Statutory == {"INVESTIGATION_10_DAY", "FINAL_RESOLUTION_45_DAY"}

HAPPY_PATH == <<"RECEIVED", "MEMBER_VERIFIED", "TRANSACTION_VERIFIED",
                "DUPLICATE_CHECKED", "CHARGEBACK_FILED",
                "PROVISIONAL_CREDIT_POSTED", "NOTICE_PENDING", "NOTICE_SENT",
                "WAITING_RESOLUTION">>
HappyStates == {HAPPY_PATH[i] : i \in 1..Len(HAPPY_PATH)}
Index(s) == CHOOSE i \in 1..Len(HAPPY_PATH) : HAPPY_PATH[i] = s
RegEState == HappyStates \cup {"RESOLVED", "NEEDS_HUMAN", "UNCERTAIN_EFFECT", "FAILED"}

VALID_TRANSITIONS ==
    [RECEIVED |-> {"MEMBER_VERIFIED", "FAILED", "NEEDS_HUMAN"},
     MEMBER_VERIFIED |-> {"TRANSACTION_VERIFIED", "FAILED", "NEEDS_HUMAN"},
     TRANSACTION_VERIFIED |-> {"DUPLICATE_CHECKED", "FAILED", "NEEDS_HUMAN"},
     DUPLICATE_CHECKED |-> {"CHARGEBACK_FILED", "PROVISIONAL_CREDIT_POSTED",
                            "RESOLVED", "NEEDS_HUMAN", "FAILED"},
     CHARGEBACK_FILED |-> {"PROVISIONAL_CREDIT_POSTED", "NEEDS_HUMAN",
                           "UNCERTAIN_EFFECT", "FAILED"},
     PROVISIONAL_CREDIT_POSTED |-> {"NOTICE_PENDING", "NOTICE_SENT",
                                    "NEEDS_HUMAN", "UNCERTAIN_EFFECT", "FAILED"},
     NOTICE_PENDING |-> {"NOTICE_SENT", "NEEDS_HUMAN", "FAILED"},
     NOTICE_SENT |-> {"WAITING_RESOLUTION", "RESOLVED"},
     WAITING_RESOLUTION |-> {"RESOLVED", "NEEDS_HUMAN"},
     NEEDS_HUMAN |-> RegEState \ {"RECEIVED", "NEEDS_HUMAN", "UNCERTAIN_EFFECT"},
     UNCERTAIN_EFFECT |-> {"NEEDS_HUMAN", "RESOLVED", "FAILED"},
     RESOLVED |-> {},
     FAILED |-> {}]
can_transition(s, t) == s = t \/ t \in VALID_TRANSITIONS[s]

DO_NOT_AUTO_RESUME ==
    {"NEEDS_HUMAN", "UNCERTAIN_EFFECT", "FAILED", "RESOLVED", "WAITING_RESOLUTION"}

\* The places of a task, in the order of the code.  "to_S" is the failure
\* return that first moves the case to S; in "X.claimed" and "X.submitted" the
\* task is inside the engine, holding the claim of effect X.
ReadPlace == {"verify", "locate", "duplicate"}
EffectPlace == {"file", "credit", "notify"}
Claimed(l) == CASE l = "file" -> "file.claimed"
                [] l = "credit" -> "credit.claimed"
                [] l = "notify" -> "notify.claimed"
Submitted(l) == CASE l = "file" -> "file.submitted"
                  [] l = "credit" -> "credit.submitted"
                  [] l = "notify" -> "notify.submitted"
EffectAt == [file |-> Chargeback, credit |-> Credit, notify |-> Notice]
AfterEffect == [file |-> "filed", credit |-> "activate", notify |-> "notified"]

InRunCase ==
    {"open", "deadlines", "recover", "reconcile", "resume", "bind", "filed",
     "activate", "pending", "notified", "waiting",
     "to_FAILED", "to_NEEDS_HUMAN", "to_UNCERTAIN_EFFECT"}
    \cup ReadPlace \cup EffectPlace
    \cup {Claimed(l) : l \in EffectPlace} \cup {Submitted(l) : l \in EffectPlace}
Place == InRunCase \cup {"idle", "queued", "raised", "returned", "dead"}

TypeOK ==
    /\ status \in RegEState \cup {"ABSENT"}
    /\ moneyMoved \in BOOLEAN
    /\ obligation \in {"NONE", "PLANNED", "ACTIVE", "SATISFIED"}
    /\ deadlines \in [Statutory \cup {"NOTICE_2_DAY"} -> {"NONE", "PENDING", "MET"}]
    /\ completed \subseteq Effects \cup Reads
    /\ phase \in [Effects -> {"open", "held", "parked", "confirmed", "closed"}]
    /\ holder \in [Effects -> Workers \cup {NoWorker}]
    /\ record \in [Effects -> BOOLEAN]
    /\ proc \in [Workers -> {"off", "up", "dead"}]
    /\ overlapped \in BOOLEAN
    /\ pc \in [Workers -> Place]
    /\ seen \in [Workers -> RegEState \cup {"fresh"}]
    /\ snap \in [Workers -> SUBSET (Effects \cup Reads)]
    /\ loaded \in [Workers -> {"unread", "PLANNED", "ACTIVE", "SATISFIED"}]

Init ==
    /\ status = "ABSENT"
    /\ moneyMoved = FALSE
    /\ obligation = "NONE"
    /\ deadlines = [d \in Statutory \cup {"NOTICE_2_DAY"} |-> "NONE"]
    /\ completed = {}
    /\ phase = [c \in Effects |-> "open"]
    /\ holder = [c \in Effects |-> NoWorker]
    /\ record = [c \in Effects |-> FALSE]
    /\ proc = [w \in Workers |-> "off"]
    /\ overlapped = FALSE
    /\ pc = [w \in Workers |-> "idle"]
    /\ seen = [w \in Workers |-> "fresh"]
    /\ snap = [w \in Workers |-> {}]
    /\ loaded = [w \in Workers |-> "unread"]

-----------------------------------------------------------------------------
(* Helpers *)

At(w, l) == pc[w] = l
Goto(w, l) == pc' = [pc EXCEPT ![w] = l]

\* Sessions keep loaded rows (expire_on_commit=False) and run_case holds on to
\* existing_case, so a resumed run reads the status it first loaded or last
\* wrote; a run that created the case has kept no row and reads afresh.
Seen(w) == IF seen[w] = "fresh" THEN status ELSE seen[w]

\* update_case_status: an UPDATE carries the columns that differ from what the
\* session has loaded
SetStatus(w, s) ==
    /\ status' = IF Seen(w) = s THEN status ELSE s
    /\ seen' = IF seen[w] = "fresh" THEN seen ELSE [seen EXCEPT ![w] = s]

KeepStatus == UNCHANGED <<status, seen>>

\* _ensure_reached: the projection is behind and may catch up
Behind(w, milestone) ==
    /\ ~(Seen(w) \in HappyStates /\ Index(Seen(w)) >= Index(milestone))
    /\ can_transition(Seen(w), milestone)
EnsureReached(w, milestone) ==
    IF Behind(w, milestone) THEN SetStatus(w, milestone) ELSE KeepStatus

HeldClaims == {c \in Effects : phase[c] = "held"}
LiveClaims == {c \in HeldClaims : proc[holder[c]] = "up"}

\* create_deadline keeps a row that exists
WithDeadlines(types) ==
    [d \in DOMAIN deadlines |->
        IF d \in types /\ deadlines[d] = "NONE" THEN "PENDING" ELSE deadlines[d]]
WithObligation == IF obligation = "NONE" THEN "PLANNED" ELSE obligation

-----------------------------------------------------------------------------
(* Service processes: CaseRunner and the API *)

Alone == \A v \in Workers : proc[v] # "up"
NextLife(w) == proc[w] = "off" /\ \A v \in 1..(w - 1) : proc[v] # "off"

\* Mutant: the scan resubmits only the cases that have not begun
Boot_onlyReceived(w) ==
    /\ NextLife(w)
    /\ Alone \/ w \in Concurrent
    /\ proc' = [proc EXCEPT ![w] = "up"]
    /\ overlapped' = (overlapped \/ ~Alone)
    /\ IF status = "RECEIVED" THEN Goto(w, "queued") ELSE UNCHANGED pc
    /\ UNCHANGED <<case, effects, seen, snap, loaded>>

\* Mutant: the scan resubmits the cases parked for a human as well
Boot_resumesParked(w) ==
    /\ NextLife(w)
    /\ Alone \/ w \in Concurrent
    /\ proc' = [proc EXCEPT ![w] = "up"]
    /\ overlapped' = (overlapped \/ ~Alone)
    /\ IF status \notin (DO_NOT_AUTO_RESUME \ {"NEEDS_HUMAN"}) \cup {"ABSENT"}
       THEN Goto(w, "queued") ELSE UNCHANGED pc
    /\ UNCHANGED <<case, effects, seen, snap, loaded>>

\* The startup event: recover_incomplete_cases resubmits a case in flight
Boot(w) ==
    /\ NextLife(w)
    /\ Alone \/ w \in Concurrent
    /\ proc' = [proc EXCEPT ![w] = "up"]
    /\ overlapped' = (overlapped \/ ~Alone)
    /\ IF status \notin DO_NOT_AUTO_RESUME \cup {"ABSENT"}
       THEN Goto(w, "queued") ELSE UNCHANGED pc
    /\ UNCHANGED <<case, effects, seen, snap, loaded>>

\* POST /api/cases commits the row, then submits the task
ApiCreateCase(w) ==
    /\ proc[w] = "up" /\ At(w, "idle")
    /\ status = "ABSENT"
    /\ status' = "RECEIVED"
    /\ Goto(w, "queued")
    /\ UNCHANGED <<moneyMoved, obligation, deadlines, effects, procs, seen, snap, loaded>>

\* run_case called directly (scripts/demo.py) finds no row
RunNewCase(w) ==
    /\ proc[w] = "up" /\ At(w, "idle")
    /\ status = "ABSENT"
    /\ Goto(w, "open")
    /\ UNCHANGED <<case, effects, procs, seen, snap, loaded>>

Crash(w) ==
    /\ proc[w] = "up"
    /\ proc' = [proc EXCEPT ![w] = "dead"]
    /\ Goto(w, "dead")
    /\ seen' = [seen EXCEPT ![w] = "fresh"]
    /\ snap' = [snap EXCEPT ![w] = {}]
    /\ loaded' = [loaded EXCEPT ![w] = "unread"]
    /\ UNCHANGED <<case, effects, overlapped>>

\* An exception leaves run_case: a target that does not answer a read, a lost
\* lease, a stale claim, a database or browser error.  A claim stays held.
TaskRaises(w) ==
    /\ pc[w] \in InRunCase
    /\ Goto(w, "raised")
    /\ UNCHANGED <<case, effects, procs, seen, snap, loaded>>

\* _fail_closed for a task of the runner, in a session of its own
FailClosed(w) ==
    /\ At(w, "raised") /\ seen[w] # "fresh"
    /\ status' = "NEEDS_HUMAN"
    /\ Goto(w, "returned")
    /\ UNCHANGED <<moneyMoved, obligation, deadlines, effects, procs, seen, snap, loaded>>

\* An exception ends a script that called run_case directly
ScriptExits(w) ==
    /\ At(w, "raised") /\ seen[w] = "fresh"
    /\ proc' = [proc EXCEPT ![w] = "dead"]
    /\ Goto(w, "dead")
    /\ snap' = [snap EXCEPT ![w] = {}]
    /\ loaded' = [loaded EXCEPT ![w] = "unread"]
    /\ UNCHANGED <<case, effects, overlapped, seen>>

-----------------------------------------------------------------------------
(* run_case: opening or resuming *)

StartTask(w) ==
    /\ At(w, "queued")
    /\ seen' = [seen EXCEPT ![w] = status]
    /\ Goto(w, "recover")
    /\ UNCHANGED <<case, effects, procs, snap, loaded>>

\* create_or_get_case and the obligation commit together
OpenCase(w) ==
    /\ At(w, "open")
    /\ status' = IF status = "ABSENT" THEN "RECEIVED" ELSE status
    /\ obligation' = WithObligation
    /\ Goto(w, "deadlines")
    /\ UNCHANGED <<moneyMoved, deadlines, effects, procs, seen, snap, loaded>>

RegisterDeadlines(w) ==
    /\ At(w, "deadlines")
    /\ deadlines' = WithDeadlines(Statutory)
    /\ snap' = [snap EXCEPT ![w] = completed]
    /\ Goto(w, "verify")
    /\ UNCHANGED <<status, moneyMoved, obligation, effects, procs, seen, loaded>>

\* Mutant: every claim in progress is taken for abandoned
RecoverClaims_anyOwner(w) ==
    /\ At(w, "recover")
    /\ LET applied == {c \in HeldClaims : record[c]} IN
       /\ phase' = [c \in Effects |->
              IF c \in applied THEN "confirmed"
              ELSE IF c \in HeldClaims THEN "open" ELSE phase[c]]
       /\ completed' = completed \cup applied
    /\ holder' = [c \in Effects |-> IF c \in HeldClaims THEN NoWorker ELSE holder[c]]
    /\ KeepStatus
    /\ Goto(w, "reconcile")
    /\ UNCHANGED <<moneyMoved, obligation, deadlines, record, procs, snap, loaded>>

\* recover_dead_effect_claims asks the target about each abandoned claim
\* (OneHeldClaim: there is at most one)
RecoverClaims(w) ==
    /\ At(w, "recover")
    /\ LiveClaims = {}
    /\ LET applied == {c \in HeldClaims : record[c]} IN
       /\ phase' = [c \in Effects |->
              IF c \in applied THEN "confirmed"
              ELSE IF c \in HeldClaims THEN "open" ELSE phase[c]]
       /\ completed' = completed \cup applied
       /\ IF Credit \in applied
          THEN SetStatus(w, "PROVISIONAL_CREDIT_POSTED") /\ moneyMoved' = TRUE
          ELSE KeepStatus /\ UNCHANGED moneyMoved
    /\ holder' = [c \in Effects |-> IF c \in HeldClaims THEN NoWorker ELSE holder[c]]
    /\ Goto(w, "reconcile")
    /\ UNCHANGED <<obligation, deadlines, record, procs, snap, loaded>>

\* A live owner, or an inconclusive inquiry about a dead one's claim
RecoveryFails(w) ==
    /\ At(w, "recover")
    /\ HeldClaims # {}
    /\ SetStatus(w, "NEEDS_HUMAN")
    /\ Goto(w, "returned")
    /\ UNCHANGED <<moneyMoved, obligation, deadlines, effects, procs, snap, loaded>>

\* reconcile_applied_effects finds every confirmed effect at its target
ReconcileApplied(w) ==
    /\ At(w, "reconcile")
    /\ \A c \in Effects : phase[c] = "confirmed" => record[c]
    /\ Goto(w, "resume")
    /\ UNCHANGED <<case, effects, procs, seen, snap, loaded>>

\* A target is unavailable or diverges
ReconcileFails(w) ==
    /\ At(w, "reconcile")
    /\ \E c \in Effects : phase[c] = "confirmed"
    /\ SetStatus(w, "NEEDS_HUMAN")
    /\ Goto(w, "returned")
    /\ UNCHANGED <<moneyMoved, obligation, deadlines, effects, procs, snap, loaded>>

\* Mutant: the resume counts on the deadlines of the first run
Resume_noDeadlines(w) ==
    /\ At(w, "resume")
    /\ obligation' = WithObligation
    /\ snap' = [snap EXCEPT ![w] = completed]
    /\ Goto(w, "verify")
    /\ UNCHANGED <<status, moneyMoved, deadlines, effects, procs, seen, loaded>>

Resume(w) ==
    /\ At(w, "resume")
    /\ obligation' = WithObligation
    /\ deadlines' = WithDeadlines(Statutory)
    /\ snap' = [snap EXCEPT ![w] = completed]
    /\ Goto(w, "verify")
    /\ UNCHANGED <<status, moneyMoved, effects, procs, seen, loaded>>

-----------------------------------------------------------------------------
(* run_case: the read steps *)

ReadAt == [verify    |-> [cap |-> "core.verify_member",
                          state |-> "MEMBER_VERIFIED", next |-> "bind"],
           locate    |-> [cap |-> "core.locate_transaction",
                          state |-> "TRANSACTION_VERIFIED", next |-> "duplicate"],
           duplicate |-> [cap |-> "core.check_duplicate_dispute",
                          state |-> "DUPLICATE_CHECKED", next |-> "file"]]

\* The execution row and the transition commit together; an illegal
\* transition raises.
ReadStep(w) ==
    /\ pc[w] \in ReadPlace
    /\ LET r == ReadAt[pc[w]] IN
       IF r.cap \in snap[w]
       THEN KeepStatus /\ UNCHANGED completed /\ Goto(w, r.next)
       ELSE IF can_transition(Seen(w), r.state)
       THEN /\ SetStatus(w, r.state)
            /\ completed' = completed \cup {r.cap}
            /\ Goto(w, r.next)
       ELSE KeepStatus /\ UNCHANGED completed /\ Goto(w, "raised")
    /\ UNCHANGED <<moneyMoved, obligation, deadlines, phase, holder, record, procs, snap, loaded>>

\* The core bank does not know the member
VerifyFails(w) ==
    /\ At(w, "verify") /\ "core.verify_member" \notin snap[w]
    /\ Goto(w, "to_FAILED")
    /\ UNCHANGED <<case, effects, procs, seen, snap, loaded>>

BindAccount(w) ==
    /\ At(w, "bind")
    /\ \E l \in {"locate", "to_NEEDS_HUMAN"} : Goto(w, l)
    /\ UNCHANGED <<case, effects, procs, seen, snap, loaded>>

\* A failure return: transition(), which raises if the state machine forbids it
FailTo(w, s) ==
    /\ IF can_transition(Seen(w), s)
       THEN SetStatus(w, s) /\ Goto(w, "returned")
       ELSE KeepStatus /\ Goto(w, "raised")
    /\ UNCHANGED <<moneyMoved, obligation, deadlines, effects, procs, snap, loaded>>
ReturnFailure(w) ==
    \/ At(w, "to_FAILED") /\ FailTo(w, "FAILED")
    \/ At(w, "to_NEEDS_HUMAN") /\ FailTo(w, "NEEDS_HUMAN")
    \/ At(w, "to_UNCERTAIN_EFFECT") /\ FailTo(w, "UNCERTAIN_EFFECT")

-----------------------------------------------------------------------------
(* run_case: an effect, through EffectEngine.execute_capability *)

SkipEffect(w, l) ==
    /\ At(w, l)
    /\ EffectAt[l] \in snap[w]
    /\ Goto(w, AfterEffect[l])
    /\ UNCHANGED <<case, effects, procs, seen, snap, loaded>>

\* The session reads the notice's obligation and holds on to the row: before the
\* credit, whose obligation must exist, or else when it comes to activate it.
\* Other sessions may write the row before this one does.
LoadObligation(w) ==
    /\ \/ At(w, "credit") /\ Credit \notin snap[w]
       \/ At(w, "activate")
    /\ loaded[w] = "unread" /\ obligation # "NONE"
    /\ loaded' = [loaded EXCEPT ![w] = obligation]
    /\ UNCHANGED <<case, effects, procs, pc, seen, snap>>

\* claim_effect admits this worker
AdmitEffect(w, l) ==
    /\ At(w, l)
    /\ EffectAt[l] \notin snap[w]
    /\ l = "credit" => loaded[w] # "unread"
    /\ phase[EffectAt[l]] = "open"
    /\ phase' = [phase EXCEPT ![EffectAt[l]] = "held"]
    /\ holder' = [holder EXCEPT ![EffectAt[l]] = w]
    /\ Goto(w, Claimed(l))
    /\ UNCHANGED <<case, completed, record, procs, seen, snap, loaded>>

\* Mutant: every business outcome lets the workflow go on
EffectRejected_ignored(w, l) ==
    /\ At(w, l)
    /\ EffectAt[l] \notin snap[w]
    /\ l = "credit" => loaded[w] # "unread"
    /\ phase[EffectAt[l]] # "open"
    /\ Goto(w, AfterEffect[l])
    /\ UNCHANGED <<case, effects, procs, seen, snap, loaded>>

\* claim_effect turns it away: ALREADY_APPLIED goes on, ALREADY_CLAIMED is
\* for a human
EffectRejected(w, l) ==
    /\ At(w, l)
    /\ EffectAt[l] \notin snap[w]
    /\ l = "credit" => loaded[w] # "unread"
    /\ phase[EffectAt[l]] # "open"
    /\ Goto(w, IF phase[EffectAt[l]] = "confirmed"
               THEN AfterEffect[l] ELSE "to_NEEDS_HUMAN")
    /\ UNCHANGED <<case, effects, procs, seen, snap, loaded>>

\* POLICY_DENIED, before any claim
PolicyDenied(w, l) ==
    /\ At(w, l)
    /\ EffectAt[l] \notin snap[w]
    /\ l = "credit" => loaded[w] # "unread"
    /\ Goto(w, "to_NEEDS_HUMAN")
    /\ UNCHANGED <<case, effects, procs, seen, snap, loaded>>

\* The claim of effect c leaves this worker's hands
Release(c, p) ==
    /\ phase' = [phase EXCEPT ![c] = p]
    /\ holder' = [holder EXCEPT ![c] = NoWorker]

\* (An open effect is not at its target, EffectGuarantee says, so the precheck
\* of an admitted worker never answers ALREADY_APPLIED here.)
\* The precheck does not answer: a HARD_FAILURE outcome, the claim retryable
PrecheckHalted(w, l) ==
    /\ At(w, Claimed(l))
    /\ Release(EffectAt[l], "open")
    /\ Goto(w, "to_FAILED")
    /\ UNCHANGED <<case, completed, record, procs, seen, snap, loaded>>

\* The submit, which the target may or may not accept
SubmitEffect(w, l) ==
    /\ At(w, Claimed(l))
    /\ \E b \in BOOLEAN : record' = [record EXCEPT ![EffectAt[l]] = b]
    /\ Goto(w, Submitted(l))
    /\ UNCHANGED <<case, completed, phase, holder, procs, seen, snap, loaded>>

\* Settlement of a confirmed effect; the credit also moves the case
SettleConfirmed(w, l) ==
    /\ At(w, Submitted(l))
    /\ record[EffectAt[l]]
    /\ Release(EffectAt[l], "confirmed")
    /\ completed' = completed \cup {EffectAt[l]}
    /\ IF l = "credit"
       THEN SetStatus(w, "PROVISIONAL_CREDIT_POSTED") /\ moneyMoved' = TRUE
       ELSE KeepStatus /\ UNCHANGED moneyMoved
    /\ Goto(w, AfterEffect[l])
    /\ UNCHANGED <<obligation, deadlines, record, procs, snap, loaded>>

\* Mutant: the escalation of an uncertain effect is left to the orchestrator
SettleUncertain_noStatus(w, l) ==
    /\ pc[w] \in {Claimed(l), Submitted(l)}
    /\ Release(EffectAt[l], "parked")
    /\ Goto(w, "to_UNCERTAIN_EFFECT")
    /\ UNCHANGED <<case, completed, record, procs, seen, snap, loaded>>

\* Settlement of an effect that reconciliation could not decide (a lease lost
\* before an HTTP submit is reconciled too)
SettleUncertain(w, l) ==
    /\ pc[w] \in {Claimed(l), Submitted(l)}
    /\ Release(EffectAt[l], "parked")
    /\ SetStatus(w, "UNCERTAIN_EFFECT")
    /\ Goto(w, "to_UNCERTAIN_EFFECT")
    /\ UNCHANGED <<moneyMoved, obligation, deadlines, completed, record, procs, snap, loaded>>

\* Mutant: settling an absence does not look at the target
SettleAbsent_unverified(w, l) ==
    /\ pc[w] \in {Claimed(l), Submitted(l)}
    /\ Release(EffectAt[l], "open")
    /\ Goto(w, "to_NEEDS_HUMAN")
    /\ UNCHANGED <<case, completed, record, procs, seen, snap, loaded>>

\* Settlement of CONFIRMED_NOT_APPLIED, or of a recoverable failure before the
\* submit: retryable, and the settlement does not touch the case
SettleAbsent(w, l) ==
    /\ pc[w] \in {Claimed(l), Submitted(l)}
    /\ ~record[EffectAt[l]]
    /\ Release(EffectAt[l], "open")
    /\ Goto(w, "to_NEEDS_HUMAN")
    /\ UNCHANGED <<case, completed, record, procs, seen, snap, loaded>>

\* Settlement of a human interstitial or a lost lease before the submit
SettleNeedsHuman(w, l) ==
    /\ At(w, Claimed(l))
    /\ Release(EffectAt[l], "open")
    /\ SetStatus(w, "NEEDS_HUMAN")
    /\ Goto(w, "to_NEEDS_HUMAN")
    /\ UNCHANGED <<moneyMoved, obligation, deadlines, completed, record, procs, snap, loaded>>

\* Settlement of a business outcome before the submit: the effect is closed,
\* the settlement does not touch the case
SettleBusiness(w, l) ==
    /\ At(w, Claimed(l))
    /\ Release(EffectAt[l], "closed")
    /\ Goto(w, "to_NEEDS_HUMAN")
    /\ UNCHANGED <<case, completed, record, procs, seen, snap, loaded>>

\* Settlement of a policy or binding violation found before the submit
SettleHardFailure(w, l) ==
    /\ At(w, Claimed(l))
    /\ Release(EffectAt[l], "closed")
    /\ SetStatus(w, "FAILED")
    /\ Goto(w, "to_FAILED")
    /\ UNCHANGED <<moneyMoved, obligation, deadlines, completed, record, procs, snap, loaded>>

Engine(w, l) ==
    \/ SkipEffect(w, l) \/ AdmitEffect(w, l) \/ EffectRejected(w, l)
    \/ PolicyDenied(w, l) \/ PrecheckHalted(w, l) \/ SubmitEffect(w, l)
    \/ SettleConfirmed(w, l) \/ SettleUncertain(w, l) \/ SettleAbsent(w, l)
    \/ SettleNeedsHuman(w, l) \/ SettleBusiness(w, l)
    \/ SettleHardFailure(w, l)

-----------------------------------------------------------------------------
(* run_case: what follows an effect *)

ChargebackFiled(w) ==
    /\ At(w, "filed")
    /\ EnsureReached(w, "CHARGEBACK_FILED")
    /\ Goto(w, "credit")
    /\ UNCHANGED <<moneyMoved, obligation, deadlines, effects, procs, snap, loaded>>

\* Mutant: only a run that posted the credit itself activates the obligation
ActivateObligation_onlyOwn(w) ==
    /\ At(w, "activate")
    /\ IF Credit \in snap[w] THEN UNCHANGED <<obligation, deadlines, loaded>>
       ELSE /\ obligation' = IF loaded[w] = "PLANNED" THEN "ACTIVE" ELSE obligation
            /\ loaded' = [loaded EXCEPT ![w] = IF @ = "PLANNED" THEN "ACTIVE" ELSE @]
            /\ deadlines' = WithDeadlines({"NOTICE_2_DAY"})
    /\ EnsureReached(w, "PROVISIONAL_CREDIT_POSTED")
    /\ moneyMoved' = (moneyMoved \/ Behind(w, "PROVISIONAL_CREDIT_POSTED"))
    /\ Goto(w, "pending")
    /\ UNCHANGED <<effects, procs, snap>>

\* activate_obligation, the NOTICE_2_DAY deadline and the projection, at once.
\* The status tested is the session's copy (expire_on_commit=False): one read
\* before the credit writes ACTIVE over whatever the row has become since.
ActivateObligation(w) ==
    /\ At(w, "activate")
    /\ loaded[w] # "unread"
    /\ obligation' = IF loaded[w] = "PLANNED" THEN "ACTIVE" ELSE obligation
    /\ loaded' = [loaded EXCEPT ![w] = IF @ = "PLANNED" THEN "ACTIVE" ELSE @]
    /\ deadlines' = WithDeadlines({"NOTICE_2_DAY"})
    /\ EnsureReached(w, "PROVISIONAL_CREDIT_POSTED")
    /\ moneyMoved' = (moneyMoved \/ Behind(w, "PROVISIONAL_CREDIT_POSTED"))
    /\ Goto(w, "pending")
    /\ UNCHANGED <<effects, procs, snap>>

NoticePending(w) ==
    /\ At(w, "pending")
    /\ IF Notice \in snap[w]
       THEN KeepStatus ELSE EnsureReached(w, "NOTICE_PENDING")
    /\ Goto(w, "notify")
    /\ UNCHANGED <<moneyMoved, obligation, deadlines, effects, procs, snap, loaded>>

\* resolve_deadline and satisfy_obligation, which tests the session's copy again,
\* commit with the next transition: NOTICE_SENT if the projection is behind it,
\* else WAITING_RESOLUTION
SettleNotice(w) ==
    /\ At(w, "notified")
    /\ obligation' = IF loaded[w] = "SATISFIED" THEN obligation ELSE "SATISFIED"
    /\ loaded' = [loaded EXCEPT ![w] = "SATISFIED"]
    /\ deadlines' = [deadlines EXCEPT !["NOTICE_2_DAY"] =
                         IF @ = "PENDING" THEN "MET" ELSE @]
    /\ IF Behind(w, "NOTICE_SENT")
       THEN SetStatus(w, "NOTICE_SENT") /\ Goto(w, "waiting")
       ELSE EnsureReached(w, "WAITING_RESOLUTION") /\ Goto(w, "returned")
    /\ UNCHANGED <<moneyMoved, effects, procs, snap>>

WaitResolution(w) ==
    /\ At(w, "waiting")
    /\ EnsureReached(w, "WAITING_RESOLUTION")
    /\ Goto(w, "returned")
    /\ UNCHANGED <<moneyMoved, obligation, deadlines, effects, procs, snap, loaded>>

-----------------------------------------------------------------------------
\* the steps of a task
RunCase(w) ==
    \/ StartTask(w) \/ OpenCase(w) \/ RegisterDeadlines(w)
    \/ RecoverClaims(w) \/ RecoveryFails(w)
    \/ ReconcileApplied(w) \/ ReconcileFails(w) \/ Resume(w)
    \/ ReadStep(w) \/ VerifyFails(w) \/ BindAccount(w) \/ ReturnFailure(w)
    \/ LoadObligation(w) \/ \E l \in EffectPlace : Engine(w, l)
    \/ ChargebackFiled(w) \/ ActivateObligation(w) \/ NoticePending(w)
    \/ SettleNotice(w) \/ WaitResolution(w)
    \/ FailClosed(w) \/ ScriptExits(w)

Next ==
    \E w \in Workers :
        \/ Boot(w) \/ ApiCreateCase(w) \/ RunNewCase(w) \/ Crash(w)
        \/ TaskRaises(w) \/ RunCase(w)

Spec == Init /\ [][Next]_vars

\* A task keeps running while its process is up, and the service is started
\* again.  Crashes, exceptions and callers owe nothing.
FairSpec ==
    /\ Spec
    /\ \A w \in Workers : WF_vars(RunCase(w)) /\ WF_vars(Boot(w))

-----------------------------------------------------------------------------
(* Properties *)

\* The engine calls of all workers of the case keep, for each effect, the
\* promise of the effect protocol: the orchestrator adds no way to repeat,
\* steal or forget one.
Happened(c) == IF record[c] THEN {c} ELSE {}
ChargebackEffect == INSTANCE EffectGuarantee WITH
    phase <- phase[Chargeback], effects <- Happened(Chargeback)
CreditEffect == INSTANCE EffectGuarantee WITH
    phase <- phase[Credit], effects <- Happened(Credit)
NoticeEffect == INSTANCE EffectGuarantee WITH
    phase <- phase[Notice], effects <- Happened(Notice)
EffectsKeepGuarantee ==
    ChargebackEffect!Spec /\ CreditEffect!Spec /\ NoticeEffect!Spec

\* At most one of the case's claims is in progress, whichever workers run the
\* case, so crash recovery never has two abandoned claims to resolve.
OneHeldClaim == Cardinality(HeldClaims) <= 1

\* A task inside the engine holds the claim of the effect it is at: no other
\* worker's recovery takes it away while its process is up.
TaskHoldsClaim ==
    \A w \in Workers, l \in EffectPlace :
        pc[w] \in {Claimed(l), Submitted(l)} =>
            phase[EffectAt[l]] = "held" /\ holder[EffectAt[l]] = w

\* Claims and tasks agree, for any interleaving of the workers.
ClaimInv == TypeOK /\ OneHeldClaim /\ TaskHoldsClaim

\* Effects reach their targets in order, each on the confirmed one before it:
\* no credit without a filed chargeback, and no notice before the credit is
\* confirmed, its obligation active and its deadline running.
EffectsInOrder ==
    /\ record[Credit] => phase[Chargeback] = "confirmed" /\ record[Chargeback]
    /\ record[Notice] =>
         /\ phase[Credit] = "confirmed" /\ record[Credit]
         /\ obligation \in {"ACTIVE", "SATISFIED"}
         /\ deadlines["NOTICE_2_DAY"] # "NONE"

\* The regulated clock is durable before anything irreversible happens, on
\* the first run and on every resume.
ClockBeforeEffect ==
    (\E c \in Effects : record[c]) =>
        /\ obligation # "NONE"
        /\ \A d \in Statutory : deadlines[d] # "NONE"

\* A case that reports its notice sent has really gone all the way: every
\* effect is at its target and confirmed, the movement of money is on the
\* case and the notice's deadline has been met.  The obligation is satisfied
\* with one process after the other; where processes have overlapped, a task
\* whose copy of it dates from before may have made it ACTIVE again.
SentMeansDone ==
    status \in {"NOTICE_SENT", "WAITING_RESOLUTION"} =>
        /\ \A c \in Effects : record[c] /\ phase[c] = "confirmed"
        /\ moneyMoved
        /\ deadlines["NOTICE_2_DAY"] = "MET"
        /\ obligation \in {"ACTIVE", "SATISFIED"}
        /\ ~overlapped => obligation = "SATISFIED"

\* An effect parked as uncertain keeps the case with a human, across crashes
\* and restarts: the scan never puts it back in flight.
UncertainIsEscalated ==
    ~overlapped /\ (\E c \in Effects : phase[c] = "parked") =>
        status \in {"UNCERTAIN_EFFECT", "NEEDS_HUMAN"}

\* A case that fails after the credit leaves its clock running: the obligation
\* is active and the notice's deadline stored, so that the overdue evaluation
\* still reports the notice nobody will send.
FailureKeepsClock ==
    ~overlapped /\ status = "FAILED" /\ record[Credit] =>
        obligation = "ACTIVE" /\ deadlines["NOTICE_2_DAY"] = "PENDING"

AllDead == \A w \in Workers : proc[w] = "dead"

\* A case never vanishes: with one process after the other, as long as some
\* process survives, it ends up where automation leaves it for good (done,
\* failed, or waiting for a human).
CaseSettles ==
    status # "ABSENT" ~>
        overlapped \/ AllDead \/ [](status \in DO_NOT_AUTO_RESUME)

\* One process after the other: the status goes forward along HAPPY_PATH or
\* leaves it for good.  The engine and the recovery write it without asking
\* VALID_TRANSITIONS, and a restart reads it from a row they may have left
\* behind; still no run repeats a stage or takes a parked case up again.
StatusAdvances ==
    [][~overlapped =>
        /\ status \in HappyStates /\ status' \in HappyStates =>
             Index(status) <= Index(status')
        /\ status \in DO_NOT_AUTO_RESUME =>
             status' \in DO_NOT_AUTO_RESUME]_status
=============================================================================

------------------------------ MODULE Discovery ------------------------------
(***************************************************************************)
(* One discovery run: DiscoveryAgent.discover (tandem/discovery/agent.py), *)
(* a bounded loop in which a language model picks the next action and the  *)
(* agent admits it (tandem/policy/browser.py, tandem/replay/guards.py),    *)
(* performs it on the core bank's pages and records it                     *)
(* (tandem/discovery/recorder.py); the person who takes over when a step   *)
(* fails (tandem/handoff/console.py); and the compiler that turns the      *)
(* trace into a capability (tandem/discovery/compiler.py).                 *)
(*                                                                         *)
(* The model may ask for anything.  A value on a form is "goal" when it is *)
(* the caller's input for that field and "other" when it is not: another   *)
(* member of the search result, a case or amount typed into the wrong      *)
(* field or left as the page came.                                         *)
(***************************************************************************)
EXTENDS Naturals

CONSTANTS
    MaxCycles,  \* max_cycles of the agent
    NoCredit    \* the core bank has no credit of a case

ASSUME DiscoveryAssumption ==
    MaxCycles \in Nat /\ NoCredit \notin [member : {"goal", "other"}, amount : {"goal", "other"}]

VARIABLES
    page,       \* what the browser shows: a kind of page and the values on it
    awaiting,   \* that page waits for the answer of a commit
    sent,       \* the commits on their way to the core bank
    session,    \* the core bank's session is valid
    required,   \* the core bank wants a compliance sign-off before an entry
    cleared,    \* it has got one
    rows, by,   \* per case: its credit at the core bank, and who posted it
    assisted,   \* a person has pressed a commit (history)
    phase,      \* where the run is
    decision,   \* the action of the current cycle
    seen,       \* the receipt was there when the model said FINISH
    cycle,      \* cycles used
    submitted,  \* there is a SUBMIT among recorder.actions
    approved,   \* every one of them names the approved guard
    evidence,   \* a SUBMIT decision is among recorder.events
    file,       \* trace.json: complete with or without it, or being rewritten
    receipt,    \* the finished trace carries a receipt and money_moved
    artifact    \* a capability file was written

browser == <<page, awaiting>>
bank    == <<session, required, cleared, rows, by>>
trace   == <<submitted, approved, evidence, file, receipt>>
vars    == <<browser, sent, bank, assisted, phase, decision, seen, cycle, trace, artifact>>

-----------------------------------------------------------------------------
Value == {"goal", "other"}
Form == [member : Value, case : Value, amount : Value]
Goal == [member |-> "goal", case |-> "goal", amount |-> "goal"]
Untouched == [member |-> "other", case |-> "other", amount |-> "other"]
Credit == [member : Value, amount : Value]
CreditOf(form) == [member |-> form.member, amount |-> form.amount]

\* "search" is any page that only reads: the frame, a search, the memos
Kinds == {"blank", "search", "interstitial", "entry", "confirm", "receipt", "failed", "expired"}
Plain(kind) == [kind |-> kind, form |-> Untouched]
FormPage(kind, form) == [kind |-> kind, form |-> form]

DiscoveryAction == {"NAVIGATE", "FILL", "CLICK", "SUBMIT", "FINISH"}
\* Within a cycle: acted or failed, then recording or reporting it
Rewriting == {"recording", "reporting", "finalizing"}
Broken == {"raised", "dead"}
Ended == Broken \cup {"compiled", "refused"}
Phases == {"new", "ready", "acted", "failed", "human", "finished", "traced"}
              \cup Rewriting \cup Ended

TypeOK ==
    /\ page \in [kind : Kinds, form : Form] /\ awaiting \in BOOLEAN
    /\ sent \in SUBSET Form
    /\ session \in BOOLEAN /\ required \in BOOLEAN /\ cleared \in BOOLEAN
    /\ rows \in [Value -> Credit \cup {NoCredit}]
    /\ by \in [Value -> {"nobody", "earlier", "agent", "human"}]
    /\ assisted \in BOOLEAN
    /\ phase \in Phases
    /\ decision \in DiscoveryAction \cup {"none"}
    /\ seen \in BOOLEAN
    /\ cycle \in 0..MaxCycles
    /\ submitted \in BOOLEAN /\ approved \in BOOLEAN /\ evidence \in BOOLEAN
    /\ file \in {"without", "with", "torn"}
    /\ receipt \in BOOLEAN /\ artifact \in BOOLEAN

\* The core bank may know the case from before, rightly or wrongly
Init ==
    /\ page = Plain("blank") /\ awaiting = FALSE /\ sent = {}
    /\ session = TRUE /\ required \in BOOLEAN /\ cleared = FALSE
    /\ \E known \in {NoCredit, CreditOf(Goal), CreditOf([Goal EXCEPT !.amount = "other"])} :
          rows = [c \in Value |-> IF c = "goal" THEN known ELSE NoCredit]
    /\ by = [c \in Value |-> IF rows[c] = NoCredit THEN "nobody" ELSE "earlier"]
    /\ assisted = FALSE
    /\ phase = "new" /\ decision = "none" /\ seen = FALSE /\ cycle = 0
    /\ submitted = FALSE /\ approved = TRUE /\ evidence = FALSE
    /\ file = "without" /\ receipt = FALSE /\ artifact = FALSE

-----------------------------------------------------------------------------
(* The core bank's pages *)

Shown(p) == IF session THEN p ELSE Plain("expired")

\* The entry form comes with a case and an amount of its own
CreditEntry(member) ==
    Shown(FormPage(IF required /\ ~cleared THEN "interstitial" ELSE "entry",
                   [Untouched EXCEPT !.member = member]))

\* The pages a GET can reach: READ_ROUTES, and the links of the pages
ReadPages == {Shown(Plain("search"))} \cup {CreditEntry(m) : m \in Value}

\* The form of an entry, put up for confirmation
ReviewPage == Shown([page EXCEPT !.kind = "confirm"])

\* The commit route: post_credit inserts, repeats or refuses
Commit(form, who) ==
    LET inserts == session /\ rows[form.case] = NoCredit
    IN  /\ rows' = IF inserts THEN [rows EXCEPT ![form.case] = CreditOf(form)] ELSE rows
        /\ by' = IF inserts THEN [by EXCEPT ![form.case] = who] ELSE by
        /\ UNCHANGED <<session, required, cleared>>
CommitAnswer(form) ==
    Shown(Plain(IF rows[form.case] \in {NoCredit, CreditOf(form)} THEN "receipt" ELSE "failed"))

Shows(p) == page' = p /\ awaiting' = FALSE
ShowsIfAwaited(p) == IF awaiting THEN Shows(p) ELSE UNCHANGED browser

\* The agent's commit is carried out, long after the click perhaps.  Its answer
\* is shown, or lost, or still to come; a browser that has moved on shows
\* neither.  Equal requests under way at once count as one.
CommitLands ==
    \E form \in sent :
        /\ Commit(form, "agent")
        /\ \/ /\ sent' = sent \ {form}
              /\ \E p \in {CommitAnswer(form), Plain("failed")} : ShowsIfAwaited(p)
           \/ UNCHANGED <<sent, browser>>
        /\ UNCHANGED <<assisted, phase, decision, seen, cycle, trace, artifact>>
CommitLost ==
    \E form \in sent :
        /\ sent' = sent \ {form}
        /\ ShowsIfAwaited(Plain("failed"))
        /\ UNCHANGED <<bank, assisted, phase, decision, seen, cycle, trace, artifact>>

\* The session is expired and restored by others
SetSession ==
    /\ phase \notin Ended
    /\ session' = ~session
    /\ UNCHANGED <<browser, sent, required, cleared, rows, by, assisted, phase, decision,
                   seen, cycle, trace, artifact>>

-----------------------------------------------------------------------------
(* The agent: one cycle *)

\* Goal, target, inputs and policy are checked before the first cycle
Start ==
    /\ phase = "new"
    /\ phase' \in {"ready", "raised"}
    /\ UNCHANGED <<browser, sent, bank, assisted, decision, seen, cycle, trace, artifact>>

Deciding == phase = "ready" /\ cycle < MaxCycles

\* record_navigate, record_fill or record_click: an action of the trace, which
\* record_cycle makes durable next
Acted(action) ==
    /\ phase' = "acted" /\ decision' = action
    /\ UNCHANGED <<bank, assisted, seen, cycle, evidence, file, receipt, artifact>>

Navigate ==
    /\ Deciding
    /\ \E p \in ReadPages : Shows(p)
    /\ Acted("NAVIGATE")
    /\ UNCHANGED <<sent, submitted, approved>>

\* A declared input, into any visible field, its own or another
Filled == {[page EXCEPT !.form[field] = v] : field \in {"case", "amount"}, v \in Value}
Fill ==
    /\ Deciding
    /\ \/ page.kind = "search" /\ UNCHANGED browser
       \/ page.kind = "entry" /\ \E p \in Filled : Shows(p)
    /\ Acted("FILL")
    /\ UNCHANGED <<sent, submitted, approved>>

\* authorize_control: a link to a read route, or the form that asks for review;
\* never the sign-off of the interstitial, nor a commit
ClickLeadsTo ==
    ReadPages \cup (IF page.kind = "entry" THEN {ReviewPage} ELSE {})

Click ==
    /\ Deciding
    /\ page.kind # "blank"
    /\ \E p \in ClickLeadsTo : Shows(p)
    /\ Acted("CLICK")
    /\ UNCHANGED <<sent, submitted, approved>>

\* Mutant: the guard looks at the case and the amount, not at the member
GuardHolds_caseOnly == page.kind = "confirm" /\ page.form.case = "goal" /\ page.form.amount = "goal"

\* verify_control_scoped_guard: only the commit form carries all six values,
\* and each is the caller's
GuardHolds == page.kind = "confirm" /\ page.form = Goal

\* The click of a guarded commit; its answer is waited for, for a while.  The
\* model names the approved guard for the record, or does not
PressCommit == sent' = sent \cup {page.form} /\ page' = page /\ awaiting' = TRUE
Submit ==
    /\ Deciding /\ GuardHolds
    /\ PressCommit
    /\ Acted("SUBMIT")
    /\ submitted' = TRUE
    /\ \E named \in BOOLEAN : approved' = (approved /\ named)

\* The model asks for what is refused: another origin, an undeclared input, a
\* missing or ambiguous control, a route or a form the policy does not admit;
\* or the browser raises, before or after the step has had its effect
Failing(action) ==
    /\ phase' = "failed" /\ decision' = action
    /\ UNCHANGED <<bank, assisted, seen, cycle, trace, artifact>>
StepFails ==
    /\ Deciding
    /\ \E a \in DiscoveryAction \ {"FINISH"} : Failing(a)
    /\ UNCHANGED <<browser, sent>>
StepRaises ==
    /\ Deciding
    /\ \/ /\ \E p \in ClickLeadsTo : Shows(p)
          /\ Failing("CLICK") /\ UNCHANGED sent
       \/ GuardHolds /\ PressCommit /\ Failing("SUBMIT")

\* _read_receipt
ReceiptShown == page.kind = "receipt"
Finish ==
    /\ Deciding
    /\ phase' = "acted" /\ decision' = "FINISH" /\ seen' = ReceiptShown
    /\ UNCHANGED <<browser, sent, bank, assisted, cycle, trace, artifact>>

\* _request_intervention: a handler exists or not, and is asked only if the
\* run may resume
Intervene(can_resume) == phase' \in {"raised"} \cup (IF can_resume THEN {"human"} ELSE {})

\* Mutant: a cycle the provider did not answer is not counted
ProviderFails_uncounted ==
    /\ Deciding
    /\ Intervene(TRUE)
    /\ UNCHANGED <<browser, sent, bank, assisted, decision, seen, cycle, trace, artifact>>

ProviderFails ==
    /\ Deciding
    /\ cycle' = cycle + 1
    /\ Intervene(TRUE)
    /\ UNCHANGED <<browser, sent, bank, assisted, decision, seen, trace, artifact>>

\* record_cycle: one more event, and trace.json is opened to be written anew,
\* which empties it
record_cycle(next) ==
    /\ evidence' = (evidence \/ decision = "SUBMIT")
    /\ file' = "torn"
    /\ phase' = next
    /\ UNCHANGED <<browser, sent, bank, assisted, decision, seen, cycle, submitted, approved,
                   receipt, artifact>>

AppendCycle == phase = "acted" /\ record_cycle("recording")

\* Mutant: only the cycles that were carried out are recorded
AppendFailure_unrecorded ==
    /\ phase = "failed"
    /\ phase' = "reporting"
    /\ UNCHANGED <<browser, sent, bank, assisted, decision, seen, cycle, trace, artifact>>

AppendFailure == phase = "failed" /\ record_cycle("reporting")

\* _write_trace is through: the file holds every event of the recorder
Complete == IF evidence THEN "with" ELSE "without"
CycleWritten ==
    /\ file' = Complete
    /\ cycle' = cycle + 1
    /\ decision' = "none"
    /\ UNCHANGED <<browser, sent, bank, assisted, seen, submitted, approved, evidence, receipt,
                   artifact>>

\* A FINISH without a receipt raises
RecordCycle ==
    /\ phase = "recording"
    /\ CycleWritten
    /\ phase' = CASE decision # "FINISH" -> "ready" [] seen -> "finished" [] OTHER -> "raised"

\* Whether a failed SUBMIT took effect is not known, so nobody may resume
RecordFailure ==
    /\ phase = "reporting"
    /\ CycleWritten
    /\ Intervene(decision # "SUBMIT")

CyclesExhausted ==
    /\ phase = "ready" /\ cycle = MaxCycles
    /\ phase' = "raised"
    /\ UNCHANGED <<browser, sent, bank, assisted, decision, seen, cycle, trace, artifact>>

\* The receipt is read once more for the trace, which is written a last time
Finalize ==
    /\ phase = "finished"
    /\ receipt' = ReceiptShown
    /\ file' = "torn"
    /\ phase' = "finalizing"
    /\ UNCHANGED <<browser, sent, bank, assisted, decision, seen, cycle, submitted, approved,
                   evidence, artifact>>
ReturnTrace ==
    /\ phase = "finalizing"
    /\ file' = Complete
    /\ phase' = "traced"
    /\ UNCHANGED <<browser, sent, bank, assisted, decision, seen, cycle, submitted, approved,
                   evidence, receipt, artifact>>

\* Mutant: the compiler is content with a receipt
Compilable_receiptOnly == receipt

\* compile and validate_capability_safety: a receipt, an actuation, and each
\* actuation under the approved guard
Compilable == receipt /\ submitted /\ approved
Compile ==
    /\ phase = "traced"
    /\ artifact' = Compilable
    /\ phase' = IF Compilable THEN "compiled" ELSE "refused"
    /\ UNCHANGED <<browser, sent, bank, assisted, decision, seen, cycle, trace>>

\* An exception that discover does not catch: a page that cannot be observed or
\* read, an evidence file that cannot be written.  Nothing is undone, and a
\* trace that was being written stays as it is.
RunRaises ==
    /\ phase \in {"ready", "acted", "failed", "finished"} \cup Rewriting
    /\ phase' = "raised"
    /\ UNCHANGED <<browser, sent, bank, assisted, decision, seen, cycle, trace, artifact>>

Crash ==
    /\ phase \notin Ended
    /\ phase' = "dead"
    /\ UNCHANGED <<browser, sent, bank, assisted, decision, seen, cycle, trace, artifact>>

-----------------------------------------------------------------------------
(* The person at the same browser, while the run waits in the handler *)

Person ==
    /\ phase = "human"
    /\ UNCHANGED <<sent, decision, seen, cycle, trace, artifact>>

HumanBrowses ==
    /\ Person
    /\ \E p \in ClickLeadsTo \cup (IF page.kind = "entry" THEN Filled ELSE {}) : Shows(p)
    /\ UNCHANGED <<bank, assisted, phase>>

HumanClears ==
    /\ Person
    /\ page.kind = "interstitial"
    /\ cleared' = TRUE
    /\ Shows(Shown([page EXCEPT !.kind = "entry"]))
    /\ UNCHANGED <<session, required, rows, by, assisted, phase>>

HumanCommits ==
    /\ Person
    /\ page.kind = "confirm"
    /\ assisted' = TRUE
    /\ Commit(page.form, "human")
    /\ Shows(CommitAnswer(page.form))
    /\ UNCHANGED phase

HumanAnswers ==
    /\ Person
    /\ phase' \in {"ready", "raised"}
    /\ UNCHANGED <<browser, bank, assisted>>

-----------------------------------------------------------------------------
Agent ==
    \/ Start \/ Navigate \/ Fill \/ Click \/ Submit \/ StepFails \/ StepRaises \/ Finish
    \/ ProviderFails \/ AppendCycle \/ RecordCycle \/ AppendFailure \/ RecordFailure
    \/ CyclesExhausted \/ Finalize \/ ReturnTrace \/ Compile
Human == HumanBrowses \/ HumanClears \/ HumanCommits \/ HumanAnswers

Next == Agent \/ Human \/ CommitLands \/ CommitLost \/ SetSession \/ RunRaises \/ Crash

Spec == Init /\ [][Next]_vars

\* The agent goes on while it lives; the person, the core bank, exceptions and the
\* process owe nothing
FairSpec == Spec /\ WF_vars(Agent)

-----------------------------------------------------------------------------
(* Properties *)

\* Whatever the model asks for, whatever a person has done to the page in
\* between and however late the commit lands, a credit the agent posts is the
\* caller's: its case, its member, its amount, and never before a compliance
\* sign-off that only a person gives.
AgentCreditsGoal ==
    \A c \in Value :
        by[c] = "agent" =>
            /\ c = "goal" /\ rows[c] = CreditOf(Goal)
            /\ required => cleared

\* Money the agent has moved shows in trace.json, however the run goes on or
\* ends, with two exceptions.  The cycle of the SUBMIT, done or failed, is not
\* recorded yet, or the run broke off in it; or the file, written anew in every
\* cycle, is just being written, or the run broke off then and took with it
\* what earlier cycles had recorded.  A run that goes on, waits for a person or
\* ends in order has lost nothing.
NoSilentCredit ==
    by["goal"] = "agent" =>
        \/ file = "with"
        \/ ~evidence /\ decision = "SUBMIT" /\ phase \in {"acted", "failed"} \cup Broken
        \/ file = "torn" /\ phase \in Rewriting \cup Broken

\* A capability is compiled only from a run whose trace.json holds a SUBMIT and
\* which ended on a receipt.  The receipt is not compared with the inputs; still,
\* unless a person pressed a commit on the way, the caller's credit is at the
\* core bank.
CompiledIsBacked ==
    artifact => file = "with" /\ (~assisted => rows["goal"] = CreditOf(Goal))

\* The run ends: every path through the loop, an intervention that resumes
\* included, uses up a cycle.  Only a person can keep it waiting.
RunEnds == <>(phase \in Ended) \/ <>[](phase = "human")
=============================================================================

# A TLA+ verification of Tandem

Tandem runs Regulation E card disputes for a bank: it verifies a member and a
transaction, files a chargeback with the card processor, posts a provisional
credit in the core bank (through a browser), sends a notice, and keeps the
statutory clocks. Each of the last three steps is irreversible. The program's
promise is that none of them happens twice, is forgotten, or is believed to have
happened when it has not, although processes die, targets do not answer, and
people take over the browser in the middle of it.

This directory holds the TLA+ modules that model that promise, the TLC
configurations that check them on small instances, and TLAPS proofs of the main
results for every instance. `PROJECT.json` maps every definition to the lines it
models, and lists the hazards, the runs, the findings and the theorems.

Paths below are relative to the repository's root (`src/` there).

## 1. The system

### Parts and how they interact

```
   API / dashboard ---- submits a case ----> CaseRunner (worker threads)
   api/app.py                                 automation/worker.py
      |  lease routes, browser actions            | run_case
      v                                           v
   HandoffCoordinator, BrowserSessionBroker    RegEWorkflow   workflow/reg_e.py
   handoff/*.py                                   | execute_capability, 3 times
      |                                           v
      |                                        EffectEngine   replay/engine.py
      |                                           | executors: HTTP, browser
      |                                           v
      |                                        targets: processor, core bank, documents
      v                                           ^
   LedgerRepository  ledger/repository.py         |  read-only inquiries: precheck,
   (SQLite: events + projections)  <-----------  postcheck, reconciliation, recovery
```

| Part | State it keeps | Operations | What makes it correct |
|---|---|---|---|
| Effect engine (`replay/engine.py` and the modules it calls) | claim, intent, execution, lease rows; local outcome and token | claim, precheck, stage, enter APPLYING, submit, postcheck, reconcile, settle | one attempt at a time; ledger agrees with target; at most one effect; evidence before the request |
| Crash recovery (`replay/crash_recovery.py`, `target_reconciliation.py`) | none of its own | scan dead owners, inquire, settle or park | never overtakes a live or newer owner; never releases an effect that happened |
| Reg E workflow (`workflow/reg_e.py`, `state_machine.py`) | case status, money_moved, obligation, deadlines | open, resume, three reads, three effects, settle the notice | effects in order, clock before effect, status tells the truth, every case ends somewhere |
| Worker (`automation/worker.py`) | task set | startup scan, submit, fail closed | no case is lost, no parked case is touched |
| Ledger repository and rebuild (`ledger/repository.py`, `rebuild.py`) | projections and an event for every change | one per table and change | the events rebuild the projections |
| Event stream (`repository.record_event`, `database.init_db`) | events, stream heads, SQLite's writer lock | append, commit, rollback, startup backfill of heads | a gapless hash chain; the next append finds its number free |
| Deadlines (`workflow/deadlines.py`, `repository.mark_overdue_deadlines`) | due times, statuses | add_business_days, calculate, evaluate | exact business days; overdue exactly when lapsed |
| Handoff coordinator and leases (`handoff/coordinator.py`, repository) | lease row with a fencing token | acquire, heartbeat, release, handoff, release route | the fenced owner and no other acts |
| Browser session (`handoff/browser_session.py`, the action route) | command queue, worker thread, response queues | admit, queue, run, time out, close | what is audited happened once, in order, by the owner |
| Targets (`simulators/`) | one row per case, an effect history, balances, fault switches | post or file or send, repeat, refuse, answer inquiries, reset | one effect per case; a caller is told the truth about it |
| Discovery (`discovery/`, with `policy/browser.py`, `replay/guards.py`) | browser page, recorded actions and events, the compiled capability | a cycle: decide, admit, act, record; intervene; finish; compile | the agent only credits the goal; what it did is in the trace; it ends |
| Operator console (`handoff/console.py`) | an answer, a lease in its own database | pause, let the person work, resume or stop | the run waits meanwhile |

Policy rules, domain values, surfaces, security helpers, CLI and scripts keep no
protocol state. `PROJECT.json` lists each with the reason it is left out or the
place where its outcome appears in a model.

### What is hard here

* **Crashes between transactions.** The engine commits at several points
  (`crash_injection.py` names them C to J) and a process may die between any two.
* **Unknown outcomes.** A submit can be interrupted with the request applied,
  dropped, or still under way; the only evidence is an inquiry that may fail.
* **Overlapping processes.** Every process scans for cases in flight when it
  starts, also while another one is running them; CLI scripts run cases too.
* **Stale rows.** Sessions are made with `expire_on_commit=False`; `run_case`
  holds the case row and the obligation it loaded and decides by them for the
  rest of the run, and the marking of lapsed deadlines writes rows it selected
  without a lock.
* **A lease that people share with programs,** checked in one transaction and
  relied upon in the next step.
* **A queue behind a timeout.** A browser command outlives the request that
  gave up on it.
* **A language model at the controls.** It may ask for any action on any page;
  what keeps it in bounds are checks of the page made just before the click.
* **Calendar arithmetic and time zones** at year ends and database boundaries.

## 2. Modules

| Module | Models | State, in terms of the code |
|---|---|---|
| `EffectGuarantee` | the abstract promise about one effect | `phase` (open, held, parked, confirmed, closed), `effects` that reached the target |
| `EffectProtocol` | one effect: engines, ledger rows, target, operators, crashes, recovery | `claim`, `intent`, `lease`, `executions`, `recoveryRow` are rows; `pc`, `tok`, `out`, `tries` the locals of each `execute_capability`; `req`, `record` the network and the target; `rec` a run of `recover_dead_effect_claims` |
| `RegECase` | one case: `run_case` in the tasks of successive or overlapping processes | `status`, `moneyMoved`, `obligation`, `deadlines`, `completed` are rows; `phase`, `holder`, `record` an effect as the guarantee shows it; `pc`, `seen`, `snap`, `loaded` a task's place, the case status its session holds, its snapshot, and the obligation's status as its session has it |
| `TargetContract` | the abstract promise of a target to its callers | `record` per case, `verdict` per caller |
| `TargetStores` | the four targets' stores and switches, and attempts of several callers on one of them, the later audit included | `rows`, `history`, `credited` are tables; `switches` the fault switches in memory; `req` the request or its answer on the network; `caller`, `ref` the attempt's place and the reference it was given |
| `Discovery` | one run of `discover`, the core bank's pages, the person, the compiler | `page` a kind of page and whose values its form holds; `sent` commits under way; `rows`, `by` the core bank's credits and who posted them; `submitted`, `approved`, `evidence`, `receipt` the recorder's lists in memory; `file` what trace.json holds, also while it is being written |
| `CaseProjections` | every repository call that changes a projection, with its event, against `rebuild_case` | `rows` the tables, `replayed` what the events give back, `view` the case row each session holds, `pending` the deadlines its marking has selected |
| `EventChain` | `record_event` under SQLite's writer lock, `init_db` at process start | `log` with its committed prefix, `head` and `durableHead`, `lock`, `boot` |
| `Deadlines` | calendar, `add_business_days`, `calculate`, `mark_overdue_deadlines` | the loop's variables, `due`, the last judgement |
| `BrowserSession` | the action route, the queue, the worker thread, the lease | handlers' places and tokens, `commands`, `thread`, `response`, `page`, `audit` |
| `MC*` | the instances TLC checks | constant values and symmetry only |
| `*Proofs` | theorems (eight modules, one per component) | |

**Composition.** `EffectProtocol` implements `EffectGuarantee` by the mapping
from claim statuses to phases (checked and proved). `RegECase` uses the engine
only through that guarantee: its three effects are phases and records, and its
run shows that all the tasks of a case together keep the guarantee for each of
the three. So the protocol is checked once, in detail, and the case can be
checked with several processes. On the other side, `EffectProtocol` has a target
that answers with the truth about one effect; `TargetStores` shows that the four
targets and the code that asks them keep that contract (`TargetContract`).

**Correspondence.** One action is the code from one `session.commit()` to the
next, with every call in between; an exception that rolls a transaction back is
an action of its own (`SettleRaises`, `EnterApplyingRaises`, `TaskRaises`,
`RecordEventFails`). Outcomes keep the code's category, code and execution
phase, because `settle_claim_status` decides by them. In `CaseProjections` an
action is one repository call: row and event are in one transaction, and larger
transactions are sequences of these actions. The event log is not kept as data:
`rebuild_case` reads it once from the front, so `replayed` is carried along and
extended by the branch for each event type. A recorded type without a branch
leaves `replayed` alone, which is what the code does.

**Assumptions about what is not in the repository.** SQLite lets one writer in
at a time, and with Python's sqlite3 driver a transaction begins at the first
write, so reads before it hold no lock. A session that holds a reference to a
row gets its loaded values back; a row nobody references is read again (this is
why the stream head is current and the case row and the obligation in `run_case`
are not). A pid is
not reused while a claim names it. Two events never have the same digest. A
target's handler has no `await` between reading and committing, so a request is
one step of it. In `Discovery` the sign-off requirement is a switch that does
not change during a run, equal commits under way at once count as one, "search"
stands for every page that only reads, and an action is in the recorder's list
as soon as the click is done (`submitted`), its decision only with
`record_cycle` (`evidence`). Writing trace.json is two steps, for opening it
empties it: it is "torn" from then until the last byte is written. `date`, `weekday` and the
New York offset stand for `datetime` and `zoneinfo` (the hour of a change is
taken on the standard clock).

Definitions named `X_<something>` directly before `X` are mutants: the same
code with a plausible bug. They belong to no specification; substituting
one for `X` must make the property paired with it fail, which shows the
property depends on that line of the code.

## 3. What the runs check

`tlc -config <name>.cfg <module>` for each. The specifications may stop (engines
return, processes are finite, a case ends), so the runs do not check deadlock;
that nothing stops too early is what the liveness properties say.

### The effect protocol (`MCEffectProtocol`)

Instance: three engines, one in process p1 and two in p2, one operator, two
inquiry attempts. Three attempts are what it takes to have an attempt, a retry,
and an observer of both, and both kinds of retry (same process, other process)
occur. The second passing run has two engines and a third process that only
recovers, so that one recovery can find its claim settled by another.
`Delivery = "prompt"` means that no request whose sender stopped waiting is
still on the wire when an inquiry answers; `"late"` drops that.

| Run | Shows |
|---|---|
| `effect_http` | the two inductive invariants and: at most one engine is between admission and settlement and it is the fenced owner (`ExclusiveAdmission`); APPLIED means a record at the target and one successful row (`LedgerMatchesTarget`); no request without durable evidence (`WriteAhead`); no two requests outstanding or applied (`SingleActuation`); an effect that happened is never up for another attempt or written off (`EffectIsFenced`); settled claims stay settled and change hands only under a new token (`ClaimDiscipline`); the guarantee (`ImplementsGuarantee`) |
| `effect_late` | over the browser, which cannot tell a click that worked from one that did not, and with late delivery: admissions are still exclusive (what else does not depend on "absent" being final is proved for both kinds of delivery); and an admitted engine that stays alive settles its claim, if no operator touches the lease (`AdmissionSettles`) |
| `effect_late_retry` (violation) | with late delivery a second request is sent while the first is under way |
| `effect_handoff_wedge` (violation) | an operator who takes the lease between a halt and its settlement makes the settlement roll back; the claim stays APPLYING with a live owner |

### The case (`MCRegECase`)

Instance: three process lives. They begin in order; the second may begin while
the first is still running (`Concurrent = {2}`), so every interleaving of two
tasks happens, and a crash of both followed by a restart. Properties about one
process after the other say so by `~overlapped`, a history variable.

| Run | Shows |
|---|---|
| `case_lives` | a status of NOTICE_SENT or WAITING_RESOLUTION means that every effect is confirmed at its target, the money flag set and the notice's deadline met, and, where no processes have overlapped, that the obligation is satisfied (`SentMeansDone`); at most one claim is held, by the task that is at it (`ClaimInv`); effects in order, the regulated clock durable before any of them, and the guarantee of each (`EffectsInOrder`, `ClockBeforeEffect`, `EffectsKeepGuarantee`). One process after the other: an uncertain effect keeps its case with a human (`UncertainIsEscalated`); a case that fails after the credit leaves the notice's clock running (`FailureKeepsClock`); the status goes forward or leaves the happy path for good (`StatusAdvances`); a created case ends where automation leaves it, as long as a process survives (`CaseSettles`) |

### The targets (`MCTargetStores`)

Instance: each of the four targets in turn, two attempts at one case (an attempt
and its retry, or two at once), four inputs that differ in one thing each, a
filing by hand, two references drawn at random, one fault switch at a time.
Cases do not interact in the stores, and switches are looked at in a fixed
order, so one case and one switch suffice.

| Run | Shows |
|---|---|
| `target_effects` | row, history and balance agree on one effect per case, whatever is lost, late, repeated, reset or restarted (`StoreInv`). A caller told "applied" has its record, with its reference, until somebody resets the target; told "session expired" or, with its answer in hand, "not applied", its request has had no effect; the later audit never finds a divergence without a reset (`OutcomesAreTrue`). Both keep `TargetContract` (`KeepsContract`) |

`StoreInv` is also why the two requests of `effect_late_retry` do not pay twice
at these targets: the second is a repeat. The engine by itself does not ensure it.

### Discovery (`MCDiscovery`)

Instance: runs of at most seven cycles. The shortest run that posts and compiles
takes six (open, fill twice, review, submit, finish); the seventh leaves room for
a failed step and an intervention in it.

| Run | Shows |
|---|---|
| `discovery_run` | a credit the agent posts is for the caller's member, case and amount and has had its sign-off by a person, whatever the model asked for and however late it lands (`AgentCreditsGoal`); it is in trace.json in every run that goes on, waits or ends in order, and is missing only until the cycle of its SUBMIT is recorded, while the file is written anew, or because the run broke off in one of these (`NoSilentCredit`); a compiled capability comes from a run whose trace.json holds a SUBMIT and, unless a person pressed a commit, the caller's credit is at the core bank (`CompiledIsBacked`); the run ends or waits for a person (`RunEnds`) |

### The ledger (`MCCaseProjections`, `MCEventChain`)

Instance of the first: two sessions, one key, one execution, one deadline type,
two statuses besides RECEIVED, a claim taken at most twice. Rows of different
keys, executions and deadlines do not interact in the code, so one of each
suffices; two statuses tell a changed column from an unchanged one; two tokens
have a claim left and retaken. Of the second: two writers, two starting
processes, five digests, that is two transactions of two events and one more.

| Run | Shows |
|---|---|
| `rebuild_case` | whatever sessions with rows of any age do, a rebuild is never refused and gives back every row, with three exceptions that the property states exactly: a lapsed deadline is PENDING again; one marked OVERDUE after it was met is MET again (`overwritten`, a history variable); and the case row is only given back while no session has updated it from an old copy (`outdated`, another). No update forgets that money moved |
| `chain_startup` | the stream never has a gap, a fork or a broken link, whoever appends, rolls back or starts; until a process starts the shared head is its last event and the next append cannot collide |

### Deadlines (`MCDeadlines`) and the browser (`MCBrowserSession`)

Openings on every day of 2021 and 2022 and around 29 February 2024; around that
day and the changes of the clock in March and November 2021 also at an hour that
is the previous day in New York. 2021 and 2022 have holidays on
Saturdays and on Sundays and a New Year's Day observed in the year before. The
clock is read at the hours around the stored and the intended due time. The
browser: three requests of two owners and three leases, so that a request can be
queued behind another owner's, time out, be retried, and see the lease come
back.

| Run | Shows |
|---|---|
| `deadline_rules` | the code's calendar against the law's, with the one exception `CalendarFollowsLaw` names; `add_business_days` against its definition (the n-th business day after the opening, at the cutoff); the three deadlines in order; a lapsed deadline reported however its row was read (`LapsedIsOverdue`), and none more than five hours early (`OverdueWithinOffset`) |
| `browser_queue` | an audited command operated the page, once; a retry never overtakes the command that timed out |
| `browser_stale` (violation) | a command admitted under a lease that has since gone to somebody else operates the page |

Each violation contradicts a sentence of the repository; `findings` in
`PROJECT.json` quotes it with its line.

### Bounds

`MaxInquiries` is the code's own bound (`max_inquiry_attempts`). Named bounds of
the models: `MaxToken` in `CaseProjections` and `BrowserSession`, the number of
`Digests` in `EventChain`, the sets `Openings`, `Years` and `Checks` in
`Deadlines`, the number of `Engines` (attempts), `Lives` in `RegECase`,
`MaxSwitches` and the number of `Requests` in `TargetStores`. `MaxCycles` in
`Discovery` is the code's own parameter `max_cycles`.
Where a theorem exists, the bound is only TLC's.

### Fairness

`EffectProtocol!FairSpec`: weak fairness of the steps of an admitted engine (a
thread that runs keeps running; every call it makes has a timeout) and of the
network's resolution of a request. `RegECase!FairSpec`: weak fairness of a
task's steps and of the start of a process (the service is restarted).
`Discovery!FairSpec`: weak fairness of the agent's steps; the person, the core
bank, the commits under way and the process owe nothing, so `RunEnds` does not
count on an answer. Crashes, exceptions, operators, the lease's expiry and new
attempts owe nothing. No property assumes strong fairness.

## 4. Other disagreements met while modelling

These follow from the models as well, but no run is kept for them. Each is a
hazard in `PROJECT.json`.

* `rebuild_case` has no branch for the DEADLINE_OVERDUE event, so a rebuilt
  deadline is PENDING again, and an update from an old case row records an event
  whose replay can take `money_moved` back (the tables keep it). Both are
  exceptions `RebuildFaithful` names.
* `mark_overdue_deadlines` selects the PENDING rows without the writer lock and
  updates those that have lapsed by primary key (`ledger/repository.py:632-648`).
  A deadline that `resolve_deadline` has set to MET in between is OVERDUE in the
  table from then on, while its events say MET. This is the third exception.
* `run_case` looks at the obligation before the credit and keeps the row
  (`workflow/reg_e.py:266`), so `activate_obligation` tests a status that may be
  old. With overlapping processes a task that loaded it PLANNED writes ACTIVE
  over an obligation another task has satisfied, after the notice was sent; if it
  dies then, the obligation stays ACTIVE. `SentMeansDone` claims a satisfied
  obligation for one process after the other only, and with an overlap that it is
  at least active. The events record both writes, so a rebuild agrees.
* `create_deadline` looks for a row of the type and inserts, without a lock or a
  unique constraint. Two processes that open one case at once may each store the
  two statutory deadlines. The models keep one row of a type: the rows are due at
  almost the same time, both are marked when they lapse, and no code resolves a
  statutory deadline. Two notice deadlines come about in the same way, of which
  `resolve_deadline` meets one.
* The recorder's docstrings call the trace and each cycle durable
  (`discovery/recorder.py:1`, `:62`). Every cycle and `finalize` write the whole of
  trace.json again in place (`:231`, `:246`, `:281`), and nothing in `discover`
  catches an error of it. A crash or an OSError while a later cycle is written
  loses a SUBMIT that an earlier one had recorded. `NoSilentCredit` names this
  window beside that of the SUBMIT's own cycle.
* `init_db` runs in every starting process, reads all events outside a write
  transaction and then overwrites the stream heads. An append committed in
  between leaves its head rolled back; later appends of that case fail on the
  unique index. `HeadIsLast` is limited to the time before a start for that
  reason, and `RecordEventFails` is the action.
* With overlapping processes a task that loaded the case earlier can move it out
  of NEEDS_HUMAN (`automation/worker.py:13-17` says a parked case is never
  touched). `StatusAdvances` is claimed for one process after the other.
* A hard failure of the notice after the credit has posted ends the case as
  FAILED, which no restart resumes and no human is called for (`README.md:112`
  promises the notice). By `CaseSettles` and `SentMeansDone` it is the only such
  end.
* The engine writes UNCERTAIN_EFFECT and PROVISIONAL_CREDIT_POSTED with
  `update_case_status`, past `VALID_TRANSITIONS`.
* The release route hands the lease to the owner `AUTOMATION`; engines are named
  `AUTOMATION:pid:uuid`, and are refused until it expires
  (`ARCHITECTURE.md:213` has the orchestrator resume).
* A New Year's Day on a Saturday is observed on 31 December of the year before,
  which that year's holiday set does not contain; a deadline can fall on it.
  This is the exception in `CalendarFollowsLaw`.
* A due time is 17:00 in New York; the column drops the zone and
  `evaluate_deadlines` takes a time without one for UTC, so a stored deadline is
  OVERDUE four or five hours before the cutoff (`workflow/deadlines.py:141-142`
  says "any deadline whose due date has passed"). `OverdueWithinOffset` is the
  bound that holds.
* The beta core bank does not catch the ValueError of a case that has a credit with
  another identity and answers 500 where the alpha core answers 400
  (`HandleRejected`); no caller tells them apart.
* Processor and documents key their rows by the case alone. Cases of two
  institutions with one id collide: the second is refused, and its inquiry finds
  a record that is not its own, which ends as uncertain.
* A repeat that differs only in a detail (dispute reason, template) is refused by
  the target with an error, and the reconciliation then confirms the effect,
  because the caller's identity does not include details: CONFIRMED_APPLIED for a
  record with other details.
* The core bank asks for the compliance sign-off on the entry page; its
  confirmation and commit routes do not look again. `AgentCreditsGoal` holds
  because the agent can only get to them through the entry page.
* The receipt that ends a discovery run is not compared with the inputs. After a
  person's commit a capability may be compiled on the person's receipt.

## 5. What is proved

With `tlapm`, for every value of the constants that satisfies the named
assumptions of each module:

**`EffectProtocolProofs`** (any sets of engines, processes and operators, both
transports, both kinds of delivery; `EngineAssumption`, `OptionAssumption`).
`TypeCorrect`, `SafetyInductive`, and from it `ExclusiveAdmissionHolds`,
`LedgerMatchesTargetHolds`, `WriteAheadHolds`, `ClaimDisciplineHolds`.
None of the properties is inductive by itself: that an APPLIED claim has a
record, for instance, depends on what an engine about to settle, or a recovery
about to conclude, knows. `SafetyInv` adds `Ownership` (the claim's status and
owner follow from an engine's place, tokens never run ahead of the claim, an
engine is at `crashed` exactly if its process is dead), `Evidence` (what is
durable at each place), `EngineKnowledge` and `RecoveryKnowledge` (a success in
somebody's hands is the target's; a recovery follows a dead owner, who cannot
act again).

The same module, for `Delivery = "prompt"`: `PromptInductive`,
`SingleActuationHolds`, `EffectIsFencedHolds`, `Refinement`. `PromptInv` says that the record is the
doing of these requests (`TargetTruth`), that an outstanding or applied request
belongs to the current owner (`RequestOwned`), and that whoever is about to
declare the effect absent is right (`AbsenceKnown`). The last is where prompt
delivery is needed, and `effect_late_retry` shows it cannot be dropped.
`Refinement` maps every step to a step of `EffectGuarantee` or a stutter:
`ClaimEffect` is Admit, `TargetApplies` is Happen, settlement and recovery are
Confirm, GiveUp or Park by the status they write.

**`RegECaseProofs`** (any process lives, any of them concurrent;
`WorkerAssumption`). `CaseInductive`, and from it `ClaimInvHolds`,
`EffectsInOrderHolds`, `ClockBeforeEffectHolds` and `CaseKeepsGuarantee`, all
with processes that overlap as they like. A task reads its case once and then acts on a session that may be stale, so none of these
follows from the state a task sees. `CaseInv` says instead what is durably true
when a task stands at a place (`Due`, `TasksDue`): past the filing the chargeback
is confirmed, past the activation the obligation is active or satisfied and its
deadline stored, whoever did it. Another task cannot take that away, because no step takes
a stage back (`Forward`, `TasksStep`): a stale copy of the obligation can write
ACTIVE over SATISFIED, but not over what both say, that the credit was posted
(`CopiesBehind`); a deadline met stays met, and that is what the later statuses
rest on. `ClaimsAgree` ties claims, executions and
the targets' records together, and `StagesInOrder` says that a claim is only ever
taken on what comes before it. `CaseKeepsGuarantee` maps every step, for each
of the three effects, to a step of `EffectGuarantee` or a stutter.

`SequentialInductive` is about one process after the other. `SequentialInv` adds
`OneTask`: at most one process is up, its session agrees with the rows, its
snapshot with the executions, and a task that stands where automation has left
the case is only on its way out. From it `UncertainIsEscalatedHolds`,
`FailureKeepsClockHolds` and, with the transitions a read status admits,
`StatusAdvancesHolds`. The hypothesis `~overlapped` is needed: with an overlap a
stale task does move a parked case. `CopiesCurrentHolds` adds that the one task's
copy of the obligation is the row, and that a deadline met goes with an obligation
satisfied; with `CaseInv` it gives `SentMeansDoneHolds`, whose last conjunct is
the only one that needs it.

**`CaseProjectionsProofs`** (any sessions, executions, keys, deadlines and
statuses; `ProjectionAssumption`). `RebuildFaithfulHolds` from the types and two
parts, `TablesRebuild` and `CaseRebuilds`, each preserved by itself; the lemma
behind the second is that an UPDATE from a current row leaves in the table what
its event carries. For the first, `Selected` says of a deadline a session has
selected that it has a row, so that a marking, however late, finds it PENDING,
OVERDUE or MET, and `overwritten` tells which of the two answers a rebuild gives.
`MoneyNeverForgottenHolds` needs `AbsentUnmoved`, that a case without a row has
moved no money.

**`EventChainProofs`.** `ChainInductive`, `ChainNeverBroken`, `HeadIsLastHolds`,
for any writers, starters and digests. `ChainInv` strengthens the chain by
`HeadsInStream`: every head, also one a starting process has read, points at an
event of the stream. A stale head therefore makes the next append fail on the
unique index; it cannot fork the chain.

**`DeadlinesProofs`.** In two halves. The first never expands the definition of
a business day, so it holds whatever the holiday calendar contains.
`DueExactHolds`: `RulesInv` (`RulesInductive`) adds `LoopCounts`, that `added` is
the number of business days after the opening up to the cursor, which stands on
one when the count is complete. `LapsedIsOverdueHolds` and
`OverdueWithinOffsetHolds` follow from `JudgeInv`, which adds `Computed` (which
due times are there at each stage of `calculate`, and that nothing is judged
before all are), and from the offset being four or five hours.
`NoticeDueFirst`: the notice falls due before the investigation ends.
`OpeningIsStricter`: counting the notice from the opening never gives a later
date than counting it from the posting, as `ARCHITECTURE.md:247` has it; the
lemma behind both is that of two counts the smaller one is reached first.

The second half is the Gregorian calendar, for any years (`YearsAssumption`:
every day from one before the opening to 91 after lies in a year of `Years`; in
Python every date does). `CalendarIsLaw`: in any year, on any day,
`is_business_day` is what 5 U.S.C. 6103 says, but for the Friday before a New
Year's Day on a Saturday, where the code asks the wrong year's calendar. The
argument names the days of a year (`YearLayout`, `NamedDays`), finds a weekday in
a week (`NthWeekday`), and follows an observed holiday back to its date
(`ObservedDays`); the day before the first of a year and the one after the last
are the two cases the code and the law look at differently.
`CalendarFollowsLawHolds` adds that the cursor stays within the days the calendar
knows. `DeadlinesOrderedHolds`: investigation before final resolution is ten
business days against 45 days, or twenty against 90. `SixWeeks` shows that 42
days always hold ten business days: they have twelve days of weekends
(`WeekendsOfSixWeeks`) and at most 19 holidays, those of one year and of the
first six weeks of the next (`HolidayBounds`).

**`TargetStoresProofs`** (any requests, cases, inputs, references and number of
switches; `TargetAssumption`). `StoreInductive`: `StoreInv` is inductive as it
stands. `OutcomesAreTrueHolds` needs, beside it, that a request is dispatched
once, by a caller past its precheck, and has not landed while it is under way or
after it was turned away (`Wiring`). `ContractRefinement` maps `HandleApplied`
and a filing by hand to Apply, `Reset` to Wipe, and the steps that give an
outcome to Tell.

**`DiscoveryProofs`** (any number of cycles; `DiscoveryAssumption`).
`DiscoveryInductive`, and from it `AgentCreditsGoalHolds`,
`NoSilentCreditHolds`, `CompiledIsBackedHolds`. `DiscoveryInv` adds `Counted`
(a cycle is only open below the bound), `Admitted` (a form is open only past the
sign-off, and every commit under way is the goal's), `Recorded` (where an agent's
commit is under way or landed, its SUBMIT is among the recorder's events, or the
run is or broke off in its cycle), `Filed` (trace.json holds just these events, or
is torn, which it only is while it is written or after a run broke off then) and
`Backed` (a receipt on the page or in the trace, when no person pressed a commit,
means that the goal's credit is at the core bank).

**`BrowserSessionProofs`** (any requests, owners and changes of the lease;
`SessionAssumption`). `SessionInductive`, and from it `AuditedOnceHolds` and
`NoOvertakingHolds`. `OnePlace`: a request not yet queued is nowhere, and a queued
one is once in the queue, in the thread's hands or on the page, and in one of
them only. `StaysAhead`: a request that was over when another was made stays
ahead of it in the queue, in the thread and on the page; that it is over is part
of the invariant, since only a handler that has not ended can still put its
command behind. `Answered`: an "ok" and an audit row are of commands that
operated the page, which a handler that gave up leaves as they are.

**Only model-checked.** The liveness properties (`AdmissionSettles`,
`CaseSettles`, `RunEnds`): liveness under fairness is out of the prover's reach.
Every safety invariant and action property that a passing run checks is also
proved. The three violation runs are counterexamples and need no proof.

## 6. What is not modelled

* Selectors, frames, overlays and page texts: they appear as the halts and
  failures they can cause. Form values appear in `Discovery`, as the goal's or not.
* The rules of the policy engine: stateless comparisons; a denial is an outcome.
* `operator_clear_compliance`, which drives a page inside one call of a
  demonstration script.
* The provider clients of discovery: the model's decision is any decision.
* The operator console's lease: its case id is new and its database its own.
* The upgrade of a database whose events predate the chain, and column
  migrations: they run once.
* The simulators' search, memo and login pages, which only read.
* Snapshots, dashboards, CLI, token comparison and screenshot masking: they read,
  render or compare, and keep no state.
* A second row of a deadline's type (section 4).
* `RegECase` abstracts the clock away: whether a deadline has lapsed is in
  `CaseProjections` and `Deadlines`.

## 7. Plan

Built so far, in this order: `EffectGuarantee` and `EffectProtocol` with their
proofs, `RegECase` on top of the guarantee, `CaseProjections`, `EventChain`,
`Deadlines`, `BrowserSession`, `TargetContract` and `TargetStores`, `Discovery`.

Left, extensions of the model:

1. `operator_clear_compliance` together with `BrowserSession`: a sign-off that
   took effect and whose audit rows are rolled back.
2. The backfill of an unchained event stream with writers active.

Left, proofs. Every checked safety property has its theorem. What would say more:

1. That the target of `EffectProtocol` keeps `TargetContract`, so that the two
   models share it in TLA+ and not only in words.
2. Results without a property of a run, such as how late an investigation can
   fall due, or that a parked effect is only ever left by an operator.

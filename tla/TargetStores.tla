---------------------------- MODULE TargetStores ----------------------------
(***************************************************************************)
(* A target system (simulators/) and the attempts of several callers to    *)
(* have one effect recorded there.  The target is any of the four the      *)
(* repository runs: the core bank, the second institution's core, the card *)
(* processor and the document system.  They share one shape: fault         *)
(* switches kept in memory, a table with one row per case, a history of    *)
(* effects, one transaction per request, an inquiry by case.               *)
(*                                                                         *)
(* An attempt is what the engine does with a target: precheck, request,    *)
(* postcheck, reconciliation, and the later audit of an applied claim.  A  *)
(* handler runs to the end of its transaction without an await, so it is   *)
(* one step; its answer travels back by itself and may come too late.      *)
(***************************************************************************)
EXTENDS Naturals, FiniteSets

CONSTANTS
    Requests,   \* attempts
    Cases,
    Inputs,     \* what a caller may ask for
    HandInputs, \* what a person may submit at the target's own pages
    Refs,       \* references a target draws at random (they may repeat)
    NoRow, NoRef,
    MaxSwitches \* bound: fault switches on at a time

ASSUME TargetAssumption ==
    /\ \A in \in Inputs \cup HandInputs :
          /\ in.case \in Cases
          /\ in.inst \in {"alpha", "beta"}
          /\ in.account \in BOOLEAN   \* the account is the member's own
    /\ NoRow \notin [in : Inputs \cup HandInputs, ref : Refs]
    /\ NoRef \notin Refs
    /\ MaxSwitches \in Nat

VARIABLES
    target,     \* which of the target systems this is
    switches,   \* its fault switches that are on
    rows,       \* per case: its row
    history,    \* per case: number of effect_history rows
    credited,   \* per case: how often its amount is in a member's balance
    req,        \* per request: where it is, or the status of its answer
    input,      \* per request: what it asks for
    caller,     \* per request: where its caller is
    ref,        \* per request: the reference its caller was given
    landed,     \* history: the requests that inserted a row
    wiped       \* history: the target has been reset

store == <<rows, history, credited>>
wire  == <<req, landed>>
local == <<input, caller, ref>>
vars  == <<target, switches, store, wire, local, wiped>>

-----------------------------------------------------------------------------
Targets == {"core", "beta", "processor", "documents"}
Switches == [core      |-> {"session", "blind"},
             beta      |-> {},
             processor |-> {"session", "failure", "drops", "blind"},
             documents |-> {"failure"}]
IsCore == target \in {"core", "beta"}
Home == IF target = "beta" THEN "beta" ELSE "alpha"

Statuses == {"200", "400", "401", "500", "504"}
Row == [in : Inputs \cup HandInputs, ref : Refs]
Outcomes == {"ALREADY_APPLIED", "PRECHECK_FAILED", "SESSION_EXPIRED", "COMPLETED",
             "CONFIRMED_APPLIED", "CONFIRMED_NOT_APPLIED", "UNCERTAIN_EFFECT",
             "AUDITED", "TARGET_LEDGER_DIVERGENCE"}

TypeOK ==
    /\ target \in Targets
    /\ switches \subseteq Switches[target]
    /\ rows \in [Cases -> Row \cup {NoRow}]
    /\ history \in [Cases -> Nat]
    /\ credited \in [Cases -> Nat]
    /\ req \in [Requests -> {"none", "wire", "taken", "lost"} \cup Statuses]
    /\ input \in [Requests -> Inputs]
    /\ caller \in [Requests -> {"start", "cleared", "waiting", "postcheck",
                                "reconcile"} \cup Outcomes]
    /\ ref \in [Requests -> Refs \cup {NoRef}]
    /\ landed \subseteq Requests
    /\ wiped \in BOOLEAN

\* A core bank is asked by its own institution's cases (core_bank_url_for)
Init ==
    /\ target \in Targets
    /\ switches = {}
    /\ rows = [c \in Cases |-> NoRow]
    /\ history = [c \in Cases |-> 0]
    /\ credited = [c \in Cases |-> 0]
    /\ req = [r \in Requests |-> "none"]
    /\ input \in [Requests -> {in \in Inputs : IsCore => in.inst = Home}]
    /\ caller = [r \in Requests |-> "start"]
    /\ ref = [r \in Requests |-> NoRef]
    /\ landed = {}
    /\ wiped = FALSE

-----------------------------------------------------------------------------
(* The target *)

\* The bindings the commit route of a core bank checks before it posts
Bound(in) == IsCore => in.inst = Home /\ in.account

\* What a repeated request must agree in.  The core bank has no details, and
\* its key and its checks settle institution and account.
SameRecord(a, b) == IF IsCore THEN a.party = b.party ELSE a = b

\* Mutant: the lookup before the insert is left to the caller's precheck
Post_unchecked(in, x) ==
    /\ rows' = [rows EXCEPT ![in.case] = [in |-> in, ref |-> x]]
    /\ history' = [history EXCEPT ![in.case] = @ + 1]
    /\ credited' = IF IsCore THEN [credited EXCEPT ![in.case] = @ + 1] ELSE credited

\* One BEGIN IMMEDIATE transaction: row, balance and history together
Post(in, x) ==
    /\ rows[in.case] = NoRow
    /\ rows' = [rows EXCEPT ![in.case] = [in |-> in, ref |-> x]]
    /\ history' = [history EXCEPT ![in.case] = @ + 1]
    /\ credited' = IF IsCore THEN [credited EXCEPT ![in.case] = @ + 1] ELSE credited

Answer(r, status) == req' = [req EXCEPT ![r] = status]

\* The processor may drop the connection after it has committed
Accepted == IF "drops" \in switches THEN "504" ELSE "200"

Refused == switches \cap {"session", "failure"} # {}

\* A switch turns the request away before anything is looked at
HandleRefused(r) ==
    /\ req[r] = "wire" /\ Refused
    /\ Answer(r, IF "session" \in switches THEN "401" ELSE "500")
    /\ UNCHANGED <<target, switches, store, local, landed, wiped>>

\* A binding is wrong, which the core banks answer with 400, or the case has a row
\* with another identity: only the alpha core catches that ValueError
HandleRejected(r) ==
    /\ req[r] = "wire" /\ ~Refused
    /\ LET in == input[r] IN
          \/ ~Bound(in) /\ Answer(r, "400")
          \/ /\ Bound(in) /\ rows[in.case] # NoRow /\ ~SameRecord(rows[in.case].in, in)
             /\ Answer(r, IF target = "core" THEN "400" ELSE "500")
    /\ UNCHANGED <<target, switches, store, local, landed, wiped>>

\* The case has its row already: a repeat is answered from it
HandleRepeated(r) ==
    /\ req[r] = "wire" /\ ~Refused
    /\ Bound(input[r])
    /\ rows[input[r].case] # NoRow
    /\ SameRecord(rows[input[r].case].in, input[r])
    /\ Answer(r, Accepted)
    /\ UNCHANGED <<target, switches, store, local, landed, wiped>>

HandleApplied(r) ==
    /\ req[r] = "wire" /\ ~Refused
    /\ Bound(input[r])
    /\ \E x \in Refs : Post(input[r], x)
    /\ Answer(r, Accepted)
    /\ landed' = landed \cup {r}
    /\ UNCHANGED <<target, switches, local, wiped>>

\* A person uses the portal's own form, whose defaults leave identity blank
FiledByHand(in) ==
    /\ ~Refused /\ Bound(in)
    /\ \E x \in Refs : Post(in, x)
    /\ UNCHANGED <<target, switches, wire, local, wiped>>

\* The admin routes: one switch at a time, or the processor's set_mode
SetSwitches ==
    /\ \E S \in SUBSET Switches[target] :
          Cardinality(S) <= MaxSwitches /\ switches' = S
    /\ UNCHANGED <<target, store, wire, local, wiped>>

\* POST /api/reset
Reset ==
    /\ rows' = [c \in Cases |-> NoRow]
    /\ history' = [c \in Cases |-> 0]
    /\ credited' = [c \in Cases |-> 0]
    /\ switches' = {}
    /\ wiped' = TRUE
    /\ UNCHANGED <<target, wire, local>>

\* The target's process ends and is started again: the switches were in
\* memory, the tables were not, and answers not yet delivered are lost
Restart ==
    /\ switches' = {}
    /\ req' = [r \in Requests |-> IF req[r] \in {"wire"} \cup Statuses
                                  THEN "lost" ELSE req[r]]
    /\ UNCHANGED <<target, store, landed, local, wiped>>

-----------------------------------------------------------------------------
(* An attempt *)

At(r, l) == caller[r] = l
Goto(r, l) == caller' = [caller EXCEPT ![r] = l]
AsksNothing(r) == UNCHANGED <<target, switches, store, wire, input, wiped>>

\* The inquiry by case: 404, 503 where the switch hides a row, or the row
Found(r) == rows[input[r].case]
Absent(r) == Found(r) = NoRow
Visible(r) == Found(r) # NoRow /\ "blind" \notin switches

\* Mutant: a record of the case counts, whoever's institution it carries
Matches_anyInstitution(in, row) ==
    row.in.party = in.party /\ row.in.account = in.account

\* _identity_mismatch: every field of the effect identity, and the amount; the
\* details a target compares too are not part of it
Matches(in, row) ==
    /\ row.in.inst = in.inst
    /\ row.in.party = in.party
    /\ row.in.account = in.account

Confirms(r) == Visible(r) /\ Matches(input[r], Found(r))

Precheck(r) ==
    /\ At(r, "start")
    /\ \/ Absent(r) /\ Goto(r, "cleared") /\ UNCHANGED ref
       \/ /\ Confirms(r)
          /\ Goto(r, "ALREADY_APPLIED")
          /\ ref' = [ref EXCEPT ![r] = Found(r).ref]
    /\ AsksNothing(r)

\* Unavailable, ambiguous or malformed
PrecheckFails(r) ==
    /\ At(r, "start")
    /\ Goto(r, "PRECHECK_FAILED")
    /\ AsksNothing(r) /\ UNCHANGED ref

Dispatch(r) ==
    /\ At(r, "cleared")
    /\ Goto(r, "waiting")
    /\ req' = [req EXCEPT ![r] = "wire"]
    /\ UNCHANGED <<target, switches, store, landed, input, ref, wiped>>

\* Mutant: an error status is taken for a request that was turned away
AfterAnswer_errorIsRefusal(status) ==
    IF status = "200" THEN "postcheck" ELSE "SESSION_EXPIRED"

\* A browser does not look at the status; over HTTP a 401 is a refusal, and
\* any other error leaves the effect possible
AfterAnswer(status) ==
    IF IsCore \/ status = "200" THEN "postcheck"
    ELSE IF status = "401" THEN "SESSION_EXPIRED" ELSE "reconcile"

TakeAnswer(r) ==
    /\ At(r, "waiting") /\ req[r] \in Statuses
    /\ Goto(r, AfterAnswer(req[r]))
    /\ req' = [req EXCEPT ![r] = "taken"]
    /\ UNCHANGED <<target, switches, store, landed, input, ref, wiped>>

\* A transport error or the caller's timeout; the request goes on by itself
GiveUp(r) ==
    /\ At(r, "waiting")
    /\ Goto(r, "reconcile")
    /\ AsksNothing(r) /\ UNCHANGED ref

LoseRequest(r) ==
    /\ req[r] = "wire"
    /\ req' = [req EXCEPT ![r] = "lost"]
    /\ UNCHANGED <<target, switches, store, landed, local, wiped>>

\* The postcheck's inquiry, then at need the reconciliation's
Confirm(r) ==
    /\ caller[r] \in {"postcheck", "reconcile"}
    /\ Confirms(r)
    /\ Goto(r, IF At(r, "postcheck") THEN "COMPLETED" ELSE "CONFIRMED_APPLIED")
    /\ ref' = [ref EXCEPT ![r] = Found(r).ref]
    /\ AsksNothing(r)

PostcheckUnconfirmed(r) ==
    /\ At(r, "postcheck")
    /\ Goto(r, "reconcile")
    /\ AsksNothing(r) /\ UNCHANGED ref

ReconcileAbsent(r) ==
    /\ At(r, "reconcile")
    /\ Absent(r)
    /\ Goto(r, "CONFIRMED_NOT_APPLIED")
    /\ AsksNothing(r) /\ UNCHANGED ref

\* No answer, a hidden row or a row with another identity
ReconcileInconclusive(r) ==
    /\ At(r, "reconcile")
    /\ Goto(r, "UNCERTAIN_EFFECT")
    /\ AsksNothing(r) /\ UNCHANGED ref

Applied(r) == caller[r] \in {"ALREADY_APPLIED", "COMPLETED", "CONFIRMED_APPLIED"}

\* reconcile_applied_effects, when the case is resumed: the whole identity,
\* exactly one effect, and the reference the ledger has
AuditAgrees(r) ==
    /\ Visible(r)
    /\ Matches(input[r], Found(r))
    /\ history[input[r].case] = 1
    /\ Found(r).ref = ref[r]
Audit(r) ==
    /\ Applied(r)
    /\ Absent(r) \/ Visible(r)
    /\ Goto(r, IF AuditAgrees(r) THEN "AUDITED" ELSE "TARGET_LEDGER_DIVERGENCE")
    /\ AsksNothing(r) /\ UNCHANGED ref

-----------------------------------------------------------------------------
Serve(r) ==
    \/ HandleRefused(r) \/ HandleRejected(r) \/ HandleRepeated(r) \/ HandleApplied(r)
    \/ LoseRequest(r)
Attempt(r) ==
    \/ Precheck(r) \/ PrecheckFails(r) \/ Dispatch(r) \/ TakeAnswer(r) \/ GiveUp(r)
    \/ Confirm(r) \/ PostcheckUnconfirmed(r) \/ ReconcileAbsent(r)
    \/ ReconcileInconclusive(r) \/ Audit(r)

Next ==
    \/ \E r \in Requests : Serve(r) \/ Attempt(r)
    \/ \E in \in HandInputs : FiledByHand(in)
    \/ SetSwitches \/ Reset \/ Restart

Spec == Init /\ [][Next]_vars

-----------------------------------------------------------------------------
(* Properties *)

\* A case has at most one effect at a target, whatever the number of callers,
\* late requests, repeats, filings by hand, restarts and resets: the row, the
\* history and the balance always agree.  This is what keeps a request that
\* lands after its retry (EffectProtocol, effect_late_retry) from paying twice.
OneEffectPerCase ==
    \A c \in Cases :
        /\ history[c] = IF rows[c] = NoRow THEN 0 ELSE 1
        /\ credited[c] = IF IsCore THEN history[c] ELSE 0

\* StoreInv: OneEffectPerCase over well-typed states.
StoreInv == TypeOK /\ OneEffectPerCase

\* What a caller is told is borne out, now and later, until somebody resets
\* the target: "applied" by a record of its identity, a session refusal by a
\* request that has not taken effect and cannot any more, and an absence by a
\* request that has not either, unless the caller gave up on it while it was
\* still under way.  A request that did take effect is never found to belong
\* to somebody else, and an applied claim never diverges.
OutcomesAreTrue ==
    wiped \/ \A r \in Requests :
        /\ Applied(r) \/ At(r, "AUDITED") =>
             /\ Found(r) # NoRow /\ Matches(input[r], Found(r))
             /\ Found(r).ref = ref[r]
        /\ At(r, "SESSION_EXPIRED") => r \notin landed /\ req[r] = "taken"
        /\ At(r, "CONFIRMED_NOT_APPLIED") /\ req[r] = "taken" => r \notin landed
        /\ r \in landed => Found(r) # NoRow /\ Matches(input[r], Found(r))
        /\ ~At(r, "TARGET_LEDGER_DIVERGENCE")

\* The target and its callers together keep the contract the effect engine
\* counts on: one immutable record per case, verdicts that are true when given.
Identity(in) == <<in.inst, in.party, in.account>>
Identities == {Identity(in) : in \in Inputs \cup HandInputs}
VerdictAt(place) ==
    CASE place \in {"ALREADY_APPLIED", "COMPLETED", "CONFIRMED_APPLIED",
                    "AUDITED", "TARGET_LEDGER_DIVERGENCE"} -> "applied"
      [] place = "CONFIRMED_NOT_APPLIED" -> "absent"
      [] place = "SESSION_EXPIRED" -> "refused"
      [] place \in {"UNCERTAIN_EFFECT", "PRECHECK_FAILED"} -> "unknown"
      [] OTHER -> "none"
Records == [c \in Cases |-> IF rows[c] = NoRow THEN NoRow ELSE Identity(rows[c].in)]
Asked == [r \in Requests |-> [case |-> input[r].case, identity |-> Identity(input[r])]]
Verdicts == [r \in Requests |-> VerdictAt(caller[r])]
Contract == INSTANCE TargetContract WITH
    NoRecord <- NoRow, record <- Records, asked <- Asked, verdict <- Verdicts
KeepsContract == Contract!Spec
=============================================================================

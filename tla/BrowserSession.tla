--------------------------- MODULE BrowserSession ---------------------------
(***************************************************************************)
(* A live browser page shared by automation and operators: the worker      *)
(* thread that owns it and its command queue                               *)
(* (tandem/handoff/browser_session.py), the API route that admits a        *)
(* request by its lease token and hands it to that thread                  *)
(* (api_execute_browser_action in tandem/api/app.py), and the case's       *)
(* control lease changing hands meanwhile.                                 *)
(*                                                                         *)
(* A request is one call of the route by one owner.  Its token is the one  *)
(* its client learnt from the lease, which may be stale when the route     *)
(* checks it.  Selectors, values and snapshots are left out: a request     *)
(* either operates the page or fails, before or after doing so.            *)
(***************************************************************************)
EXTENDS Naturals, Sequences, FiniteSets

CONSTANTS
    Requests, Owners, OwnerOf,  \* requests and who makes them
    CLOSE, NoRequest,
    MaxToken                    \* bound on how often the lease changes hands

ASSUME SessionAssumption ==
    /\ OwnerOf \in [Requests -> Owners]
    /\ CLOSE \notin Requests /\ NoRequest \notin Requests /\ CLOSE # NoRequest
    /\ MaxToken \in Nat

VARIABLES
    lease,      \* the case_leases row
    pc, tok,    \* per request: its handler's place and the token it carries
    open,       \* the broker lists the session
    commands,   \* the worker's queue
    thread,     \* the worker thread: the command in its hands, or ended
    response,   \* per request: what the worker put on its response queue
    page,       \* the requests that operated the page, in order
    audit,      \* those with a BROWSER_ACTION_EXECUTED event
    earlier     \* per request: those already over when it was made

worker == <<open, commands, thread, response, page>>
vars == <<lease, pc, tok, worker, audit, earlier>>

-----------------------------------------------------------------------------
Ended == {"acknowledged", "refused", "timedout"}

TypeOK ==
    /\ lease \in [owner : Owners, token : 0..MaxToken, active : BOOLEAN]
    /\ pc \in [Requests -> {"new", "made", "admitted", "found", "waiting"} \cup Ended]
    /\ tok \in [Requests -> 0..MaxToken]
    /\ open \in BOOLEAN
    /\ commands \in Seq(Requests \cup {CLOSE})
    /\ thread \in Requests \cup {NoRequest, CLOSE}
    /\ response \in [Requests -> {"none", "ok", "failed"}]
    /\ page \in Seq(Requests)
    /\ audit \subseteq Requests
    /\ earlier \in [Requests -> SUBSET Requests]

Init ==
    /\ lease \in [owner : Owners, token : {0}, active : {FALSE}]
    /\ pc = [r \in Requests |-> "new"]
    /\ tok = [r \in Requests |-> 0]
    /\ open = TRUE
    /\ commands = <<>>
    /\ thread = NoRequest
    /\ response = [r \in Requests |-> "none"]
    /\ page = <<>>
    /\ audit = {}
    /\ earlier = [r \in Requests |-> {}]

Goto(r, l) == pc' = [pc EXCEPT ![r] = l]

-----------------------------------------------------------------------------
(* The lease *)

AcquireLease(owner) ==
    /\ ~lease.active /\ lease.token < MaxToken
    /\ lease' = [owner |-> owner, token |-> lease.token + 1, active |-> TRUE]
    /\ UNCHANGED <<pc, tok, worker, audit, earlier>>

\* released by its owner or by the release_lease route, or expired
LeaseEnds ==
    /\ lease.active
    /\ lease' = [lease EXCEPT !.active = FALSE]
    /\ UNCHANGED <<pc, tok, worker, audit, earlier>>

HoldsLease(r) == lease.active /\ lease.owner = OwnerOf[r] /\ lease.token = tok[r]

-----------------------------------------------------------------------------
(* api_execute_browser_action *)

\* external: a client that has read its lease sends a request
MakeRequest(r) ==
    /\ pc[r] = "new" /\ lease.active /\ lease.owner = OwnerOf[r]
    /\ tok' = [tok EXCEPT ![r] = lease.token]
    /\ earlier' = [earlier EXCEPT ![r] = {q \in Requests : pc[q] \in Ended}]
    /\ Goto(r, "made")
    /\ UNCHANGED <<lease, worker, audit>>

\* validate_lease_token, then the heartbeat, which commits
Admit(r) ==
    /\ pc[r] = "made"
    /\ Goto(r, IF HoldsLease(r) THEN "admitted" ELSE "refused")
    /\ UNCHANGED <<lease, tok, worker, audit, earlier>>

\* the broker looks the worker up under its lock, KeyError if it is gone ...
FindWorker(r) ==
    /\ pc[r] = "admitted"
    /\ Goto(r, IF open THEN "found" ELSE "refused")
    /\ UNCHANGED <<lease, tok, worker, audit, earlier>>

\* ... and queues the command outside it
PutCommand(r) ==
    /\ pc[r] = "found"
    /\ commands' = Append(commands, r)
    /\ Goto(r, "waiting")
    /\ UNCHANGED <<lease, tok, open, thread, response, page, audit, earlier>>

\* response.get: the snapshot is recorded with the event, a failure is a 409
Receive(r) ==
    /\ pc[r] = "waiting" /\ response[r] # "none"
    /\ audit' = IF response[r] = "ok" THEN audit \cup {r} ELSE audit
    /\ Goto(r, IF response[r] = "ok" THEN "acknowledged" ELSE "refused")
    /\ UNCHANGED <<lease, tok, worker, earlier>>

\* Mutant: a command that timed out is taken as done
TimeOut_recorded(r) ==
    /\ pc[r] = "waiting" /\ response[r] = "none"
    /\ Goto(r, "acknowledged")
    /\ audit' = audit \cup {r}
    /\ UNCHANGED <<lease, tok, worker, earlier>>

\* twenty seconds without a response; the command stays queued
TimeOut(r) ==
    /\ pc[r] = "waiting" /\ response[r] = "none"
    /\ Goto(r, "timedout")
    /\ UNCHANGED <<lease, tok, worker, audit, earlier>>

-----------------------------------------------------------------------------
(* The worker thread *)

\* Mutant: the queue is a stack
TakeCommand_last ==
    /\ thread = NoRequest /\ commands # <<>>
    /\ thread' = commands[Len(commands)]
    /\ commands' = SubSeq(commands, 1, Len(commands) - 1)
    /\ UNCHANGED <<lease, pc, tok, open, response, page, audit, earlier>>

\* the next command; CLOSE ends the thread for good
TakeCommand ==
    /\ thread = NoRequest /\ commands # <<>>
    /\ thread' = Head(commands)
    /\ commands' = Tail(commands)
    /\ UNCHANGED <<lease, pc, tok, open, response, page, audit, earlier>>

\* the command operates the page; what follows it (load, snapshot) may fail
OperatePage(answer) ==
    /\ thread \in Requests
    /\ page' = Append(page, thread)
    /\ response' = [response EXCEPT ![thread] = answer]
    /\ thread' = NoRequest
    /\ UNCHANGED <<lease, pc, tok, open, commands, audit, earlier>>

\* the control is not there, or the page has crashed
CommandFails ==
    /\ thread \in Requests
    /\ response' = [response EXCEPT ![thread] = "failed"]
    /\ thread' = NoRequest
    /\ UNCHANGED <<lease, pc, tok, open, commands, page, audit, earlier>>

\* the broker forgets the worker and queues a CLOSE
CloseSession ==
    /\ open
    /\ open' = FALSE
    /\ commands' = Append(commands, CLOSE)
    /\ UNCHANGED <<lease, pc, tok, thread, response, page, audit, earlier>>

Handle(r) ==
    Admit(r) \/ FindWorker(r) \/ PutCommand(r) \/ Receive(r) \/ TimeOut(r)
Work == TakeCommand \/ OperatePage("ok") \/ OperatePage("failed") \/ CommandFails

Next ==
    \/ \E o \in Owners : AcquireLease(o)
    \/ LeaseEnds
    \/ \E r \in Requests : MakeRequest(r) \/ Handle(r)
    \/ Work
    \/ CloseSession

Spec == Init /\ [][Next]_vars

-----------------------------------------------------------------------------
(* Properties *)

\* Every BROWSER_ACTION_EXECUTED event is of a command that did operate the
\* page, once, although commands outlive the requests that gave up on them.
AuditedOnce ==
    /\ \A r \in audit : \E i \in 1..Len(page) : page[i] = r
    /\ \A i, j \in 1..Len(page) : page[i] = page[j] => i = j

\* A request made when another one was over, answered or given up on, never
\* overtakes it on the page: a client that retries after a timeout finds the
\* late command done before its retry, across every change of owner.
NoOvertaking ==
    \A i, j \in 1..Len(page) : page[j] \in earlier[page[i]] => j < i

\* REMEDIATION_STATUS.md H-04: "stale owners cannot operate the page": no
\* command operates it while the lease is somebody else's.
StaleOwnersCannotOperate ==
    [][page' # page /\ lease.active => lease.owner = OwnerOf[thread]]_vars
=============================================================================

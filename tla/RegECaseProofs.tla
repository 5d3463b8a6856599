--------------------------- MODULE RegECaseProofs ---------------------------
(***************************************************************************)
(* For any number of process lives, overlapping or not: what RegECase says *)
(* of one case.                                                            *)
(***************************************************************************)
EXTENDS RegECase, TLAPS, FiniteSetTheorems

\* A task's process: a task that runs has a process that is up
ProcInv ==
    \A w \in Workers :
        /\ proc[w] = "off" => pc[w] = "idle"
        /\ proc[w] = "dead" <=> pc[w] = "dead"

\* The places at or past a milestone of run_case
AfterNotice == {"notified", "waiting"}
AfterActivate == {"pending", "notify", "notify.claimed", "notify.submitted"} \cup AfterNotice
AfterCredit == {"activate"} \cup AfterActivate
AfterFiled == {"filed", "credit", "credit.claimed", "credit.submitted"} \cup AfterCredit
AfterVerify == {"bind", "locate", "duplicate", "file", "file.claimed", "file.submitted"}
               \cup AfterFiled
AfterClock == {"verify"} \cup AfterVerify

\* What a task may count on at place l, however stale its session: the stages
\* behind it are on the books, whoever put them there.
Due(l) ==
    /\ l \notin {"idle", "open", "raised", "dead"} => status # "ABSENT"
    /\ l = "deadlines" => obligation # "NONE"
    /\ l \in AfterClock =>
          obligation # "NONE" /\ \A d \in Statutory : deadlines[d] # "NONE"
    /\ l \in AfterVerify => "core.verify_member" \in completed
    /\ l \in AfterFiled => phase[Chargeback] = "confirmed"
    /\ l \in AfterCredit => phase[Credit] = "confirmed"
    /\ l \in AfterActivate =>
          obligation \in {"ACTIVE", "SATISFIED"} /\ deadlines["NOTICE_2_DAY"] # "NONE"
    /\ l \in AfterNotice => phase[Notice] = "confirmed"
    /\ l = "waiting" => deadlines["NOTICE_2_DAY"] = "MET"
TasksDue == \A w \in Workers : Due(pc[w])

\* A copy of the obligation that says it is active is right that it has been
\* activated, however old it is.
CopiesBehind ==
    \A w \in Workers : loaded[w] \in {"ACTIVE", "SATISFIED"} =>
        obligation \in {"ACTIVE", "SATISFIED"}

\* Claims, targets and execution rows agree.
ClaimsAgree ==
    /\ TaskHoldsClaim
    /\ \A w \in Workers, l \in EffectPlace : pc[w] = Claimed(l) => ~record[EffectAt[l]]
    /\ \A c \in Effects :
          /\ phase[c] = "held" => holder[c] \in Workers
          /\ phase[c] \in {"open", "closed"} => ~record[c]
          /\ phase[c] = "confirmed" => record[c]
          /\ c \in completed => phase[c] = "confirmed"
    /\ \A w \in Workers : snap[w] \subseteq completed

\* A claim is only taken on what comes before it, and the case's row and clock
\* only say what has happened.
StagesInOrder ==
    /\ \A c \in Effects : phase[c] # "open" =>
          /\ obligation # "NONE" /\ \A d \in Statutory : deadlines[d] # "NONE"
          /\ "core.verify_member" \in completed
    /\ phase[Credit] # "open" => phase[Chargeback] = "confirmed"
    /\ phase[Notice] # "open" =>
          /\ phase[Credit] = "confirmed"
          /\ obligation \in {"ACTIVE", "SATISFIED"} /\ deadlines["NOTICE_2_DAY"] # "NONE"
    /\ phase[Credit] = "confirmed" => moneyMoved
    /\ obligation = "SATISFIED" => phase[Notice] = "confirmed" /\ deadlines["NOTICE_2_DAY"] = "MET"
    /\ deadlines["NOTICE_2_DAY"] = "MET" => phase[Notice] = "confirmed"
    /\ status = "NOTICE_PENDING" => phase[Credit] = "confirmed"
    /\ status \in {"NOTICE_SENT", "WAITING_RESOLUTION"} => deadlines["NOTICE_2_DAY"] = "MET"

CaseInv == TypeOK /\ ProcInv /\ TasksDue /\ CopiesBehind /\ ClaimsAgree /\ StagesInOrder

\* One process after the other: there is one task at most, its session is up
\* to date, and a case that automation has left stays left.
OneTask ==
    /\ \A v, w \in Workers : proc[v] = "up" /\ proc[w] = "up" => v = w
    /\ \A w \in Workers :
          /\ pc[w] = "idle" => seen[w] = "fresh"
          /\ pc[w] \in InRunCase /\ seen[w] # "fresh" => seen[w] = status
          /\ pc[w] = "verify" => snap[w] = completed
          /\ status \in DO_NOT_AUTO_RESUME =>
                \/ pc[w] \in {"idle", "dead", "returned", "raised"}
                \/ pc[w] = "to_FAILED" /\ status = "FAILED"
                \/ pc[w] = "to_NEEDS_HUMAN" /\ status = "NEEDS_HUMAN"
                \/ pc[w] = "to_UNCERTAIN_EFFECT" /\ status = "UNCERTAIN_EFFECT"
          /\ pc[w] = "to_FAILED" /\ record[Credit] =>
                obligation = "ACTIVE" /\ deadlines["NOTICE_2_DAY"] = "PENDING"
SequentialInv == ~overlapped => OneTask /\ UncertainIsEscalated /\ FailureKeepsClock

\* Then a copy of the obligation is current, and none takes back that it has
\* been satisfied.
CopiesCurrent ==
    ~overlapped =>
        /\ \A w \in Workers :
              /\ proc[w] # "up" => loaded[w] = "unread"
              /\ loaded[w] \in {"unread", obligation}
        /\ deadlines["NOTICE_2_DAY"] = "MET" => obligation = "SATISFIED"

-----------------------------------------------------------------------------
(* The places and the effects *)

LEMMA EngineLines ==
    /\ EffectPlace = {"file", "credit", "notify"}
    /\ Claimed("file") = "file.claimed" /\ Claimed("credit") = "credit.claimed"
    /\ Claimed("notify") = "notify.claimed"
    /\ Submitted("file") = "file.submitted" /\ Submitted("credit") = "credit.submitted"
    /\ Submitted("notify") = "notify.submitted"
    /\ EffectAt["file"] = Chargeback /\ EffectAt["credit"] = Credit
    /\ EffectAt["notify"] = Notice
    /\ AfterEffect["file"] = "filed" /\ AfterEffect["credit"] = "activate"
    /\ AfterEffect["notify"] = "notified"
  BY DEF EffectPlace, Claimed, Submitted, EffectAt, AfterEffect

LEMMA EngineSites ==
    /\ {Claimed(l) : l \in EffectPlace} = {"file.claimed", "credit.claimed", "notify.claimed"}
    /\ {Submitted(l) : l \in EffectPlace} =
          {"file.submitted", "credit.submitted", "notify.submitted"}
  <1>1. EffectPlace = {"file", "credit", "notify"}
    BY EngineLines
  <1>2. {Claimed(l) : l \in EffectPlace} =
            {Claimed("file"), Claimed("credit"), Claimed("notify")}
    BY <1>1, Zenon
  <1>3. {Submitted(l) : l \in EffectPlace} =
            {Submitted("file"), Submitted("credit"), Submitted("notify")}
    BY <1>1, Zenon
  <1> QED BY <1>2, <1>3, EngineLines

LEMMA AllPlaces ==
    /\ InRunCase =
         {"open", "deadlines", "recover", "reconcile", "resume", "bind", "filed",
          "activate", "pending", "notified", "waiting",
          "to_FAILED", "to_NEEDS_HUMAN", "to_UNCERTAIN_EFFECT",
          "verify", "locate", "duplicate", "file", "credit", "notify",
          "file.claimed", "credit.claimed", "notify.claimed",
          "file.submitted", "credit.submitted", "notify.submitted"}
    /\ Place = InRunCase \cup {"idle", "queued", "raised", "returned", "dead"}
  BY EngineSites DEF InRunCase, Place, ReadPlace, EffectPlace

\* The places outside the engine, first those where a task counts on nothing
\* but the case's row
Early == {"idle", "queued", "open", "recover", "reconcile", "resume", "to_FAILED",
          "to_NEEDS_HUMAN", "to_UNCERTAIN_EFFECT", "raised", "returned", "dead"}
Outside == Early \cup {"deadlines", "verify", "bind", "locate", "duplicate", "file", "filed",
                       "credit", "activate", "pending", "notify", "notified", "waiting"}

LEMMA OutsidePlaces ==
    /\ \A l \in Outside, m \in EffectPlace : l \in Place /\ l # Claimed(m) /\ l # Submitted(m)
    /\ \A l \in Early : /\ l \in Outside /\ l # "deadlines" /\ l # "waiting"
                         /\ l \notin AfterClock /\ l \notin AfterVerify /\ l \notin AfterFiled
                         /\ l \notin AfterCredit /\ l \notin AfterActivate /\ l \notin AfterNotice
  BY EngineLines, AllPlaces DEF Outside, Early, AfterClock, AfterVerify, AfterFiled, AfterCredit,
        AfterActivate, AfterNotice

LEMMA EffectNames ==
    /\ Effects = {Chargeback, Credit, Notice}
    /\ Chargeback # Credit /\ Chargeback # Notice /\ Credit # Notice
    /\ Effects \cap Reads = {} /\ "core.verify_member" \in Reads
    /\ Statutory \cap {"NOTICE_2_DAY"} = {}
  BY DEF Effects, Chargeback, Credit, Notice, Reads, Statutory

\* The engine's places and effects correspond one to one
LEMMA EngineOneToOne ==
    \A l, m \in EffectPlace :
        /\ EffectAt[l] \in Effects /\ (EffectAt[l] = EffectAt[m] => l = m)
        /\ Claimed(l) \in InRunCase /\ Submitted(l) \in InRunCase
        /\ Claimed(l) # Submitted(m)
        /\ Claimed(l) = Claimed(m) => l = m
        /\ Submitted(l) = Submitted(m) => l = m
        /\ l \in InRunCase /\ AfterEffect[l] \in InRunCase
        /\ AfterEffect[l] # Claimed(m) /\ AfterEffect[l] # Submitted(m)
        /\ l # Claimed(m) /\ l # Submitted(m)
  BY EngineLines, AllPlaces, EffectNames

LEMMA StateNames ==
    /\ HappyStates = {"RECEIVED", "MEMBER_VERIFIED", "TRANSACTION_VERIFIED",
                      "DUPLICATE_CHECKED", "CHARGEBACK_FILED",
                      "PROVISIONAL_CREDIT_POSTED", "NOTICE_PENDING", "NOTICE_SENT",
                      "WAITING_RESOLUTION"}
    /\ RegEState = HappyStates \cup {"RESOLVED", "NEEDS_HUMAN", "UNCERTAIN_EFFECT", "FAILED"}
    /\ "ABSENT" \notin RegEState /\ "fresh" \notin RegEState
  <1>1. Len(HAPPY_PATH) = 9
    BY DEF HAPPY_PATH
  <1>2. 1..9 = {1, 2, 3, 4, 5, 6, 7, 8, 9}
    OBVIOUS
  <1>3. HappyStates = {HAPPY_PATH[1], HAPPY_PATH[2], HAPPY_PATH[3], HAPPY_PATH[4],
                       HAPPY_PATH[5], HAPPY_PATH[6], HAPPY_PATH[7], HAPPY_PATH[8],
                       HAPPY_PATH[9]}
    BY <1>1, <1>2, Zenon DEF HappyStates
  <1>4. HappyStates = {"RECEIVED", "MEMBER_VERIFIED", "TRANSACTION_VERIFIED",
                      "DUPLICATE_CHECKED", "CHARGEBACK_FILED",
                      "PROVISIONAL_CREDIT_POSTED", "NOTICE_PENDING", "NOTICE_SENT",
                      "WAITING_RESOLUTION"}
    BY <1>3 DEF HAPPY_PATH
  <1> QED BY <1>4 DEF RegEState

-----------------------------------------------------------------------------
(* Types *)

\* Only SetStatus writes the case's status for a task: it ends as it was or as
\* the task wants it.
LEMMA StatusWrites ==
    ASSUME TypeOK, NEW w \in Workers, NEW s \in RegEState
    PROVE  /\ SetStatus(w, s) \/ EnsureReached(w, s) \/ KeepStatus =>
                /\ status' \in {status, s}
                /\ seen' \in [Workers -> RegEState \cup {"fresh"}]
           /\ KeepStatus => status' = status /\ seen' = seen
  BY DEF TypeOK, SetStatus, EnsureReached, KeepStatus

\* The case, its clock and its execution rows, after a step of a task
CaseTyped ==
    /\ status \in RegEState \cup {"ABSENT"}
    /\ moneyMoved \in BOOLEAN
    /\ obligation \in {"NONE", "PLANNED", "ACTIVE", "SATISFIED"}
    /\ deadlines \in [Statutory \cup {"NOTICE_2_DAY"} -> {"NONE", "PENDING", "MET"}]
    /\ completed \subseteq Effects \cup Reads
ClaimsTyped ==
    /\ phase \in [Effects -> {"open", "held", "parked", "confirmed", "closed"}]
    /\ holder \in [Effects -> Workers \cup {NoWorker}]
    /\ record \in [Effects -> BOOLEAN]
TasksTyped ==
    /\ proc \in [Workers -> {"off", "up", "dead"}]
    /\ overlapped \in BOOLEAN
    /\ pc \in [Workers -> Place]
    /\ seen \in [Workers -> RegEState \cup {"fresh"}]
    /\ snap \in [Workers -> SUBSET (Effects \cup Reads)]
    /\ loaded \in [Workers -> {"unread", "PLANNED", "ACTIVE", "SATISFIED"}]

LEMMA DeadlinesTyped ==
    ASSUME TypeOK, NEW types
    PROVE  /\ WithDeadlines(types) \in
                [Statutory \cup {"NOTICE_2_DAY"} -> {"NONE", "PENDING", "MET"}]
           /\ \A d \in Statutory \cup {"NOTICE_2_DAY"} :
                 /\ deadlines[d] # "NONE" => WithDeadlines(types)[d] = deadlines[d]
                 /\ d \notin types => WithDeadlines(types)[d] = deadlines[d]
                 /\ d \in types /\ deadlines[d] = "NONE" => WithDeadlines(types)[d] = "PENDING"
           /\ WithObligation \in {"PLANNED", "ACTIVE", "SATISFIED"}
           /\ obligation # "NONE" => WithObligation = obligation
  BY DEF TypeOK, WithDeadlines, WithObligation

-----------------------------------------------------------------------------
(* What a step leaves in place *)

\* Stages are never taken back.
Forward ==
    /\ status # "ABSENT" => status' # "ABSENT"
    /\ obligation # "NONE" => obligation' # "NONE"
    /\ obligation \in {"ACTIVE", "SATISFIED"} => obligation' \in {"ACTIVE", "SATISFIED"}
    /\ deadlines["NOTICE_2_DAY"] = "MET" => deadlines'["NOTICE_2_DAY"] = "MET"
    /\ \A d \in Statutory \cup {"NOTICE_2_DAY"} :
          deadlines[d] # "NONE" => deadlines'[d] # "NONE"
    /\ completed \subseteq completed'
    /\ \A c \in Effects : phase[c] = "confirmed" => phase'[c] = "confirmed"

\* So a task still has behind it what it had, and the one that moves has what
\* its new place wants.
LEMMA TasksStep ==
    ASSUME TypeOK, TasksDue, CopiesBehind, Forward, NEW w \in Workers, NEW l \in Place,
           pc' = [pc EXCEPT ![w] = l], Due(l)',
           \A v \in Workers : \/ loaded'[v] \in {loaded[v], "unread"}
                              \/ obligation' \in {"ACTIVE", "SATISFIED"}
    PROVE  TasksDue' /\ CopiesBehind'
  <1>0. CopiesBehind'
    BY DEF CopiesBehind, Forward
  <1> SUFFICES ASSUME NEW v \in Workers PROVE Due(pc[v])'
    BY <1>0 DEF TasksDue
  <1>1. CASE v = w
    BY <1>1 DEF Due, TypeOK
  <1>2. CASE v # w
    <2>1. pc'[v] = pc[v]
      BY <1>2 DEF TypeOK
    <2> QED BY <2>1, EffectNames DEF TasksDue, Forward, Due
  <1> QED BY <1>1, <1>2

\* Claims are as they were, when no claim moves and no task enters the engine
LEMMA QuietClaims ==
    ASSUME TypeOK, ClaimsAgree, NEW w \in Workers, NEW l \in Outside,
           pc' = [pc EXCEPT ![w] = l],
           UNCHANGED <<phase, holder, record>>,
           completed \subseteq completed', completed' \subseteq completed \cup Reads,
           \A v \in Workers : snap'[v] \subseteq completed'
    PROVE  ClaimsAgree'
  <1>1. \A v \in Workers, m \in EffectPlace :
            pc'[v] \in {Claimed(m), Submitted(m)} => pc'[v] = pc[v]
    BY OutsidePlaces DEF TypeOK
  <1>2. TaskHoldsClaim'
    BY <1>1 DEF ClaimsAgree, TaskHoldsClaim
  <1>3. \A v \in Workers, m \in EffectPlace : pc'[v] = Claimed(m) => ~record'[EffectAt[m]]
    BY <1>1 DEF ClaimsAgree
  <1>4. \A c \in Effects : c \in completed' => c \in completed
    BY EffectNames
  <1> QED BY <1>2, <1>3, <1>4 DEF ClaimsAgree

\* A step that touches the case's status only, and that as StagesInOrder wants
LEMMA QuietStep ==
    ASSUME CaseInv, ProcInv', CaseTyped', TasksTyped', NEW w \in Workers, NEW l \in Outside,
           pc' = [pc EXCEPT ![w] = l],
           UNCHANGED <<moneyMoved, obligation, deadlines, phase, holder, record>>,
           completed \subseteq completed', completed' \subseteq completed \cup Reads,
           \A v \in Workers : snap'[v] \subseteq completed',
           status # "ABSENT" => status' # "ABSENT",
           status' # status =>
              /\ status' = "NOTICE_PENDING" => phase[Credit] = "confirmed"
              /\ status' \in {"NOTICE_SENT", "WAITING_RESOLUTION"} =>
                    deadlines["NOTICE_2_DAY"] = "MET",
           \A v \in Workers : loaded'[v] \in {loaded[v], "unread"},
           Due(l)'
    PROVE  CaseInv'
  <1> USE DEF CaseInv
  <1>1. TypeOK'
    BY DEF CaseTyped, ClaimsTyped, TasksTyped, TypeOK
  <1>2. Forward
    BY DEF Forward
  <1>3. TasksDue' /\ CopiesBehind'
    BY <1>2, TasksStep, OutsidePlaces, EngineLines
  <1>4. ClaimsAgree'
    BY QuietClaims
  <1>5. StagesInOrder'
    BY DEF StagesInOrder
  <1> QED BY <1>1, <1>3, <1>4, <1>5

\* A task that moves on within its process
LEMMA TaskMoves ==
    ASSUME CaseInv, NEW w \in Workers, NEW l \in Place \ {"dead"},
           pc' = [pc EXCEPT ![w] = l], UNCHANGED procs,
           proc[w] = "up" \/ pc[w] \notin {"idle", "dead"},
           seen' \in [Workers -> RegEState \cup {"fresh"}],
           snap' \in [Workers -> SUBSET (Effects \cup Reads)],
           loaded' \in [Workers -> {"unread", "PLANNED", "ACTIVE", "SATISFIED"}]
    PROVE  ProcInv' /\ TasksTyped'
  <1>1. proc[w] = "up"
    BY DEF CaseInv, ProcInv, TypeOK
  <1>2. ProcInv'
    BY <1>1 DEF CaseInv, ProcInv, TypeOK, procs
  <1>3. TasksTyped'
    BY DEF CaseInv, TypeOK, procs, TasksTyped
  <1> QED BY <1>2, <1>3

-----------------------------------------------------------------------------
(* Service processes *)

LEMMA ProcessStep ==
    ASSUME CaseInv, NEW w \in Workers,
           Boot(w) \/ ApiCreateCase(w) \/ RunNewCase(w) \/ Crash(w) \/ TaskRaises(w)
           \/ FailClosed(w) \/ ScriptExits(w) \/ StartTask(w)
    PROVE  CaseInv'
  <1> USE AllPlaces, OutsidePlaces, StateNames DEF Outside, Early
  <1>0. \A v \in Workers : snap[v] \subseteq completed
    BY DEF CaseInv, ClaimsAgree
  <1>1. CASE Boot(w)
    <2>1. PICK l \in {"idle", "queued"} : /\ pc' = [pc EXCEPT ![w] = l]
                                          /\ l = "queued" => status # "ABSENT"
      <3>1. pc[w] = "idle"
        BY <1>1 DEF Boot, NextLife, CaseInv, ProcInv
      <3> QED BY <1>1, <3>1 DEF Boot, Goto, CaseInv, TypeOK
    <2>2. ProcInv'
      BY <1>1, <2>1 DEF Boot, NextLife, CaseInv, ProcInv, TypeOK
    <2>3. TasksTyped'
      <3>1. overlapped' \in BOOLEAN
        BY <1>1 DEF Boot, CaseInv, TypeOK
      <3> QED BY <1>1, <2>1, <3>1 DEF Boot, CaseInv, TypeOK, TasksTyped
    <2>4. CaseTyped'
      BY <1>1 DEF Boot, case, effects, CaseInv, TypeOK, CaseTyped
    <2>5. Due(l)'
      BY <1>1, <2>1 DEF Due, Boot, case, effects
    <2> QED BY <1>0, <1>1, <2>1, <2>2, <2>3, <2>4, <2>5, QuietStep DEF Boot, case, effects
  <1>2. CASE ApiCreateCase(w)
    <2>1. ProcInv' /\ TasksTyped'
      BY <1>2, TaskMoves DEF ApiCreateCase, Goto, CaseInv, TypeOK
    <2>2. CaseTyped'
      BY <1>2 DEF ApiCreateCase, effects, CaseInv, TypeOK, CaseTyped
    <2>3. Due("queued")'
      BY <1>2 DEF Due, ApiCreateCase, effects
    <2> QED BY <1>0, <1>2, <2>1, <2>2, <2>3, QuietStep DEF ApiCreateCase, Goto, effects
  <1>3. CASE RunNewCase(w)
    <2>1. ProcInv' /\ TasksTyped'
      BY <1>3, TaskMoves DEF RunNewCase, Goto, CaseInv, TypeOK
    <2>2. CaseTyped'
      BY <1>3 DEF RunNewCase, case, effects, CaseInv, TypeOK, CaseTyped
    <2>3. Due("open")'
      BY <1>3 DEF Due, RunNewCase, case, effects
    <2> QED BY <1>0, <1>3, <2>1, <2>2, <2>3, QuietStep DEF RunNewCase, Goto, case, effects
  <1>4. CASE Crash(w)
    <2>1. ProcInv' /\ TasksTyped'
      BY <1>4 DEF Crash, Goto, CaseInv, ProcInv, TypeOK, TasksTyped
    <2>2. CaseTyped'
      BY <1>4 DEF Crash, case, effects, CaseInv, TypeOK, CaseTyped
    <2>3. Due("dead")'
      BY <1>4 DEF Due, Crash, case, effects
    <2>4. \A v \in Workers : snap'[v] \subseteq completed' /\ loaded'[v] \in {loaded[v], "unread"}
      BY <1>0, <1>4 DEF Crash, effects, CaseInv, TypeOK
    <2> QED BY <1>4, <2>1, <2>2, <2>3, <2>4, QuietStep DEF Crash, Goto, case, effects
  <1>5. CASE TaskRaises(w)
    <2>1. ProcInv' /\ TasksTyped'
      BY <1>5, TaskMoves DEF TaskRaises, Goto, CaseInv, TypeOK
    <2>2. CaseTyped'
      BY <1>5 DEF TaskRaises, case, effects, CaseInv, TypeOK, CaseTyped
    <2>3. Due("raised")'
      BY <1>5 DEF Due, TaskRaises, case, effects
    <2> QED BY <1>0, <1>5, <2>1, <2>2, <2>3, QuietStep DEF TaskRaises, Goto, case, effects
  <1>6. CASE FailClosed(w)
    <2>1. ProcInv' /\ TasksTyped'
      BY <1>6, TaskMoves DEF FailClosed, At, Goto, CaseInv, TypeOK
    <2>2. CaseTyped'
      BY <1>6 DEF FailClosed, effects, CaseInv, TypeOK, CaseTyped
    <2>3. Due("returned")'
      BY <1>6 DEF Due, FailClosed, effects
    <2> QED BY <1>0, <1>6, <2>1, <2>2, <2>3, QuietStep DEF FailClosed, Goto, effects
  <1>7. CASE ScriptExits(w)
    <2>1. ProcInv' /\ TasksTyped'
      BY <1>7 DEF ScriptExits, Goto, CaseInv, ProcInv, TypeOK, TasksTyped
    <2>2. CaseTyped'
      BY <1>7 DEF ScriptExits, case, effects, CaseInv, TypeOK, CaseTyped
    <2>3. Due("dead")'
      BY <1>7 DEF Due, ScriptExits, case, effects
    <2>4. \A v \in Workers : snap'[v] \subseteq completed' /\ loaded'[v] \in {loaded[v], "unread"}
      BY <1>0, <1>7 DEF ScriptExits, effects, CaseInv, TypeOK
    <2> QED BY <1>7, <2>1, <2>2, <2>3, <2>4, QuietStep DEF ScriptExits, Goto, case, effects
  <1>8. CASE StartTask(w)
    <2>1. status \in RegEState
      BY <1>8 DEF StartTask, At, CaseInv, TasksDue, Due, TypeOK
    <2>2. ProcInv' /\ TasksTyped'
      BY <1>8, <2>1, TaskMoves DEF StartTask, At, Goto, CaseInv, TypeOK
    <2>3. CaseTyped'
      BY <1>8 DEF StartTask, case, effects, CaseInv, TypeOK, CaseTyped
    <2>4. Due("recover")'
      BY <1>8, <2>1 DEF Due, StartTask, case, effects
    <2> QED BY <1>0, <1>8, <2>2, <2>3, <2>4, QuietStep DEF StartTask, Goto, case, effects
  <1> QED BY <1>1, <1>2, <1>3, <1>4, <1>5, <1>6, <1>7, <1>8

-----------------------------------------------------------------------------
(* A task outside the engine *)

\* A step of a running task that writes the status at most
LEMMA RunStep ==
    ASSUME CaseInv, NEW w \in Workers, NEW l \in Outside \ {"dead"},
           pc' = [pc EXCEPT ![w] = l], pc[w] \notin {"idle", "open", "raised", "dead"},
           UNCHANGED <<moneyMoved, obligation, deadlines, completed, phase, holder, record,
                       procs, snap, loaded>>,
           NEW s \in RegEState, SetStatus(w, s) \/ EnsureReached(w, s) \/ KeepStatus,
           s = "NOTICE_PENDING" => phase[Credit] = "confirmed",
           s \in {"NOTICE_SENT", "WAITING_RESOLUTION"} => deadlines["NOTICE_2_DAY"] = "MET",
           Due(l)
    PROVE  CaseInv'
  <1>1. /\ status' \in {status, s} /\ seen' \in [Workers -> RegEState \cup {"fresh"}]
        /\ status # "ABSENT" /\ status' # "ABSENT"
    BY StatusWrites, StateNames DEF CaseInv, TasksDue, Due
  <1>2. ProcInv' /\ TasksTyped'
    BY <1>1, TaskMoves, OutsidePlaces, EngineLines DEF CaseInv, TypeOK
  <1>3. CaseTyped'
    BY <1>1 DEF CaseInv, TypeOK, CaseTyped
  <1>4. Due(l)'
    BY <1>1 DEF Due
  <1>5. \A v \in Workers : snap'[v] \subseteq completed'
    BY DEF CaseInv, ClaimsAgree
  <1> QED BY <1>1, <1>2, <1>3, <1>4, <1>5, QuietStep

LEMMA RunStepKeep ==
    ASSUME CaseInv, NEW w \in Workers, NEW l \in Outside \ {"dead"},
           pc' = [pc EXCEPT ![w] = l], pc[w] \notin {"idle", "open", "raised", "dead"},
           UNCHANGED <<case, effects, procs, seen, snap, loaded>>,
           Due(l)
    PROVE  CaseInv'
  <1>1. "RECEIVED" \in RegEState /\ KeepStatus
    BY StateNames DEF KeepStatus, case
  <1> QED BY <1>1, RunStep DEF case, effects

\* What a running task has behind it at its place
LEMMA DueHere ==
    ASSUME CaseInv, NEW w \in Workers, NEW l, pc[w] = l
    PROVE  Due(l)
  BY DEF CaseInv, TasksDue, Due

\* What comes with a place also comes with the places behind it
LEMMA Milestones ==
    /\ AfterNotice \subseteq AfterActivate /\ AfterActivate \subseteq AfterCredit
    /\ AfterCredit \subseteq AfterFiled /\ AfterFiled \subseteq AfterVerify
    /\ AfterVerify \subseteq AfterClock
    /\ \A l \in AfterClock : l \notin {"idle", "open", "raised", "dead", "deadlines"}
  BY DEF AfterClock, AfterVerify, AfterFiled, AfterCredit, AfterActivate, AfterNotice

LEMMA FailureStep ==
    ASSUME CaseInv, NEW w \in Workers,
           RecoveryFails(w) \/ ReconcileFails(w) \/ ReturnFailure(w)
    PROVE  CaseInv'
  <1> USE OutsidePlaces, StateNames DEF Outside, Early
  <1>1. pc[w] \notin {"idle", "open", "raised", "dead"}
    BY DEF RecoveryFails, ReconcileFails, ReturnFailure, At
  <1>2. status # "ABSENT"
    BY <1>1 DEF CaseInv, TasksDue, Due
  <1>3. Due("returned") /\ Due("raised")
    BY <1>2 DEF Due
  <1>4. CASE RecoveryFails(w)
    BY <1>1, <1>3, <1>4, RunStep DEF RecoveryFails, Goto, effects
  <1>5. CASE ReconcileFails(w)
    BY <1>1, <1>3, <1>5, RunStep DEF ReconcileFails, Goto, effects
  <1>6. ASSUME NEW s \in {"FAILED", "NEEDS_HUMAN", "UNCERTAIN_EFFECT"}, FailTo(w, s)
        PROVE  CaseInv'
    <2>1. CASE can_transition(Seen(w), s)
      BY <1>1, <1>3, <1>6, <2>1, RunStep DEF FailTo, Goto, effects
    <2>2. CASE ~can_transition(Seen(w), s)
      BY <1>1, <1>3, <1>6, <2>2, RunStep DEF FailTo, Goto, effects
    <2> QED BY <2>1, <2>2
  <1> QED BY <1>4, <1>5, <1>6 DEF ReturnFailure

LEMMA OrderlyStep ==
    ASSUME CaseInv, NEW w \in Workers,
           ReconcileApplied(w) \/ VerifyFails(w) \/ BindAccount(w) \/ ChargebackFiled(w)
           \/ NoticePending(w) \/ WaitResolution(w)
    PROVE  CaseInv'
  <1> USE OutsidePlaces, StateNames DEF Outside, Early
  <1>1. CASE ReconcileApplied(w)
    <2>1. Due("resume")
      BY <1>1, DueHere DEF ReconcileApplied, At, Due
    <2> QED BY <1>1, <2>1, RunStepKeep DEF ReconcileApplied, At, Goto
  <1>2. CASE VerifyFails(w)
    <2>1. Due("to_FAILED")
      BY <1>2, DueHere DEF VerifyFails, At, Due
    <2> QED BY <1>2, <2>1, RunStepKeep DEF VerifyFails, At, Goto
  <1>3. CASE BindAccount(w)
    <2>1. Due("to_NEEDS_HUMAN") /\ Due("locate")
      BY <1>3, DueHere DEF BindAccount, At, Due, AfterClock, AfterVerify, AfterFiled,
                           AfterCredit, AfterActivate, AfterNotice
    <2>2. PICK l \in {"locate", "to_NEEDS_HUMAN"} : pc' = [pc EXCEPT ![w] = l]
      BY <1>3 DEF BindAccount, Goto
    <2> QED BY <1>3, <2>1, <2>2, RunStepKeep DEF BindAccount, At
  <1>4. CASE ChargebackFiled(w)
    <2>1. Due("credit")
      BY <1>4, DueHere DEF ChargebackFiled, At, Due, AfterClock, AfterVerify, AfterFiled,
                           AfterCredit, AfterActivate, AfterNotice
    <2> QED BY <1>4, <2>1, RunStep DEF ChargebackFiled, At, Goto, effects
  <1>5. CASE NoticePending(w)
    <2>1. Due("notify") /\ phase[Credit] = "confirmed"
      BY <1>5, DueHere DEF NoticePending, At, Due, AfterClock, AfterVerify, AfterFiled,
                           AfterCredit, AfterActivate, AfterNotice
    <2>2. "NOTICE_PENDING" \in RegEState /\ (KeepStatus \/ EnsureReached(w, "NOTICE_PENDING"))
      BY <1>5 DEF NoticePending
    <2>3. UNCHANGED <<moneyMoved, obligation, deadlines, completed, phase, holder, record,
                      procs, snap, loaded>>
      BY <1>5 DEF NoticePending, effects
    <2> QED BY <1>5, <2>1, <2>2, <2>3, RunStep DEF NoticePending, At, Goto
  <1>6. CASE WaitResolution(w)
    <2>1. Due("returned") /\ deadlines["NOTICE_2_DAY"] = "MET"
      BY <1>6, DueHere DEF WaitResolution, At, Due
    <2> QED BY <1>6, <2>1, RunStep DEF WaitResolution, At, Goto, effects
  <1> QED BY <1>1, <1>2, <1>3, <1>4, <1>5, <1>6

LEMMA ReadsAt ==
    /\ ReadPlace = {"verify", "locate", "duplicate"}
    /\ \A l \in ReadPlace : ReadAt[l].cap \in Reads /\ ReadAt[l].state \in RegEState
    /\ \A l \in ReadPlace : ReadAt[l].state \in
          {"MEMBER_VERIFIED", "TRANSACTION_VERIFIED", "DUPLICATE_CHECKED"}
    /\ ReadAt["verify"].cap = "core.verify_member"
    /\ ReadAt["verify"].next = "bind" /\ ReadAt["locate"].next = "duplicate"
    /\ ReadAt["duplicate"].next = "file"
  BY StateNames DEF ReadPlace, ReadAt, Reads

LEMMA ReadCaseStep ==
    ASSUME CaseInv, NEW w \in Workers, ReadStep(w)
    PROVE  CaseInv'
  <1> DEFINE r == ReadAt[pc[w]]
  <1>1. /\ pc[w] \in ReadPlace /\ r.cap \in Reads /\ r.state \in RegEState
        /\ r.state \notin {"NOTICE_PENDING", "NOTICE_SENT", "WAITING_RESOLUTION"}
        /\ r.next \in {"bind", "duplicate", "file"}
        /\ pc[w] = "verify" => r.cap = "core.verify_member"
        /\ pc[w] \in AfterClock /\ (pc[w] # "verify" => pc[w] \in AfterVerify)
    BY ReadsAt DEF ReadStep, AfterClock, AfterVerify
  <1>2. /\ status # "ABSENT" /\ obligation # "NONE" /\ \A d \in Statutory : deadlines[d] # "NONE"
        /\ pc[w] # "verify" => "core.verify_member" \in completed
    BY <1>1, Milestones DEF CaseInv, TasksDue, Due
  <1>3. /\ r.next \in Outside \ {"dead"} /\ "raised" \in Outside \ {"dead"}
        /\ r.next \notin AfterFiled /\ r.next \notin AfterCredit /\ r.next \notin AfterActivate
        /\ r.next \notin AfterNotice /\ r.next # "deadlines" /\ r.next # "waiting"
    BY <1>1 DEF Outside, Early, AfterFiled, AfterCredit, AfterActivate, AfterNotice
  <1>4. pc[w] \notin {"idle", "open", "raised", "dead"}
    BY <1>1, ReadsAt
  <1>5. \A v \in Workers : snap[v] \subseteq completed
    BY DEF CaseInv, ClaimsAgree
  <1>6. PICK n \in {"bind", "duplicate", "file"} : n = r.next
    BY <1>1
  <1> HIDE DEF r
  <1>7. CASE r.cap \in snap[w]
    <2>1. Due(n)
      BY <1>6, <1>1, <1>2, <1>3, <1>5, <1>7 DEF Due
    <2>2. KeepStatus /\ UNCHANGED completed /\ pc' = [pc EXCEPT ![w] = n]
      BY <1>6, <1>7 DEF ReadStep, Goto, r
    <2> QED BY <1>6, <1>1, <1>3, <1>4, <2>1, <2>2, RunStep DEF ReadStep
  <1>8. CASE r.cap \notin snap[w] /\ can_transition(Seen(w), r.state)
    <2>1. /\ SetStatus(w, r.state) /\ completed' = completed \cup {r.cap}
          /\ pc' = [pc EXCEPT ![w] = n]
      BY <1>6, <1>8 DEF ReadStep, Goto, r
    <2>2. /\ status' \in {status, r.state} /\ status' # "ABSENT"
          /\ seen' \in [Workers -> RegEState \cup {"fresh"}]
      BY <1>1, <1>2, <2>1, StatusWrites, StateNames DEF CaseInv
    <2>3. ProcInv' /\ TasksTyped'
      BY <1>6, <1>3, <1>4, <2>1, <2>2, TaskMoves, OutsidePlaces, EngineLines
         DEF ReadStep, CaseInv, TypeOK
    <2>4. CaseTyped'
      BY <1>1, <2>1, <2>2 DEF ReadStep, CaseInv, TypeOK, CaseTyped
    <2>5. Due(n)'
      BY <1>6, <1>1, <1>2, <1>3, <2>1, <2>2 DEF Due, ReadStep
    <2>6. \A v \in Workers : snap'[v] \subseteq completed'
      BY <1>5, <2>1 DEF ReadStep
    <2> QED BY <1>6, <1>1, <1>3, <2>1, <2>2, <2>3, <2>4, <2>5, <2>6, QuietStep DEF ReadStep
  <1>9. CASE r.cap \notin snap[w] /\ ~can_transition(Seen(w), r.state)
    <2>1. Due("raised")
      BY OutsidePlaces DEF Due, Early
    <2>2. KeepStatus /\ UNCHANGED completed /\ pc' = [pc EXCEPT ![w] = "raised"]
      BY <1>9 DEF ReadStep, Goto, r
    <2>3. UNCHANGED <<case, effects, procs, seen, snap, loaded>>
      BY <2>2 DEF ReadStep, KeepStatus, case, effects
    <2> QED BY <1>3, <1>4, <2>1, <2>2, <2>3, RunStepKeep
  <1> QED BY <1>7, <1>8, <1>9

-----------------------------------------------------------------------------
(* The clock *)

\* A step that sets the clock: no claim moves
LEMMA ClockStep ==
    ASSUME CaseInv, NEW w \in Workers, NEW l \in Outside \ {"dead"},
           pc' = [pc EXCEPT ![w] = l], pc[w] \notin {"idle", "dead"},
           UNCHANGED <<effects, procs>>, CaseTyped',
           seen' \in [Workers -> RegEState \cup {"fresh"}],
           snap' = snap \/ snap' = [snap EXCEPT ![w] = completed],
           loaded' \in [Workers -> {"unread", "PLANNED", "ACTIVE", "SATISFIED"}],
           loaded' = loaded \/ obligation' \in {"ACTIVE", "SATISFIED"},
           Forward, Due(l)', StagesInOrder'
    PROVE  CaseInv'
  <1>1. \A v \in Workers : snap[v] \subseteq completed
    BY DEF CaseInv, ClaimsAgree
  <1>2. /\ snap' \in [Workers -> SUBSET (Effects \cup Reads)]
        /\ \A v \in Workers : snap'[v] \subseteq completed'
    BY <1>1 DEF CaseInv, TypeOK, effects
  <1>3. ProcInv' /\ TasksTyped'
    BY <1>2, TaskMoves, OutsidePlaces, EngineLines DEF CaseInv
  <1>4. TypeOK'
    BY <1>3 DEF CaseInv, TypeOK, CaseTyped, TasksTyped, effects
  <1>5. TasksDue' /\ CopiesBehind'
    BY TasksStep, OutsidePlaces, EngineLines DEF CaseInv
  <1>6. ClaimsAgree'
    BY <1>2, QuietClaims DEF CaseInv, effects
  <1> QED BY <1>3, <1>4, <1>5, <1>6 DEF CaseInv

LEMMA OpenStep ==
    ASSUME CaseInv, NEW w \in Workers, OpenCase(w)
    PROVE  CaseInv'
  <1>1. /\ pc' = [pc EXCEPT ![w] = "deadlines"] /\ pc[w] = "open"
        /\ UNCHANGED <<moneyMoved, deadlines, effects, procs, seen, snap, loaded>>
        /\ obligation' \in {"PLANNED", "ACTIVE", "SATISFIED"}
        /\ obligation # "NONE" => obligation' = obligation
        /\ obligation = "NONE" => obligation' = "PLANNED"
        /\ status' \in RegEState /\ status' \in {status, "RECEIVED"}
    BY DeadlinesTyped, StateNames DEF OpenCase, At, Goto, CaseInv, TypeOK, WithObligation
  <1>2. CaseTyped'
    BY <1>1 DEF CaseInv, TypeOK, CaseTyped, effects
  <1>3. Forward
    BY <1>1, StateNames DEF Forward, effects
  <1>4. Due("deadlines")'
    BY <1>1, StateNames
       DEF Due, AfterClock, AfterVerify, AfterFiled, AfterCredit, AfterActivate, AfterNotice
  <1>5. StagesInOrder'
    BY <1>1 DEF StagesInOrder, CaseInv, effects
  <1> QED BY <1>1, <1>2, <1>3, <1>4, <1>5, ClockStep DEF Outside, Early, CaseInv, TypeOK

LEMMA RegisterStep ==
    ASSUME CaseInv, NEW w \in Workers, RegisterDeadlines(w) \/ Resume(w)
    PROVE  CaseInv'
  <1>1. /\ pc' = [pc EXCEPT ![w] = "verify"] /\ pc[w] \in {"deadlines", "resume"}
        /\ UNCHANGED <<status, moneyMoved, effects, procs, seen, loaded>>
        /\ snap' = [snap EXCEPT ![w] = completed]
        /\ status # "ABSENT" /\ (pc[w] = "deadlines" => obligation # "NONE")
    BY DEF RegisterDeadlines, Resume, At, Goto, CaseInv, TasksDue, Due
  <1>2. /\ obligation' \in {"PLANNED", "ACTIVE", "SATISFIED"}
        /\ obligation # "NONE" => obligation' = obligation
        /\ obligation = "NONE" => obligation' = "PLANNED"
        /\ deadlines' = WithDeadlines(Statutory)
    BY <1>1, DeadlinesTyped DEF RegisterDeadlines, Resume, At, WithObligation, CaseInv, TypeOK
  <1>3. /\ deadlines' \in [Statutory \cup {"NOTICE_2_DAY"} -> {"NONE", "PENDING", "MET"}]
        /\ \A d \in Statutory : deadlines'[d] # "NONE"
        /\ \A d \in Statutory \cup {"NOTICE_2_DAY"} :
              deadlines[d] # "NONE" => deadlines'[d] = deadlines[d]
        /\ deadlines'["NOTICE_2_DAY"] = deadlines["NOTICE_2_DAY"]
    BY <1>2, DeadlinesTyped, EffectNames DEF CaseInv
  <1>4. CaseTyped'
    BY <1>1, <1>2, <1>3 DEF CaseInv, TypeOK, CaseTyped, effects
  <1>5. Forward
    BY <1>1, <1>2, <1>3 DEF Forward, effects
  <1>6. Due("verify")'
    BY <1>1, <1>2, <1>3
       DEF Due, AfterClock, AfterVerify, AfterFiled, AfterCredit, AfterActivate, AfterNotice
  <1>7. StagesInOrder'
    BY <1>1, <1>2, <1>3 DEF StagesInOrder, CaseInv, effects
  <1> QED BY <1>1, <1>4, <1>5, <1>6, <1>7, ClockStep DEF Outside, Early, CaseInv, TypeOK

\* What a task that posted the credit, or found it posted, counts on
LEMMA ActivateStep ==
    ASSUME CaseInv, NEW w \in Workers, ActivateObligation(w)
    PROVE  CaseInv'
  <1> DEFINE s == "PROVISIONAL_CREDIT_POSTED"
  <1>1. /\ pc' = [pc EXCEPT ![w] = "pending"] /\ pc[w] = "activate"
        /\ UNCHANGED <<effects, procs, snap>>
        /\ obligation' \in {"ACTIVE", obligation}
        /\ loaded[w] = "PLANNED" => obligation' = "ACTIVE"
        /\ deadlines' = WithDeadlines({"NOTICE_2_DAY"})
    BY DEF ActivateObligation, At, Goto, CaseInv, TypeOK
  <1>a. loaded[w] # "PLANNED" => obligation \in {"ACTIVE", "SATISFIED"}
    BY DEF ActivateObligation, CaseInv, CopiesBehind, TypeOK
  <1>b. obligation' \in {"ACTIVE", "SATISFIED"}
    BY <1>1, <1>a
  <1>c. loaded' \in [Workers -> {"unread", "PLANNED", "ACTIVE", "SATISFIED"}]
    BY DEF ActivateObligation, CaseInv, TypeOK
  <1>2. /\ status # "ABSENT" /\ \A d \in Statutory : deadlines[d] # "NONE"
        /\ "core.verify_member" \in completed
        /\ phase[Chargeback] = "confirmed" /\ phase[Credit] = "confirmed"
    BY <1>1, DueHere DEF Due, AfterClock, AfterVerify, AfterFiled, AfterCredit
  <1>3. /\ deadlines' \in [Statutory \cup {"NOTICE_2_DAY"} -> {"NONE", "PENDING", "MET"}]
        /\ \A d \in Statutory \cup {"NOTICE_2_DAY"} :
              deadlines[d] # "NONE" => deadlines'[d] = deadlines[d]
        /\ deadlines["NOTICE_2_DAY"] = "NONE" => deadlines'["NOTICE_2_DAY"] = "PENDING"
    BY <1>1, DeadlinesTyped DEF CaseInv
  <1>4. /\ status' \in {status, s} /\ status' # "ABSENT" /\ status' \in RegEState
        /\ seen' \in [Workers -> RegEState \cup {"fresh"}]
    <2>1. s \in RegEState /\ s # "ABSENT"
      BY StateNames
    <2> QED BY <1>2, <2>1, StatusWrites DEF ActivateObligation, CaseInv, TypeOK
  <1>5. moneyMoved' \in BOOLEAN /\ (moneyMoved => moneyMoved')
    BY Zenon DEF ActivateObligation
  <1>6. CaseTyped'
    BY <1>1, <1>b, <1>3, <1>4, <1>5 DEF CaseInv, TypeOK, CaseTyped, effects
  <1>7. Forward
    BY <1>1, <1>b, <1>3, <1>4 DEF Forward, effects
  <1>8. Due("pending")'
    BY <1>1, <1>b, <1>2, <1>3, <1>4, EffectNames
       DEF Due, AfterClock, AfterVerify, AfterFiled, AfterCredit, AfterActivate, AfterNotice, effects
  <1>9. StagesInOrder'
    BY <1>1, <1>b, <1>2, <1>3, <1>4, <1>5, EffectNames DEF StagesInOrder, CaseInv, effects
  <1> QED BY <1>1, <1>b, <1>c, <1>4, <1>6, <1>7, <1>8, <1>9, ClockStep DEF Outside, Early

LEMMA SettleNoticeStep ==
    ASSUME CaseInv, NEW w \in Workers, SettleNotice(w)
    PROVE  CaseInv'
  <1> USE StateNames
  <1>1. /\ pc[w] = "notified" /\ UNCHANGED <<moneyMoved, effects, procs, snap>>
        /\ obligation' \in {"SATISFIED", obligation}
        /\ loaded' = [loaded EXCEPT ![w] = "SATISFIED"]
        /\ deadlines' = [deadlines EXCEPT !["NOTICE_2_DAY"] =
                             IF @ = "PENDING" THEN "MET" ELSE @]
    BY DEF SettleNotice, At
  <1>2. /\ status # "ABSENT" /\ deadlines["NOTICE_2_DAY"] # "NONE"
        /\ obligation \in {"ACTIVE", "SATISFIED"}
        /\ \A d \in Statutory : deadlines[d] # "NONE"
        /\ "core.verify_member" \in completed
        /\ \A c \in Effects : phase[c] = "confirmed"
    BY <1>1, DueHere, EffectNames
       DEF Due, AfterClock, AfterVerify, AfterFiled, AfterCredit, AfterActivate, AfterNotice
  <1>a. /\ obligation' \in {"ACTIVE", "SATISFIED"}
        /\ loaded' \in [Workers -> {"unread", "PLANNED", "ACTIVE", "SATISFIED"}]
    BY <1>1, <1>2 DEF CaseInv, TypeOK
  <1>3. /\ deadlines' \in [Statutory \cup {"NOTICE_2_DAY"} -> {"NONE", "PENDING", "MET"}]
        /\ \A d \in Statutory : deadlines'[d] = deadlines[d]
        /\ deadlines'["NOTICE_2_DAY"] = "MET"
    BY <1>1, <1>2, EffectNames DEF CaseInv, TypeOK
  <1>4. PICK l \in {"waiting", "returned"}, s \in {"NOTICE_SENT", "WAITING_RESOLUTION"} :
            /\ pc' = [pc EXCEPT ![w] = l] /\ (SetStatus(w, s) \/ EnsureReached(w, s))
    BY DEF SettleNotice, Goto
  <1>5. /\ status' \in {status, s} /\ status' \in RegEState /\ status' # "ABSENT"
        /\ seen' \in [Workers -> RegEState \cup {"fresh"}]
    BY <1>2, <1>4, StatusWrites DEF CaseInv, TypeOK
  <1>6. CaseTyped'
    BY <1>1, <1>a, <1>3, <1>5 DEF CaseInv, TypeOK, CaseTyped, effects
  <1>7. Forward
    BY <1>1, <1>a, <1>3, <1>5 DEF Forward, effects
  <1>8. Due(l)'
    BY <1>1, <1>a, <1>2, <1>3, <1>5, EffectNames DEF Due, effects
  <1>9. StagesInOrder'
    BY <1>1, <1>a, <1>2, <1>3, <1>5, EffectNames DEF StagesInOrder, CaseInv, effects
  <1> QED BY <1>1, <1>a, <1>4, <1>5, <1>6, <1>7, <1>8, <1>9, ClockStep DEF Outside, Early

-----------------------------------------------------------------------------
(* Effects *)

\* What a task at, in or past the engine for effect EffectAt[l] has behind it
LEMMA EngineDue ==
    ASSUME CaseInv, NEW w \in Workers, NEW l \in EffectPlace,
           pc[w] \in {l, Claimed(l), Submitted(l)}
    PROVE  /\ status # "ABSENT" /\ obligation # "NONE"
           /\ \A d \in Statutory : deadlines[d] # "NONE"
           /\ "core.verify_member" \in completed
           /\ l # "file" => phase[Chargeback] = "confirmed"
           /\ l = "notify" => /\ phase[Credit] = "confirmed"
                              /\ obligation \in {"ACTIVE", "SATISFIED"}
                              /\ deadlines["NOTICE_2_DAY"] # "NONE"
           /\ pc[w] \notin {"idle", "open", "raised", "dead"}
  <1>1. /\ pc[w] \in AfterVerify
        /\ l # "file" => pc[w] \in AfterFiled
        /\ l = "notify" => pc[w] \in AfterActivate
    BY EngineLines DEF AfterVerify, AfterFiled, AfterCredit, AfterActivate
  <1> QED BY <1>1, Milestones DEF CaseInv, TasksDue, Due

\* A task past an effect counts on it
LEMMA AfterEffectDue ==
    ASSUME CaseInv, NEW w \in Workers, NEW l \in EffectPlace,
           pc[w] \in {l, Claimed(l), Submitted(l)}, phase[EffectAt[l]] = "confirmed"
    PROVE  Due(AfterEffect[l])
  BY EngineDue, EngineLines
     DEF Due, AfterClock, AfterVerify, AfterFiled, AfterCredit, AfterActivate, AfterNotice

\* The engine calls that never claim the effect
LEMMA UnclaimedStep ==
    ASSUME CaseInv, NEW w \in Workers, NEW l \in EffectPlace,
           SkipEffect(w, l) \/ EffectRejected(w, l) \/ PolicyDenied(w, l)
    PROVE  CaseInv'
  <1>1. pc[w] = l /\ pc[w] \notin {"idle", "open", "raised", "dead"}
    BY EngineLines DEF SkipEffect, EffectRejected, PolicyDenied, At
  <1>2. UNCHANGED <<case, effects, procs, seen, snap, loaded>>
    BY DEF SkipEffect, EffectRejected, PolicyDenied
  <1>3. AfterEffect[l] \in Outside \ {"dead"} /\ "to_NEEDS_HUMAN" \in Outside \ {"dead"}
    BY EngineLines DEF Outside, Early
  <1>4. Due("to_NEEDS_HUMAN")
    BY <1>1, EngineDue, OutsidePlaces DEF Due, Early
  <1>5. CASE pc' = [pc EXCEPT ![w] = "to_NEEDS_HUMAN"]
    BY <1>1, <1>2, <1>3, <1>4, <1>5, RunStepKeep
  <1>6. CASE pc' = [pc EXCEPT ![w] = AfterEffect[l]] /\ phase[EffectAt[l]] = "confirmed"
    BY <1>1, <1>2, <1>3, <1>6, AfterEffectDue, RunStepKeep
  <1>7. EffectAt[l] \in snap[w] => phase[EffectAt[l]] = "confirmed"
    BY EngineOneToOne DEF CaseInv, ClaimsAgree
  <1> QED BY <1>5, <1>6, <1>7 DEF SkipEffect, EffectRejected, PolicyDenied, Goto

LEMMA AdmitStep ==
    ASSUME CaseInv, NEW w \in Workers, NEW l \in EffectPlace, AdmitEffect(w, l)
    PROVE  CaseInv'
  <1>1. PICK c \in Effects : c = EffectAt[l]
    BY EngineOneToOne
  <1>2. /\ pc[w] = l /\ phase[c] = "open"
        /\ phase' = [phase EXCEPT ![c] = "held"] /\ holder' = [holder EXCEPT ![c] = w]
        /\ pc' = [pc EXCEPT ![w] = Claimed(l)]
        /\ UNCHANGED <<case, completed, record, procs, seen, snap, loaded>>
    BY <1>1 DEF AdmitEffect, At, Goto
  <1>3. /\ phase'[c] = "held" /\ holder'[c] = w
        /\ \A d \in Effects \ {c} : phase'[d] = phase[d] /\ holder'[d] = holder[d]
    BY <1>2 DEF CaseInv, TypeOK
  <1>4. ProcInv' /\ TasksTyped'
    BY <1>2, TaskMoves, EngineLines, AllPlaces DEF CaseInv, TypeOK
  <1>5. TypeOK'
    BY <1>2, <1>4 DEF CaseInv, TypeOK, CaseTyped, ClaimsTyped, TasksTyped, case
  <1>6. Forward
    BY <1>2, <1>3 DEF Forward, case
  <1>7. Due(Claimed(l))'
    BY <1>1, <1>2, <1>3, EngineDue, EngineLines, EffectNames
       DEF Due, case, AfterClock, AfterVerify, AfterFiled, AfterCredit, AfterActivate, AfterNotice
  <1>8. TasksDue' /\ CopiesBehind'
    <2>1. Claimed(l) \in Place
      BY EngineOneToOne, AllPlaces
    <2> QED BY <1>2, <1>6, <1>7, <2>1, TasksStep, EngineLines DEF CaseInv
  <1>9. ClaimsAgree'
    <2>1. pc'[w] = Claimed(l) /\ \A v \in Workers \ {w} : pc'[v] = pc[v]
      BY <1>2 DEF CaseInv, TypeOK
    <2>2. ~record[c] /\ record' = record
      BY <1>2 DEF CaseInv, ClaimsAgree
    <2>3. TaskHoldsClaim'
      <3> SUFFICES ASSUME NEW v \in Workers, NEW m \in EffectPlace,
                          pc'[v] \in {Claimed(m), Submitted(m)}
                   PROVE  phase'[EffectAt[m]] = "held" /\ holder'[EffectAt[m]] = v
        BY DEF TaskHoldsClaim
      <3>1. CASE v = w
        BY <1>1, <1>3, <2>1, <3>1, EngineOneToOne
      <3>2. CASE v # w
        <4>1. phase[EffectAt[m]] = "held" /\ holder[EffectAt[m]] = v
          BY <2>1, <3>2 DEF CaseInv, ClaimsAgree, TaskHoldsClaim
        <4> QED BY <1>2, <1>3, <4>1, EngineOneToOne
      <3> QED BY <3>1, <3>2
    <2>4. \A v \in Workers, m \in EffectPlace : pc'[v] = Claimed(m) => ~record'[EffectAt[m]]
      BY <1>1, <2>1, <2>2, EngineOneToOne DEF CaseInv, ClaimsAgree
    <2>5. \A d \in Effects :
            /\ phase'[d] = "held" => holder'[d] \in Workers
            /\ phase'[d] \in {"open", "closed"} => ~record'[d]
            /\ phase'[d] = "confirmed" => record'[d]
            /\ d \in completed' => phase'[d] = "confirmed"
      BY <1>2, <1>3 DEF CaseInv, ClaimsAgree
    <2> QED BY <1>2, <2>3, <2>4, <2>5 DEF CaseInv, ClaimsAgree
  <1>10. StagesInOrder'
    BY <1>1, <1>2, <1>3, EngineDue, EngineLines, EffectNames DEF CaseInv, StagesInOrder, case
  <1> QED BY <1>4, <1>5, <1>8, <1>9, <1>10 DEF CaseInv

LEMMA SubmitStep ==
    ASSUME CaseInv, NEW w \in Workers, NEW l \in EffectPlace, SubmitEffect(w, l)
    PROVE  CaseInv'
  <1>1. PICK c \in Effects : c = EffectAt[l]
    BY EngineOneToOne
  <1>2. PICK b \in BOOLEAN : record' = [record EXCEPT ![c] = b]
    BY <1>1 DEF SubmitEffect
  <1>3. /\ pc[w] = Claimed(l) /\ phase[c] = "held" /\ holder[c] = w
        /\ pc' = [pc EXCEPT ![w] = Submitted(l)]
        /\ UNCHANGED <<case, completed, phase, holder, procs, seen, snap, loaded>>
    BY <1>1 DEF SubmitEffect, At, Goto, CaseInv, ClaimsAgree, TaskHoldsClaim
  <1>4. record' \in [Effects -> BOOLEAN] /\ \A d \in Effects \ {c} : record'[d] = record[d]
    BY <1>2 DEF CaseInv, TypeOK
  <1>5. Submitted(l) \in Place \ {"dead"}
    BY EngineLines, AllPlaces
  <1>6. ProcInv' /\ TasksTyped'
    BY <1>3, <1>5, TaskMoves, EngineLines DEF CaseInv, TypeOK
  <1>7. TypeOK'
    BY <1>3, <1>4, <1>6
       DEF CaseInv, TypeOK, CaseTyped, ClaimsTyped, TasksTyped, case
  <1>8. Forward
    BY <1>3 DEF Forward, case
  <1>9. Due(Submitted(l))'
    BY <1>3, EngineDue, EngineLines
       DEF Due, case, AfterClock, AfterVerify, AfterFiled, AfterCredit, AfterActivate, AfterNotice
  <1>10. TasksDue' /\ CopiesBehind'
    BY <1>3, <1>5, <1>8, <1>9, TasksStep DEF CaseInv
  <1>11. ClaimsAgree'
    <2>1. pc'[w] = Submitted(l) /\ \A v \in Workers \ {w} : pc'[v] = pc[v]
      BY <1>3 DEF CaseInv, TypeOK
    <2>2. TaskHoldsClaim'
      BY <1>1, <1>3, <2>1, EngineOneToOne DEF CaseInv, ClaimsAgree, TaskHoldsClaim
    <2>3. ASSUME NEW v \in Workers, NEW m \in EffectPlace, pc'[v] = Claimed(m)
          PROVE  ~record'[EffectAt[m]]
      <3>1. v # w /\ pc[v] = Claimed(m)
        BY <2>1, <2>3, EngineOneToOne
      <3>2. holder[EffectAt[m]] = v /\ ~record[EffectAt[m]]
        BY <3>1 DEF CaseInv, ClaimsAgree, TaskHoldsClaim
      <3> QED BY <1>3, <1>4, <3>1, <3>2, EngineOneToOne
    <2>4. \A d \in Effects :
            /\ phase'[d] = "held" => holder'[d] \in Workers
            /\ phase'[d] \in {"open", "closed"} => ~record'[d]
            /\ phase'[d] = "confirmed" => record'[d]
            /\ d \in completed' => phase'[d] = "confirmed"
      BY <1>3, <1>4 DEF CaseInv, ClaimsAgree
    <2> QED BY <1>3, <2>2, <2>3, <2>4 DEF CaseInv, ClaimsAgree
  <1>12. StagesInOrder'
    BY <1>3 DEF CaseInv, StagesInOrder, case
  <1> QED BY <1>6, <1>7, <1>10, <1>11, <1>12 DEF CaseInv

\* A claim that leaves a task's hands takes no other task's claim with it
LEMMA ReleasedClaims ==
    ASSUME CaseInv, NEW w \in Workers, NEW l \in EffectPlace, NEW m \in Outside,
           pc[w] \in {Claimed(l), Submitted(l)}, pc' = [pc EXCEPT ![w] = m],
           NEW p \in {"open", "closed", "parked", "confirmed"}, Release(EffectAt[l], p),
           p \in {"open", "closed"} => ~record[EffectAt[l]],
           p = "confirmed" => record[EffectAt[l]],
           completed' = IF p = "confirmed" THEN completed \cup {EffectAt[l]} ELSE completed,
           UNCHANGED <<record, snap, loaded>>
    PROVE  /\ ClaimsAgree' /\ ClaimsTyped'
           /\ phase[EffectAt[l]] = "held" /\ phase'[EffectAt[l]] = p
           /\ \A d \in Effects : d # EffectAt[l] => phase'[d] = phase[d]
           /\ \A d \in Effects : phase[d] = "confirmed" => phase'[d] = "confirmed"
  <1>1. PICK c \in Effects : c = EffectAt[l]
    BY EngineOneToOne
  <1>2. /\ phase[c] = "held" /\ holder[c] = w
        /\ phase'[c] = p /\ \A d \in Effects \ {c} : phase'[d] = phase[d] /\ holder'[d] = holder[d]
        /\ ClaimsTyped'
    BY <1>1 DEF CaseInv, ClaimsAgree, TaskHoldsClaim, Release, TypeOK, ClaimsTyped
  <1>3. ASSUME NEW v \in Workers, NEW k \in EffectPlace, pc'[v] \in {Claimed(k), Submitted(k)}
        PROVE  v # w /\ pc[v] = pc'[v] /\ EffectAt[k] \in Effects \ {c}
    <2>1. v # w /\ pc[v] = pc'[v]
      BY <1>3, OutsidePlaces DEF CaseInv, TypeOK
    <2> QED BY <1>2, <1>3, <2>1, EngineOneToOne DEF CaseInv, ClaimsAgree, TaskHoldsClaim
  <1>4. TaskHoldsClaim'
    BY <1>2, <1>3 DEF CaseInv, ClaimsAgree, TaskHoldsClaim
  <1>5. \A v \in Workers, k \in EffectPlace : pc'[v] = Claimed(k) => ~record'[EffectAt[k]]
    BY <1>3 DEF CaseInv, ClaimsAgree
  <1>6. \A d \in Effects :
            /\ phase'[d] = "held" => holder'[d] \in Workers
            /\ phase'[d] \in {"open", "closed"} => ~record'[d]
            /\ phase'[d] = "confirmed" => record'[d]
            /\ d \in completed' => phase'[d] = "confirmed"
    BY <1>1, <1>2 DEF CaseInv, ClaimsAgree
  <1>7. \A v \in Workers : snap'[v] \subseteq completed'
    BY DEF CaseInv, ClaimsAgree
  <1> QED BY <1>1, <1>2, <1>4, <1>5, <1>6, <1>7 DEF ClaimsAgree

\* The engine lets go of a claim that it could not confirm
LEMMA GivenUpStep ==
    ASSUME CaseInv, NEW w \in Workers, NEW l \in EffectPlace,
           NEW m \in {"to_FAILED", "to_NEEDS_HUMAN", "to_UNCERTAIN_EFFECT"},
           pc[w] \in {Claimed(l), Submitted(l)}, pc' = [pc EXCEPT ![w] = m],
           NEW p \in {"open", "closed", "parked"}, Release(EffectAt[l], p),
           p # "parked" => ~record[EffectAt[l]],
           UNCHANGED <<moneyMoved, obligation, deadlines, completed, record, procs, snap, loaded>>,
           NEW s \in {"FAILED", "NEEDS_HUMAN", "UNCERTAIN_EFFECT"},
           SetStatus(w, s) \/ KeepStatus
    PROVE  CaseInv'
  <1>1. m \in Outside \ {"dead"} /\ m \in Early /\ m \in Place \ {"dead"}
    BY OutsidePlaces, EngineLines DEF Outside, Early
  <1>2. /\ pc[w] \notin {"idle", "open", "raised", "dead"} /\ status # "ABSENT"
        /\ phase[EffectAt[l]] = "held"
    BY EngineDue DEF CaseInv, ClaimsAgree, TaskHoldsClaim
  <1>3. /\ status' \in {status, s} /\ status' \in RegEState /\ status' # "ABSENT"
        /\ seen' \in [Workers -> RegEState \cup {"fresh"}]
    <2>1. s \in RegEState /\ s # "ABSENT"
      BY StateNames
    <2> QED BY <1>2, <2>1, StatusWrites DEF CaseInv, TypeOK
  <1>4. /\ ClaimsAgree' /\ ClaimsTyped' /\ phase'[EffectAt[l]] = p
        /\ \A d \in Effects : d # EffectAt[l] => phase'[d] = phase[d]
        /\ \A d \in Effects : phase[d] = "confirmed" => phase'[d] = "confirmed"
    BY <1>1, ReleasedClaims
  <1>5. ProcInv' /\ TasksTyped'
    BY <1>1, <1>2, <1>3, TaskMoves DEF CaseInv, TypeOK
  <1>6. TypeOK'
    BY <1>3, <1>4, <1>5 DEF CaseInv, TypeOK, ClaimsTyped, TasksTyped
  <1>7. Forward
    BY <1>3, <1>4 DEF Forward
  <1>8. Due(m)'
    BY <1>1, <1>3, OutsidePlaces DEF Due
  <1>9. TasksDue' /\ CopiesBehind'
    BY <1>1, <1>7, <1>8, TasksStep DEF CaseInv
  <1>10. StagesInOrder'
    <2>1. \A d \in Effects : /\ phase'[d] # "open" => phase[d] # "open"
                             /\ phase'[d] = "confirmed" <=> phase[d] = "confirmed"
      BY <1>2, <1>4
    <2> QED BY <1>3, <2>1, EffectNames DEF CaseInv, StagesInOrder
  <1> QED BY <1>4, <1>5, <1>6, <1>9, <1>10 DEF CaseInv

LEMMA SettleStep ==
    ASSUME CaseInv, NEW w \in Workers, NEW l \in EffectPlace,
           \/ PrecheckHalted(w, l) \/ SettleUncertain(w, l) \/ SettleAbsent(w, l)
           \/ SettleNeedsHuman(w, l) \/ SettleBusiness(w, l) \/ SettleHardFailure(w, l)
    PROVE  CaseInv'
  <1>1. pc[w] = Claimed(l) => ~record[EffectAt[l]]
    BY DEF CaseInv, ClaimsAgree
  <1>2. CASE PrecheckHalted(w, l)
    BY <1>1, <1>2, GivenUpStep DEF PrecheckHalted, At, Goto, case, KeepStatus
  <1>3. CASE SettleUncertain(w, l)
    BY <1>3, GivenUpStep DEF SettleUncertain, Goto
  <1>4. CASE SettleAbsent(w, l)
    BY <1>4, GivenUpStep DEF SettleAbsent, Goto, case, KeepStatus
  <1>5. CASE SettleNeedsHuman(w, l)
    BY <1>1, <1>5, GivenUpStep DEF SettleNeedsHuman, At, Goto
  <1>6. CASE SettleBusiness(w, l)
    BY <1>1, <1>6, GivenUpStep DEF SettleBusiness, At, Goto, case, KeepStatus
  <1>7. CASE SettleHardFailure(w, l)
    BY <1>1, <1>7, GivenUpStep DEF SettleHardFailure, At, Goto
  <1> QED BY <1>2, <1>3, <1>4, <1>5, <1>6, <1>7

LEMMA ConfirmStep ==
    ASSUME CaseInv, NEW w \in Workers, NEW l \in EffectPlace, SettleConfirmed(w, l)
    PROVE  CaseInv'
  <1>1. PICK m \in {"filed", "activate", "notified"} : m = AfterEffect[l]
    BY EngineLines
  <1>2. m \in Outside \ {"dead"} /\ m \in Place \ {"dead"}
    BY OutsidePlaces, EngineLines DEF Outside, Early
  <1>3. /\ pc[w] = Submitted(l) /\ record[EffectAt[l]] /\ Release(EffectAt[l], "confirmed")
        /\ completed' = completed \cup {EffectAt[l]} /\ pc' = [pc EXCEPT ![w] = m]
        /\ UNCHANGED <<obligation, deadlines, record, procs, snap, loaded>>
    BY <1>1 DEF SettleConfirmed, At, Goto
  <1>4. /\ ClaimsAgree' /\ ClaimsTyped' /\ phase'[EffectAt[l]] = "confirmed"
        /\ phase[EffectAt[l]] = "held"
        /\ \A d \in Effects : d # EffectAt[l] => phase'[d] = phase[d]
        /\ \A d \in Effects : phase[d] = "confirmed" => phase'[d] = "confirmed"
    BY <1>2, <1>3, ReleasedClaims
  <1>5. /\ status # "ABSENT" /\ obligation # "NONE"
        /\ pc[w] \notin {"idle", "open", "raised", "dead"}
        /\ l # "file" => phase[Chargeback] = "confirmed"
        /\ l = "notify" => phase[Credit] = "confirmed"
    BY <1>3, EngineDue
  <1>6. /\ status' \in {status, "PROVISIONAL_CREDIT_POSTED"} /\ status' \in RegEState
        /\ status' # "ABSENT" /\ seen' \in [Workers -> RegEState \cup {"fresh"}]
    <2>1. /\ "PROVISIONAL_CREDIT_POSTED" \in RegEState
          /\ SetStatus(w, "PROVISIONAL_CREDIT_POSTED") \/ KeepStatus
      BY StateNames DEF SettleConfirmed
    <2> QED BY <1>5, <2>1, StatusWrites, StateNames DEF CaseInv, TypeOK
  <1>7. moneyMoved' \in BOOLEAN /\ (moneyMoved => moneyMoved') /\ (l = "credit" => moneyMoved')
    <2>1. moneyMoved \in BOOLEAN
      BY DEF CaseInv, TypeOK
    <2>2. CASE l = "credit"
      BY <2>2, Zenon DEF SettleConfirmed
    <2>3. CASE l # "credit"
      BY <2>1, <2>3, Zenon DEF SettleConfirmed
    <2> QED BY <2>2, <2>3
  <1>8. ProcInv' /\ TasksTyped'
    BY <1>2, <1>3, <1>5, <1>6, TaskMoves DEF CaseInv, TypeOK
  <1>9. TypeOK'
    <2>1. CaseTyped'
      BY <1>3, <1>6, <1>7, EngineOneToOne DEF CaseInv, TypeOK, CaseTyped
    <2> QED BY <1>4, <1>8, <2>1 DEF CaseTyped, ClaimsTyped, TasksTyped, TypeOK
  <1>10. Forward
    BY <1>3, <1>4, <1>6 DEF Forward
  <1>11. Due(m)'
    BY <1>1, <1>3, <1>4, <1>6, EngineDue, EngineLines, EffectNames
       DEF Due, AfterClock, AfterVerify, AfterFiled, AfterCredit, AfterActivate, AfterNotice
  <1>12. TasksDue' /\ CopiesBehind'
    BY <1>2, <1>3, <1>10, <1>11, TasksStep DEF CaseInv
  <1>13. StagesInOrder'
    <2>1. /\ phase'[Credit] = "confirmed" => phase[Credit] = "confirmed" \/ l = "credit"
          /\ \A d \in Effects : phase'[d] # "open" => phase[d] # "open"
      BY <1>4, EngineLines, EffectNames
    <2> QED BY <1>3, <1>4, <1>6, <1>7, <2>1, EffectNames DEF CaseInv, StagesInOrder
  <1> QED BY <1>4, <1>8, <1>9, <1>12, <1>13 DEF CaseInv

\* Crash recovery finds no live claim, so it takes none from a running task
LEMMA RecoverStep ==
    ASSUME CaseInv, NEW w \in Workers, RecoverClaims(w)
    PROVE  CaseInv'
  <1> DEFINE applied == {c \in HeldClaims : record[c]}
             s == "PROVISIONAL_CREDIT_POSTED"
  <1>1. /\ pc[w] = "recover" /\ pc' = [pc EXCEPT ![w] = "reconcile"]
        /\ completed' = completed \cup applied
        /\ UNCHANGED <<obligation, deadlines, record, procs, snap, loaded>>
    BY DEF RecoverClaims, At, Goto
  <1>2. \A c \in Effects :
            /\ phase[c] = "held" /\ record[c] => phase'[c] = "confirmed" /\ c \in applied
            /\ phase[c] = "held" /\ ~record[c] => phase'[c] = "open"
            /\ phase[c] # "held" => phase'[c] = phase[c] /\ holder'[c] = holder[c] /\ c \notin applied
    BY DEF RecoverClaims, HeldClaims
  <1>3. ClaimsTyped' /\ applied \subseteq Effects
    <2>1. phase' \in [Effects -> {"open", "held", "parked", "confirmed", "closed"}]
      BY DEF RecoverClaims, HeldClaims, CaseInv, TypeOK
    <2>2. holder' \in [Effects -> Workers \cup {NoWorker}]
      BY DEF RecoverClaims, CaseInv, TypeOK
    <2> QED BY <1>1, <2>1, <2>2 DEF CaseInv, TypeOK, ClaimsTyped, HeldClaims
  <1>4. status # "ABSENT"
    BY <1>1, DueHere DEF Due
  <1>5. /\ status' \in {status, s} /\ status' \in RegEState /\ status' # "ABSENT"
        /\ seen' \in [Workers -> RegEState \cup {"fresh"}]
    <2>1. s \in RegEState /\ s # "ABSENT" /\ (SetStatus(w, s) \/ KeepStatus)
      BY StateNames DEF RecoverClaims
    <2> QED BY <1>4, <2>1, StatusWrites DEF CaseInv, TypeOK
  <1>6. /\ moneyMoved' \in BOOLEAN /\ (moneyMoved => moneyMoved')
        /\ Credit \in applied => moneyMoved'
    <2>1. moneyMoved \in BOOLEAN
      BY DEF CaseInv, TypeOK
    <2>2. CASE Credit \in applied
      BY <2>2, Zenon DEF RecoverClaims
    <2>3. CASE Credit \notin applied
      BY <2>1, <2>3, Zenon DEF RecoverClaims
    <2> QED BY <2>2, <2>3
  <1>7. "reconcile" \in Outside \ {"dead"} /\ "reconcile" \in Place \ {"dead"}
    BY OutsidePlaces, EngineLines DEF Outside, Early
  <1>8. ProcInv' /\ TasksTyped'
    BY <1>1, <1>5, <1>7, TaskMoves DEF CaseInv, TypeOK
  <1>9. TypeOK'
    <2>1. CaseTyped'
      BY <1>1, <1>3, <1>5, <1>6 DEF CaseInv, TypeOK, CaseTyped
    <2> QED BY <1>3, <1>8, <2>1 DEF TypeOK, CaseTyped, ClaimsTyped, TasksTyped
  <1>10. Forward
    BY <1>1, <1>2, <1>5 DEF Forward
  <1>11. Due("reconcile")'
    BY <1>5, OutsidePlaces DEF Due, Early
  <1>12. TasksDue' /\ CopiesBehind'
    BY <1>1, <1>7, <1>10, <1>11, TasksStep DEF CaseInv
  <1>13. ClaimsAgree'
    <2>1. ASSUME NEW v \in Workers, NEW k \in EffectPlace, pc'[v] \in {Claimed(k), Submitted(k)}
          PROVE  FALSE
      <3>1. v # w /\ pc[v] = pc'[v]
        BY <1>1, <1>7, <2>1, OutsidePlaces DEF CaseInv, TypeOK
      <3>2. phase[EffectAt[k]] = "held" /\ holder[EffectAt[k]] = v
        BY <2>1, <3>1 DEF CaseInv, ClaimsAgree, TaskHoldsClaim
      <3>3. proc[v] = "up"
        <4>1. pc[v] \notin {"idle", "dead"}
          BY <2>1, <3>1, EngineLines
        <4> QED BY <4>1 DEF CaseInv, ProcInv, TypeOK
      <3> QED BY <3>2, <3>3, EngineOneToOne DEF RecoverClaims, LiveClaims, HeldClaims
    <2>2. \A c \in Effects :
            /\ phase'[c] = "held" => holder'[c] \in Workers
            /\ phase'[c] \in {"open", "closed"} => ~record'[c]
            /\ phase'[c] = "confirmed" => record'[c]
            /\ c \in completed' => phase'[c] = "confirmed"
      BY <1>1, <1>2 DEF CaseInv, ClaimsAgree
    <2>3. \A v \in Workers : snap'[v] \subseteq completed'
      BY <1>1 DEF CaseInv, ClaimsAgree
    <2>4. TaskHoldsClaim'
      BY <2>1 DEF TaskHoldsClaim
    <2> QED BY <2>1, <2>2, <2>3, <2>4 DEF ClaimsAgree
  <1>14. StagesInOrder'
    <2> HIDE DEF applied
    <2>1. /\ phase'[Credit] = "confirmed" => phase[Credit] = "confirmed" \/ Credit \in applied
          /\ \A d \in Effects : /\ phase'[d] # "open" => phase[d] # "open"
                                /\ phase[d] = "confirmed" => phase'[d] = "confirmed"
      BY <1>2, EffectNames DEF CaseInv, TypeOK
    <2> QED BY <1>1, <1>5, <1>6, <2>1, EffectNames DEF CaseInv, StagesInOrder
  <1> QED BY <1>8, <1>9, <1>12, <1>13, <1>14 DEF CaseInv

-----------------------------------------------------------------------------
\* A look at the obligation
LEMMA LoadStep ==
    ASSUME CaseInv, NEW w \in Workers, LoadObligation(w)
    PROVE  CaseInv'
  <1>1. /\ UNCHANGED <<case, effects, procs, pc, seen, snap>>
        /\ loaded' = [loaded EXCEPT ![w] = obligation] /\ obligation # "NONE"
    BY DEF LoadObligation
  <1>2. TypeOK'
    BY <1>1 DEF CaseInv, TypeOK, case, effects, procs
  <1>3. ProcInv' /\ StagesInOrder'
    BY <1>1 DEF CaseInv, ProcInv, StagesInOrder, case, effects, procs
  <1>4. TasksDue'
    BY <1>1 DEF CaseInv, TasksDue, Due, case, effects
  <1>5. CopiesBehind'
    BY <1>1 DEF CaseInv, TypeOK, CopiesBehind, case
  <1>6. ClaimsAgree'
    BY <1>1 DEF CaseInv, ClaimsAgree, TaskHoldsClaim, effects
  <1> QED BY <1>2, <1>3, <1>4, <1>5, <1>6 DEF CaseInv

LEMMA CaseInit == Init => CaseInv
  <1> SUFFICES ASSUME Init PROVE CaseInv
    OBVIOUS
  <1> USE EffectNames DEF Init
  <1>1. TypeOK
    BY AllPlaces, StateNames DEF TypeOK
  <1>2. ProcInv
    BY DEF ProcInv
  <1>3. TasksDue /\ CopiesBehind
    BY OutsidePlaces DEF TasksDue, Due, Early, CopiesBehind
  <1>4. ClaimsAgree
    <2>1. TaskHoldsClaim /\ \A w \in Workers, l \in EffectPlace : pc[w] # Claimed(l)
      BY EngineLines DEF TaskHoldsClaim
    <2> QED BY <2>1 DEF ClaimsAgree
  <1>5. StagesInOrder
    BY DEF StagesInOrder
  <1> QED BY <1>1, <1>2, <1>3, <1>4, <1>5 DEF CaseInv

LEMMA CaseNext == CaseInv /\ [Next]_vars => CaseInv'
  <1> SUFFICES ASSUME CaseInv, [Next]_vars PROVE CaseInv'
    OBVIOUS
  <1>1. CASE UNCHANGED vars
    BY <1>1 DEF vars, case, effects, tasks, procs, CaseInv, TypeOK, ProcInv, TasksDue, Due,
                CopiesBehind, ClaimsAgree, TaskHoldsClaim, StagesInOrder
  <1>2. CASE Next
    <2>1. PICK w \in Workers : \/ Boot(w) \/ ApiCreateCase(w) \/ RunNewCase(w) \/ Crash(w)
                               \/ TaskRaises(w) \/ RunCase(w)
      BY <1>2 DEF Next
    <2>2. ASSUME NEW l \in EffectPlace, Engine(w, l) PROVE CaseInv'
      BY <2>2, UnclaimedStep, AdmitStep, SubmitStep, SettleStep, ConfirmStep DEF Engine
    <2>3. CASE RunCase(w)
      BY <2>2, <2>3, ProcessStep, FailureStep, OrderlyStep, ReadCaseStep, OpenStep, RegisterStep,
         ActivateStep, SettleNoticeStep, RecoverStep, LoadStep DEF RunCase
    <2> QED BY <2>1, <2>3, ProcessStep
  <1> QED BY <1>1, <1>2

\* The inductive invariant of a case, for any number of process lives that
\* overlap as they like.
THEOREM CaseInductive == Spec => []CaseInv
  BY CaseInit, CaseNext, PTL DEF Spec

\* Claims and tasks agree: at most one claim of the case is in progress, and a
\* task inside the engine holds the claim of the effect it is at.
THEOREM ClaimInvHolds == Spec => []ClaimInv
  <1>1. CaseInv => ClaimInv
    <2> SUFFICES ASSUME CaseInv PROVE ClaimInv
      OBVIOUS
    <2>1. \A c, d \in HeldClaims : c = d
      BY EffectNames DEF HeldClaims, CaseInv, StagesInOrder
    <2>2. OneHeldClaim
      <3>1. CASE HeldClaims = {}
        BY <3>1, FS_EmptySet DEF OneHeldClaim
      <3>2. CASE HeldClaims # {}
        <4>1. PICK c \in HeldClaims : HeldClaims = {c}
          BY <2>1, <3>2
        <4>2. Cardinality({c}) = 1
          BY FS_Singleton
        <4> QED BY <4>1, <4>2 DEF OneHeldClaim
      <3> QED BY <3>1, <3>2
    <2> QED BY <2>2 DEF ClaimInv, CaseInv, ClaimsAgree
  <1> QED BY <1>1, CaseInductive, PTL

\* Effects reach their targets in order, each on the confirmed one before it,
\* the notice on an active obligation with its deadline.
THEOREM EffectsInOrderHolds == Spec => []EffectsInOrder
  <1>1. CaseInv => EffectsInOrder
    BY EffectNames DEF CaseInv, ClaimsAgree, StagesInOrder, EffectsInOrder
  <1> QED BY <1>1, CaseInductive, PTL

\* The obligation and the statutory deadlines are stored before anything
\* irreversible happens.
THEOREM ClockBeforeEffectHolds == Spec => []ClockBeforeEffect
  <1>1. CaseInv => ClockBeforeEffect
    BY DEF CaseInv, ClaimsAgree, StagesInOrder, ClockBeforeEffect
  <1> QED BY <1>1, CaseInductive, PTL

-----------------------------------------------------------------------------
(* The case keeps the promise of the effect protocol for each effect *)

\* A step of EffectGuarantee for effect c, or none
Promised(c) ==
    \/ phase[c] = "open" /\ phase'[c] = "held" /\ record'[c] = record[c]
    \/ phase[c] = "held" /\ ~record[c] /\ phase'[c] = "held" /\ record'[c]
    \/ phase[c] = "held" /\ record[c] /\ phase'[c] = "confirmed" /\ record'[c] = record[c]
    \/ /\ phase[c] = "held" /\ ~record[c] /\ phase'[c] \in {"open", "closed"}
       /\ record'[c] = record[c]
    \/ phase[c] = "held" /\ phase'[c] = "parked" /\ record'[c] = record[c]
    \/ phase'[c] = phase[c] /\ record'[c] = record[c]

LEMMA QuietEffects ==
    ASSUME NEW w \in Workers,
           \/ Boot(w) \/ ApiCreateCase(w) \/ RunNewCase(w) \/ Crash(w) \/ TaskRaises(w)
           \/ StartTask(w) \/ OpenCase(w) \/ RegisterDeadlines(w) \/ RecoveryFails(w)
           \/ LoadObligation(w)
           \/ ReconcileApplied(w) \/ ReconcileFails(w) \/ Resume(w) \/ ReadStep(w)
           \/ VerifyFails(w) \/ BindAccount(w) \/ ReturnFailure(w) \/ ChargebackFiled(w)
           \/ ActivateObligation(w) \/ NoticePending(w) \/ SettleNotice(w) \/ WaitResolution(w)
           \/ FailClosed(w) \/ ScriptExits(w)
    PROVE  UNCHANGED <<phase, holder, record>>
  BY DEF Boot, ApiCreateCase, RunNewCase, Crash, TaskRaises, StartTask, OpenCase,
         RegisterDeadlines, RecoveryFails, ReconcileApplied, ReconcileFails, Resume, ReadStep,
         VerifyFails, BindAccount, LoadObligation, ReturnFailure, FailTo, ChargebackFiled,
         ActivateObligation, NoticePending, SettleNotice, WaitResolution, FailClosed, ScriptExits,
         effects

LEMMA EngineEffects ==
    ASSUME CaseInv, NEW w \in Workers, NEW l \in EffectPlace, Engine(w, l), NEW c \in Effects
    PROVE  Promised(c)
  <1>1. PICK e \in Effects : e = EffectAt[l]
    BY EngineOneToOne
  <1>2. /\ pc[w] \in {Claimed(l), Submitted(l)} => phase[e] = "held"
        /\ pc[w] = Claimed(l) => ~record[e]
    BY <1>1 DEF CaseInv, ClaimsAgree, TaskHoldsClaim
  <1>3. phase \in [Effects -> {"open", "held", "parked", "confirmed", "closed"}]
        /\ record \in [Effects -> BOOLEAN]
    BY DEF CaseInv, TypeOK
  <1>4. CASE SkipEffect(w, l) \/ EffectRejected(w, l) \/ PolicyDenied(w, l)
    BY <1>4 DEF SkipEffect, EffectRejected, PolicyDenied, effects, Promised
  <1>5. CASE AdmitEffect(w, l)
    BY <1>1, <1>3, <1>5 DEF AdmitEffect, Promised
  <1>6. CASE SubmitEffect(w, l)
    <2>1. PICK b \in BOOLEAN : record' = [record EXCEPT ![e] = b]
      BY <1>1, <1>6 DEF SubmitEffect
    <2>2. phase' = phase /\ ~record[e] /\ phase[e] = "held"
      BY <1>2, <1>6 DEF SubmitEffect, At
    <2>3. CASE c = e
      BY <1>3, <2>1, <2>2, <2>3 DEF Promised
    <2>4. CASE c # e
      BY <1>3, <2>1, <2>2, <2>4 DEF Promised
    <2> QED BY <2>3, <2>4
  <1>7. ASSUME NEW p \in {"open", "closed", "parked", "confirmed"}, Release(EffectAt[l], p),
               p \in {"open", "closed"} => ~record[e], p = "confirmed" => record[e],
               phase[e] = "held", UNCHANGED record
        PROVE  Promised(c)
    BY <1>1, <1>3, <1>7 DEF Release, Promised
  <1>8. CASE PrecheckHalted(w, l) \/ SettleNeedsHuman(w, l)
    BY <1>2, <1>7, <1>8 DEF PrecheckHalted, SettleNeedsHuman, At
  <1>9. CASE SettleBusiness(w, l) \/ SettleHardFailure(w, l)
    BY <1>2, <1>7, <1>9 DEF SettleBusiness, SettleHardFailure, At
  <1>10. CASE SettleConfirmed(w, l) \/ SettleUncertain(w, l) \/ SettleAbsent(w, l)
    BY <1>1, <1>2, <1>7, <1>10 DEF SettleConfirmed, SettleUncertain, SettleAbsent, At
  <1> QED BY <1>4, <1>5, <1>6, <1>8, <1>9, <1>10 DEF Engine

LEMMA EffectsPromised ==
    ASSUME CaseInv, [Next]_vars, NEW c \in Effects
    PROVE  Promised(c)
  <1>1. CASE UNCHANGED <<phase, holder, record>>
    BY <1>1 DEF Promised
  <1>2. ASSUME NEW w \in Workers, RecoverClaims(w) PROVE Promised(c)
    BY <1>2 DEF RecoverClaims, HeldClaims, Promised
  <1>3. CASE Next
    <2>1. PICK w \in Workers : \/ Boot(w) \/ ApiCreateCase(w) \/ RunNewCase(w) \/ Crash(w)
                               \/ TaskRaises(w) \/ RunCase(w)
      BY <1>3 DEF Next
    <2> QED BY <1>1, <1>2, <2>1, QuietEffects, EngineEffects DEF RunCase
  <1> QED BY <1>1, <1>3 DEF vars, effects

\* The orchestrator, its workers and its crash recovery keep EffectGuarantee
\* for each of the three effects: none is repeated, stolen or forgotten.
THEOREM CaseKeepsGuarantee == Spec => EffectsKeepGuarantee
  <1> USE EffectNames
  <1>1. Init => ChargebackEffect!Init /\ CreditEffect!Init /\ NoticeEffect!Init
    BY DEF Init, Happened, ChargebackEffect!Init, CreditEffect!Init, NoticeEffect!Init
  <1>2. CaseInv /\ [Next]_vars =>
            [ChargebackEffect!Next]_<<phase[Chargeback], Happened(Chargeback)>>
    <2> SUFFICES ASSUME Promised(Chargeback)
                 PROVE  [ChargebackEffect!Next]_<<phase[Chargeback], Happened(Chargeback)>>
      BY EffectsPromised
    <2> QED BY DEF Promised, Happened, ChargebackEffect!Next, ChargebackEffect!Admit,
                   ChargebackEffect!Happen, ChargebackEffect!Confirm, ChargebackEffect!GiveUp,
                   ChargebackEffect!Park
  <1>3. CaseInv /\ [Next]_vars => [CreditEffect!Next]_<<phase[Credit], Happened(Credit)>>
    <2> SUFFICES ASSUME Promised(Credit)
                 PROVE  [CreditEffect!Next]_<<phase[Credit], Happened(Credit)>>
      BY EffectsPromised
    <2> QED BY DEF Promised, Happened, CreditEffect!Next, CreditEffect!Admit,
                   CreditEffect!Happen, CreditEffect!Confirm, CreditEffect!GiveUp,
                   CreditEffect!Park
  <1>4. CaseInv /\ [Next]_vars => [NoticeEffect!Next]_<<phase[Notice], Happened(Notice)>>
    <2> SUFFICES ASSUME Promised(Notice)
                 PROVE  [NoticeEffect!Next]_<<phase[Notice], Happened(Notice)>>
      BY EffectsPromised
    <2> QED BY DEF Promised, Happened, NoticeEffect!Next, NoticeEffect!Admit,
                   NoticeEffect!Happen, NoticeEffect!Confirm, NoticeEffect!GiveUp,
                   NoticeEffect!Park
  <1> QED
    BY <1>1, <1>2, <1>3, <1>4, CaseInductive, PTL
       DEF Spec, EffectsKeepGuarantee, ChargebackEffect!Spec, CreditEffect!Spec, NoticeEffect!Spec

-----------------------------------------------------------------------------
(* One process after the other *)

LEMMA IndexOf ==
    /\ \A s \in HappyStates : Index(s) \in 1..9 /\ HAPPY_PATH[Index(s)] = s
    /\ Index("RECEIVED") = 1 /\ Index("MEMBER_VERIFIED") = 2
    /\ Index("TRANSACTION_VERIFIED") = 3 /\ Index("DUPLICATE_CHECKED") = 4
    /\ Index("CHARGEBACK_FILED") = 5 /\ Index("PROVISIONAL_CREDIT_POSTED") = 6
    /\ Index("NOTICE_PENDING") = 7 /\ Index("NOTICE_SENT") = 8
    /\ Index("WAITING_RESOLUTION") = 9
  <1>1. Len(HAPPY_PATH) = 9
    BY DEF HAPPY_PATH
  <1>2. \A s \in HappyStates : Index(s) \in 1..9 /\ HAPPY_PATH[Index(s)] = s
    <2> SUFFICES ASSUME NEW s \in HappyStates
                 PROVE  Index(s) \in 1..9 /\ HAPPY_PATH[Index(s)] = s
      OBVIOUS
    <2>1. \E i \in 1..9 : HAPPY_PATH[i] = s
      BY <1>1, Zenon DEF HappyStates
    <2> QED BY <1>1, <2>1, Zenon DEF Index
  <1>3. \A i \in 1..9 :
            /\ HAPPY_PATH[i] = "RECEIVED" => i = 1
            /\ HAPPY_PATH[i] = "MEMBER_VERIFIED" => i = 2
            /\ HAPPY_PATH[i] = "TRANSACTION_VERIFIED" => i = 3
            /\ HAPPY_PATH[i] = "DUPLICATE_CHECKED" => i = 4
            /\ HAPPY_PATH[i] = "CHARGEBACK_FILED" => i = 5
            /\ HAPPY_PATH[i] = "PROVISIONAL_CREDIT_POSTED" => i = 6
            /\ HAPPY_PATH[i] = "NOTICE_PENDING" => i = 7
            /\ HAPPY_PATH[i] = "NOTICE_SENT" => i = 8
            /\ HAPPY_PATH[i] = "WAITING_RESOLUTION" => i = 9
    BY DEF HAPPY_PATH
  <1> QED BY <1>2, <1>3, StateNames

\* The status goes forward or stays left: the step of StatusAdvances
Advance ==
    /\ status \in HappyStates /\ status' \in HappyStates => Index(status) <= Index(status')
    /\ status \in DO_NOT_AUTO_RESUME => status' \in DO_NOT_AUTO_RESUME

\* A step of a worker whose process is up and beside which there is no other
LEMMA SoleStep ==
    ASSUME CaseInv, SequentialInv, ~overlapped, TypeOK',
           NEW w \in Workers, NEW l \in Place, proc[w] = "up", pc' = [pc EXCEPT ![w] = l],
           \A v \in Workers \ {w} : proc'[v] = proc[v] /\ seen'[v] = seen[v],
           l # "idle",
           l \in InRunCase /\ seen'[w] # "fresh" => seen'[w] = status',
           l = "verify" => snap'[w] = completed',
           status' \in DO_NOT_AUTO_RESUME =>
              \/ l \in {"dead", "returned", "raised"}
              \/ l = "to_FAILED" /\ status' = "FAILED"
              \/ l = "to_NEEDS_HUMAN" /\ status' = "NEEDS_HUMAN"
              \/ l = "to_UNCERTAIN_EFFECT" /\ status' = "UNCERTAIN_EFFECT",
           (l = "to_FAILED" \/ status' = "FAILED") /\ record'[Credit] =>
              obligation' = "ACTIVE" /\ deadlines'["NOTICE_2_DAY"] = "PENDING",
           (\E c \in Effects : phase'[c] = "parked") =>
              status' \in {"UNCERTAIN_EFFECT", "NEEDS_HUMAN"}
    PROVE  SequentialInv'
  <1>1. ASSUME NEW v \in Workers \ {w}
        PROVE  pc'[v] \in {"idle", "dead"} /\ pc'[v] = pc[v] /\ proc'[v] # "up"
    <2>1. proc[v] # "up"
      BY DEF SequentialInv, OneTask
    <2>2. pc[v] \in {"idle", "dead"}
      BY <2>1 DEF CaseInv, TypeOK, ProcInv
    <2> QED BY <2>1, <2>2 DEF CaseInv, TypeOK
  <1>2. pc'[w] = l
    BY DEF CaseInv, TypeOK
  <1>3. \A u, v \in Workers : proc'[u] = "up" /\ proc'[v] = "up" => u = v
    BY <1>1
  <1>4. ASSUME NEW v \in Workers
        PROVE  /\ pc'[v] = "idle" => seen'[v] = "fresh"
               /\ pc'[v] \in InRunCase /\ seen'[v] # "fresh" => seen'[v] = status'
               /\ pc'[v] = "verify" => snap'[v] = completed'
               /\ status' \in DO_NOT_AUTO_RESUME =>
                    \/ pc'[v] \in {"idle", "dead", "returned", "raised"}
                    \/ pc'[v] = "to_FAILED" /\ status' = "FAILED"
                    \/ pc'[v] = "to_NEEDS_HUMAN" /\ status' = "NEEDS_HUMAN"
                    \/ pc'[v] = "to_UNCERTAIN_EFFECT" /\ status' = "UNCERTAIN_EFFECT"
               /\ pc'[v] = "to_FAILED" /\ record'[Credit] =>
                    obligation' = "ACTIVE" /\ deadlines'["NOTICE_2_DAY"] = "PENDING"
    <2>1. CASE v = w
      BY <1>2, <2>1
    <2>2. CASE v # w
      <3>1. pc'[v] \in {"idle", "dead"} /\ (pc'[v] = "idle" => seen'[v] = "fresh")
        BY <1>1, <2>2 DEF SequentialInv, OneTask
      <3> QED BY <3>1, AllPlaces
    <2> QED BY <2>1, <2>2
  <1>5. OneTask'
    BY <1>3, <1>4 DEF OneTask
  <1> QED BY <1>5 DEF SequentialInv, UncertainIsEscalated, FailureKeepsClock

\* The places of a task that the case has not been left at
Live == InRunCase \ {"to_FAILED", "to_NEEDS_HUMAN", "to_UNCERTAIN_EFFECT"}

\* There the case is in flight, no effect is uncertain, and the task's session
\* shows the case as it is.
LEMMA LiveTask ==
    ASSUME CaseInv, SequentialInv, ~overlapped, NEW w \in Workers,
           pc[w] \in Live \cup {"queued"}
    PROVE  /\ proc[w] = "up" /\ status \notin DO_NOT_AUTO_RESUME
           /\ \A c \in Effects : phase[c] # "parked"
           /\ pc[w] # "queued" => Seen(w) = status /\ (seen[w] = "fresh" \/ seen[w] = status)
  <1>1. /\ pc[w] \notin {"idle", "dead", "returned", "raised"}
        /\ pc[w] \notin {"to_FAILED", "to_NEEDS_HUMAN", "to_UNCERTAIN_EFFECT"}
        /\ pc[w] # "queued" => pc[w] \in InRunCase
    BY AllPlaces DEF Live
  <1>2. proc[w] = "up"
    BY <1>1 DEF CaseInv, TypeOK, ProcInv
  <1>3. status \notin DO_NOT_AUTO_RESUME
    BY <1>1 DEF SequentialInv, OneTask
  <1>4. \A c \in Effects : phase[c] # "parked"
    BY <1>3 DEF SequentialInv, UncertainIsEscalated, DO_NOT_AUTO_RESUME
  <1>5. pc[w] # "queued" => Seen(w) = status /\ (seen[w] = "fresh" \/ seen[w] = status)
    BY <1>1 DEF SequentialInv, OneTask, Seen
  <1> QED BY <1>2, <1>3, <1>4, <1>5

\* Then it writes the status it means to write, forward when it catches up
LEMMA LiveWrites ==
    ASSUME TypeOK, NEW w \in Workers, NEW s \in RegEState, Seen(w) = status,
           seen[w] = "fresh" \/ seen[w] = status
    PROVE  /\ SetStatus(w, s) => status' = s
           /\ KeepStatus => status' = status
           /\ EnsureReached(w, s) =>
                 \/ status' = status
                 \/ /\ status' = s
                    /\ status \in HappyStates /\ s \in HappyStates => Index(status) <= Index(s)
           /\ SetStatus(w, s) \/ EnsureReached(w, s) \/ KeepStatus =>
                 /\ seen'[w] = "fresh" \/ seen'[w] = status'
                 /\ \A v \in Workers \ {w} : seen'[v] = seen[v]
  <1>1. SetStatus(w, s) => status' = s
    BY DEF SetStatus
  <1>2. EnsureReached(w, s) => SetStatus(w, s) \/ KeepStatus
    BY DEF EnsureReached
  <1>3. Behind(w, s) /\ status \in HappyStates /\ s \in HappyStates => Index(status) <= Index(s)
    BY IndexOf DEF Behind
  <1>4. EnsureReached(w, s) =>
            \/ status' = status
            \/ /\ status' = s
               /\ status \in HappyStates /\ s \in HappyStates => Index(status) <= Index(s)
    BY <1>1, <1>3 DEF EnsureReached, KeepStatus
  <1>5. SetStatus(w, s) \/ KeepStatus =>
            /\ seen'[w] = "fresh" \/ seen'[w] = status'
            /\ \A v \in Workers \ {w} : seen'[v] = seen[v]
    BY <1>1 DEF SetStatus, KeepStatus, TypeOK
  <1> QED BY <1>1, <1>2, <1>4, <1>5 DEF KeepStatus

\* A step of a task whose case is in flight
LEMMA LiveStep ==
    ASSUME CaseInv, CaseInv', SequentialInv, ~overlapped, UNCHANGED procs,
           NEW w \in Workers, NEW l \in Place \ {"idle"}, pc[w] \in Live,
           pc' = [pc EXCEPT ![w] = l],
           NEW s \in RegEState, SetStatus(w, s) \/ EnsureReached(w, s) \/ KeepStatus,
           status # s /\ status \in HappyStates /\ s \in HappyStates /\ SetStatus(w, s) =>
              Index(status) <= Index(s),
           s \in DO_NOT_AUTO_RESUME =>
              \/ l = "returned"
              \/ l = "to_FAILED" /\ s = "FAILED"
              \/ l = "to_NEEDS_HUMAN" /\ s = "NEEDS_HUMAN"
              \/ l = "to_UNCERTAIN_EFFECT" /\ s = "UNCERTAIN_EFFECT",
           l = "verify" => snap'[w] = completed',
           (l = "to_FAILED" \/ s = "FAILED") /\ record'[Credit] =>
              obligation' = "ACTIVE" /\ deadlines'["NOTICE_2_DAY"] = "PENDING",
           \A c \in Effects : phase'[c] = "parked" =>
              phase[c] = "parked" \/ (SetStatus(w, s) /\ s = "UNCERTAIN_EFFECT")
    PROVE  SequentialInv' /\ Advance
  <1>1. /\ proc[w] = "up" /\ status \notin DO_NOT_AUTO_RESUME
        /\ \A c \in Effects : phase[c] # "parked"
        /\ Seen(w) = status /\ (seen[w] = "fresh" \/ seen[w] = status)
    BY LiveTask, AllPlaces DEF Live
  <1>2. TypeOK
    BY DEF CaseInv
  <1>3. /\ status' \in {status, s} /\ (SetStatus(w, s) => status' = s)
        /\ seen'[w] = "fresh" \/ seen'[w] = status'
        /\ \A v \in Workers \ {w} : seen'[v] = seen[v]
        /\ \/ status' = status
           \/ status \in HappyStates /\ s \in HappyStates => Index(status) <= Index(s)
    BY <1>1, <1>2, LiveWrites
  <1>4. Advance
    BY <1>1, <1>3, IndexOf DEF Advance
  <1>5. status' \in DO_NOT_AUTO_RESUME => status' = s
    BY <1>1, <1>3
  <1>6. status' = "FAILED" => s = "FAILED"
    BY <1>5 DEF DO_NOT_AUTO_RESUME
  <1>7. (\E c \in Effects : phase'[c] = "parked") =>
            status' \in {"UNCERTAIN_EFFECT", "NEEDS_HUMAN"}
    BY <1>1, <1>3
  <1>8. SequentialInv'
    BY <1>1, <1>3, <1>5, <1>6, <1>7, SoleStep DEF CaseInv, procs
  <1> QED BY <1>4, <1>8

LEMMA LiveStepKeep ==
    ASSUME CaseInv, CaseInv', SequentialInv, ~overlapped, UNCHANGED <<status, seen, procs>>,
           NEW w \in Workers, NEW l \in Place \ {"idle"}, pc[w] \in Live,
           pc' = [pc EXCEPT ![w] = l],
           l = "verify" => snap'[w] = completed',
           l = "to_FAILED" /\ record'[Credit] =>
              obligation' = "ACTIVE" /\ deadlines'["NOTICE_2_DAY"] = "PENDING",
           \A c \in Effects : phase'[c] = "parked" => phase[c] = "parked"
    PROVE  SequentialInv' /\ Advance
  <1>1. /\ proc[w] = "up" /\ status \notin DO_NOT_AUTO_RESUME
        /\ \A c \in Effects : phase[c] # "parked"
        /\ seen[w] = "fresh" \/ seen[w] = status
    BY LiveTask, AllPlaces DEF Live
  <1>2. Advance
    BY <1>1, IndexOf DEF Advance
  <1>3. status # "FAILED"
    BY <1>1 DEF DO_NOT_AUTO_RESUME
  <1>4. SequentialInv'
    BY <1>1, <1>3, SoleStep DEF CaseInv, procs
  <1> QED BY <1>2, <1>4

-----------------------------------------------------------------------------
LEMMA SeqProcessStep ==
    ASSUME CaseInv, CaseInv', SequentialInv, ~overlapped, ~overlapped', NEW w \in Workers,
           \/ ApiCreateCase(w) \/ RunNewCase(w) \/ Crash(w) \/ TaskRaises(w)
           \/ FailClosed(w) \/ ScriptExits(w) \/ StartTask(w)
    PROVE  SequentialInv' /\ Advance
  <1> USE AllPlaces
  <1>1. TypeOK /\ TypeOK'
    BY DEF CaseInv
  <1>2. /\ status = "FAILED" /\ record[Credit] =>
              obligation = "ACTIVE" /\ deadlines["NOTICE_2_DAY"] = "PENDING"
        /\ (\E c \in Effects : phase[c] = "parked") =>
              status \in {"UNCERTAIN_EFFECT", "NEEDS_HUMAN"}
    BY DEF SequentialInv, FailureKeepsClock, UncertainIsEscalated
  <1>3. status' = status => Advance
    BY IndexOf DEF Advance
  <1>4. "ABSENT" \notin HappyStates /\ "ABSENT" \notin DO_NOT_AUTO_RESUME
        /\ "RECEIVED" \notin DO_NOT_AUTO_RESUME /\ "NEEDS_HUMAN" \in DO_NOT_AUTO_RESUME
        /\ "NEEDS_HUMAN" \notin HappyStates
    BY StateNames DEF DO_NOT_AUTO_RESUME
  <1>5. CASE ApiCreateCase(w)
    <2>1. Advance
      BY <1>4, <1>5 DEF ApiCreateCase, Advance
    <2>2. SequentialInv'
      BY <1>1, <1>2, <1>4, <1>5, SoleStep DEF ApiCreateCase, Goto, effects, procs
    <2> QED BY <2>1, <2>2
  <1>6. CASE RunNewCase(w)
    <2>1. seen[w] = "fresh"
      BY <1>6 DEF RunNewCase, At, SequentialInv, OneTask
    <2>2. SequentialInv'
      BY <1>1, <1>2, <1>4, <1>6, <2>1, SoleStep DEF RunNewCase, Goto, case, effects, procs
    <2> QED BY <1>3, <1>6, <2>2 DEF RunNewCase, case
  <1>7. CASE Crash(w)
    <2>1. \A v \in Workers \ {w} : proc'[v] = proc[v] /\ seen'[v] = seen[v]
      BY <1>1, <1>7 DEF Crash, TypeOK
    <2>2. SequentialInv'
      BY <1>1, <1>2, <1>7, <2>1, SoleStep DEF Crash, Goto, case, effects
    <2> QED BY <1>3, <1>7, <2>2 DEF Crash, case
  <1>8. CASE TaskRaises(w)
    <2>1. proc[w] = "up"
      BY <1>1, <1>8 DEF TaskRaises, CaseInv, ProcInv, TypeOK
    <2>2. SequentialInv'
      BY <1>1, <1>2, <1>8, <2>1, SoleStep DEF TaskRaises, Goto, case, effects, procs
    <2> QED BY <1>3, <1>8, <2>2 DEF TaskRaises, case
  <1>9. CASE FailClosed(w)
    <2>1. proc[w] = "up"
      BY <1>1, <1>9 DEF FailClosed, At, CaseInv, ProcInv, TypeOK
    <2>2. Advance
      BY <1>4, <1>9 DEF FailClosed, Advance
    <2>3. SequentialInv'
      BY <1>1, <1>9, <2>1, SoleStep DEF FailClosed, Goto, effects, procs
    <2> QED BY <2>2, <2>3
  <1>10. CASE ScriptExits(w)
    <2>1. \A v \in Workers \ {w} : proc'[v] = proc[v] /\ seen'[v] = seen[v]
      BY <1>1, <1>10 DEF ScriptExits, TypeOK
    <2>2. proc[w] = "up"
      BY <1>1, <1>10 DEF ScriptExits, At, CaseInv, ProcInv, TypeOK
    <2>3. SequentialInv'
      BY <1>1, <1>2, <1>10, <2>1, <2>2, SoleStep DEF ScriptExits, Goto, case, effects
    <2> QED BY <1>3, <1>10, <2>3 DEF ScriptExits, case
  <1>11. CASE StartTask(w)
    <2>1. /\ \A v \in Workers \ {w} : proc'[v] = proc[v] /\ seen'[v] = seen[v]
          /\ seen'[w] = status
      BY <1>1, <1>11 DEF StartTask, TypeOK, procs
    <2>2. proc[w] = "up" /\ status \notin DO_NOT_AUTO_RESUME
      BY <1>11, LiveTask DEF StartTask, At
    <2>3. SequentialInv'
      BY <1>1, <1>2, <1>11, <2>1, <2>2, SoleStep DEF StartTask, Goto, case, effects
    <2> QED BY <1>3, <1>11, <2>3 DEF StartTask, case
  <1> QED BY <1>5, <1>6, <1>7, <1>8, <1>9, <1>10, <1>11

\* A process that starts alone takes up a case in flight only
LEMMA SeqBootStep ==
    ASSUME CaseInv, CaseInv', SequentialInv, ~overlapped, ~overlapped', NEW w \in Workers, Boot(w)
    PROVE  SequentialInv' /\ Advance
  <1>1. /\ \A v \in Workers : proc[v] # "up" /\ pc[v] \in {"idle", "dead"}
        /\ pc[w] = "idle" /\ seen' = seen /\ status' = status
    <2>1. ~overlapped' => Alone
      BY Zenon DEF Boot
    <2>2. \A v \in Workers : proc[v] # "up"
      BY <2>1 DEF Alone
    <2> QED BY <2>2 DEF Boot, NextLife, CaseInv, ProcInv, TypeOK, case
  <1>2. \A v \in Workers : /\ v # w => proc'[v] = proc[v] /\ pc'[v] = pc[v]
                           /\ pc'[v] \in {"idle", "queued", "dead"}
                           /\ pc'[v] = "queued" => v = w /\ status \notin DO_NOT_AUTO_RESUME
    BY <1>1 DEF Boot, Goto, CaseInv, TypeOK
  <1>3. OneTask'
    <2>1. \A u, v \in Workers : proc'[u] = "up" /\ proc'[v] = "up" => u = v
      BY <1>1, <1>2
    <2>2. \A v \in Workers : pc'[v] = "idle" => pc[v] = "idle"
      BY <1>1, <1>2
    <2> QED BY <1>1, <1>2, <2>1, <2>2, AllPlaces DEF SequentialInv, OneTask
  <1>4. Advance
    BY <1>1, IndexOf DEF Advance
  <1> QED BY <1>3, <1>4 DEF SequentialInv, UncertainIsEscalated, FailureKeepsClock, Boot,
                            case, effects

\* The notice's clock is running at every place the credit may be behind
LEMMA FailedClock ==
    ASSUME CaseInv, NEW w \in Workers, NEW l \in EffectPlace, pc[w] = Claimed(l), record[Credit]
    PROVE  obligation = "ACTIVE" /\ deadlines["NOTICE_2_DAY"] = "PENDING"
  <1>1. phase[EffectAt[l]] = "held" /\ ~record[EffectAt[l]]
    BY DEF CaseInv, ClaimsAgree, TaskHoldsClaim
  <1>2. phase[Credit] # "open" /\ phase[Chargeback] = "confirmed"
    BY EffectNames DEF CaseInv, ClaimsAgree, StagesInOrder
  <1>3. l = "notify"
    BY <1>1, <1>2, EngineLines
  <1>4. /\ obligation \in {"ACTIVE", "SATISFIED"} /\ deadlines["NOTICE_2_DAY"] # "NONE"
        /\ phase[Notice] = "held"
    BY <1>1, <1>3, EngineDue, EngineLines
  <1> QED BY <1>4, EffectNames DEF CaseInv, StagesInOrder, TypeOK

LEMMA SeqOpenStep ==
    ASSUME CaseInv, CaseInv', SequentialInv, ~overlapped, NEW w \in Workers,
           OpenCase(w) \/ RegisterDeadlines(w) \/ Resume(w)
    PROVE  SequentialInv' /\ Advance
  <1> USE AllPlaces
  <1>1. CASE RegisterDeadlines(w) \/ Resume(w)
    <2>1. /\ pc[w] \in Live /\ pc' = [pc EXCEPT ![w] = "verify"] /\ snap'[w] = completed'
          /\ UNCHANGED <<status, seen, procs, phase>>
      BY <1>1 DEF RegisterDeadlines, Resume, At, Goto, Live, effects, CaseInv, TypeOK
    <2> QED BY <2>1, LiveStepKeep
  <1>2. CASE OpenCase(w)
    <2>1. /\ pc[w] \in Live /\ pc[w] = "open" /\ pc' = [pc EXCEPT ![w] = "deadlines"]
          /\ UNCHANGED <<seen, procs, phase>>
          /\ status # "ABSENT" => status' = status
          /\ status = "ABSENT" => status' = "RECEIVED"
      BY <1>2 DEF OpenCase, At, Goto, Live, effects
    <2>2. CASE status # "ABSENT"
      BY <2>1, <2>2, LiveStepKeep
    <2>3. CASE status = "ABSENT"
      <3>1. /\ proc[w] = "up" /\ \A c \in Effects : phase[c] # "parked"
            /\ seen[w] = "fresh" \/ seen[w] = status
        BY <2>1, LiveTask
      <3>2. seen[w] = "fresh"
        BY <2>3, <3>1, StateNames DEF CaseInv, TypeOK
      <3>3. "RECEIVED" \notin DO_NOT_AUTO_RESUME
        BY DEF DO_NOT_AUTO_RESUME
      <3>4. SequentialInv'
        BY <2>1, <2>3, <3>1, <3>2, <3>3, SoleStep DEF CaseInv, procs
      <3>5. Advance
        BY <2>3, StateNames DEF Advance, DO_NOT_AUTO_RESUME
      <3> QED BY <3>4, <3>5
    <2> QED BY <2>2, <2>3
  <1> QED BY <1>1, <1>2

LEMMA SeqFailureStep ==
    ASSUME CaseInv, CaseInv', SequentialInv, ~overlapped, NEW w \in Workers,
           RecoveryFails(w) \/ ReconcileFails(w)
    PROVE  SequentialInv' /\ Advance
  <1>1. /\ pc[w] \in Live /\ pc' = [pc EXCEPT ![w] = "returned"] /\ SetStatus(w, "NEEDS_HUMAN")
        /\ UNCHANGED <<procs, phase>>
    BY AllPlaces DEF RecoveryFails, ReconcileFails, At, Goto, Live, effects
  <1>2. PICK s \in RegEState \ HappyStates : s = "NEEDS_HUMAN"
    BY StateNames
  <1>3. PICK l \in Place \ {"idle"} : l = "returned"
    BY AllPlaces
  <1>4. SetStatus(w, s) /\ pc' = [pc EXCEPT ![w] = l]
    BY <1>1, <1>2, <1>3
  <1>5. l # "verify" /\ l # "to_FAILED" /\ s # "FAILED"
    BY <1>2, <1>3
  <1>6. \A c \in Effects : phase'[c] = "parked" => phase[c] = "parked"
    BY <1>1
  <1> QED BY <1>1, <1>2, <1>3, <1>4, <1>5, <1>6, LiveStep

\* A failure return finds the case in flight, or where its task has put it
LEMMA SeqReturnStep ==
    ASSUME CaseInv, CaseInv', SequentialInv, ~overlapped, NEW w \in Workers, ReturnFailure(w)
    PROVE  SequentialInv' /\ Advance
  <1> USE AllPlaces
  <1>1. PICK s \in {"FAILED", "NEEDS_HUMAN", "UNCERTAIN_EFFECT"} :
            /\ FailTo(w, s)
            /\ s = "FAILED" <=> pc[w] = "to_FAILED"
            /\ s = "NEEDS_HUMAN" <=> pc[w] = "to_NEEDS_HUMAN"
            /\ s = "UNCERTAIN_EFFECT" <=> pc[w] = "to_UNCERTAIN_EFFECT"
    BY DEF ReturnFailure, At
  <1>2. /\ pc[w] \in InRunCase /\ pc[w] \notin {"idle", "dead", "returned", "raised"}
        /\ s \in RegEState \ HappyStates /\ s \in DO_NOT_AUTO_RESUME
    BY <1>1, StateNames DEF DO_NOT_AUTO_RESUME
  <1>3. /\ proc[w] = "up" /\ Seen(w) = status /\ (seen[w] = "fresh" \/ seen[w] = status)
        /\ status \in DO_NOT_AUTO_RESUME => status = s
    BY <1>1, <1>2 DEF SequentialInv, OneTask, Seen, CaseInv, TypeOK, ProcInv
  <1>4. /\ UNCHANGED <<obligation, deadlines, phase, record, completed, procs>>
        /\ \/ pc' = [pc EXCEPT ![w] = "returned"] /\ SetStatus(w, s)
           \/ pc' = [pc EXCEPT ![w] = "raised"] /\ KeepStatus
    BY <1>1 DEF FailTo, Goto, effects
  <1>5. /\ status' \in {status, s} /\ \A v \in Workers \ {w} : seen'[v] = seen[v]
    BY <1>2, <1>3, <1>4, LiveWrites DEF CaseInv
  <1>6. (status = "FAILED" \/ s = "FAILED") /\ record[Credit] =>
            obligation = "ACTIVE" /\ deadlines["NOTICE_2_DAY"] = "PENDING"
    BY <1>1 DEF SequentialInv, OneTask, FailureKeepsClock
  <1>7. (\E c \in Effects : phase[c] = "parked") =>
            status \in {"UNCERTAIN_EFFECT", "NEEDS_HUMAN"} /\ s = status
    BY <1>3 DEF SequentialInv, UncertainIsEscalated, DO_NOT_AUTO_RESUME
  <1>8. SequentialInv'
    BY <1>3, <1>4, <1>5, <1>6, <1>7, SoleStep DEF CaseInv, procs
  <1>9. Advance
    BY <1>2, <1>5, IndexOf DEF Advance
  <1> QED BY <1>8, <1>9

\* The projection catches up, or is left as it is
LEMMA ForwardStep ==
    ASSUME CaseInv, CaseInv', SequentialInv, ~overlapped, UNCHANGED <<procs, phase>>,
           NEW w \in Workers, pc[w] \in Live,
           NEW l \in {"credit", "pending", "notify", "waiting", "returned"},
           pc' = [pc EXCEPT ![w] = l],
           NEW s \in RegEState, EnsureReached(w, s) \/ KeepStatus,
           s \in DO_NOT_AUTO_RESUME => s = "WAITING_RESOLUTION" /\ l = "returned"
    PROVE  SequentialInv' /\ Advance
  <1>1. /\ proc[w] = "up" /\ status \notin DO_NOT_AUTO_RESUME
        /\ \A c \in Effects : phase[c] # "parked"
        /\ Seen(w) = status /\ (seen[w] = "fresh" \/ seen[w] = status)
    BY LiveTask, AllPlaces DEF Live
  <1>2. /\ seen'[w] = "fresh" \/ seen'[w] = status'
        /\ \A v \in Workers \ {w} : seen'[v] = seen[v]
        /\ \/ status' = status
           \/ /\ status' = s
              /\ status \in HappyStates /\ s \in HappyStates => Index(status) <= Index(s)
    BY <1>1, LiveWrites DEF CaseInv
  <1>3. Advance
    BY <1>1, <1>2, IndexOf DEF Advance
  <1>4. status' # "FAILED" /\ (status' \in DO_NOT_AUTO_RESUME => l = "returned")
    BY <1>1, <1>2 DEF DO_NOT_AUTO_RESUME
  <1>5. SequentialInv'
    BY <1>1, <1>2, <1>4, SoleStep, AllPlaces DEF CaseInv, procs
  <1> QED BY <1>3, <1>5

\* Steps forward outside the engine
LEMMA SeqOrderlyStep ==
    ASSUME CaseInv, CaseInv', SequentialInv, ~overlapped, NEW w \in Workers,
           ReconcileApplied(w) \/ VerifyFails(w) \/ BindAccount(w) \/ ChargebackFiled(w)
           \/ ActivateObligation(w) \/ NoticePending(w) \/ SettleNotice(w) \/ WaitResolution(w)
    PROVE  SequentialInv' /\ Advance
  <1> USE AllPlaces
  <1>0. "RECEIVED" \in RegEState /\ "CHARGEBACK_FILED" \in RegEState
        /\ "PROVISIONAL_CREDIT_POSTED" \in RegEState /\ "NOTICE_PENDING" \in RegEState
        /\ "NOTICE_SENT" \in RegEState /\ "WAITING_RESOLUTION" \in RegEState
        /\ {"CHARGEBACK_FILED", "PROVISIONAL_CREDIT_POSTED", "NOTICE_PENDING", "NOTICE_SENT"}
              \cap DO_NOT_AUTO_RESUME = {}
    BY StateNames DEF DO_NOT_AUTO_RESUME
  <1>1. CASE ReconcileApplied(w)
    BY <1>1, LiveStepKeep DEF ReconcileApplied, At, Goto, Live, case, effects
  <1>2. CASE VerifyFails(w)
    <2>1. /\ pc[w] = "verify" /\ pc[w] \in Live /\ pc' = [pc EXCEPT ![w] = "to_FAILED"]
          /\ "core.verify_member" \notin snap[w]
          /\ UNCHANGED <<status, seen, procs, phase, record>>
      BY <1>2 DEF VerifyFails, At, Goto, Live, case, effects
    <2>2. "core.verify_member" \notin completed
      BY <2>1 DEF SequentialInv, OneTask
    <2>3. ~record[Credit]
      BY <2>2, EffectNames DEF CaseInv, ClaimsAgree, StagesInOrder
    <2> QED BY <2>1, <2>3, LiveStepKeep
  <1>3. CASE BindAccount(w)
    <2>1. PICK l \in {"locate", "to_NEEDS_HUMAN"} : pc' = [pc EXCEPT ![w] = l]
      BY <1>3 DEF BindAccount, Goto
    <2> QED BY <1>3, <2>1, LiveStepKeep DEF BindAccount, At, Live, case, effects
  <1>4. CASE ChargebackFiled(w)
    <2>1. /\ pc[w] \in Live /\ pc' = [pc EXCEPT ![w] = "credit"]
          /\ EnsureReached(w, "CHARGEBACK_FILED") /\ UNCHANGED <<procs, phase>>
      BY <1>4 DEF ChargebackFiled, At, Goto, Live, effects
    <2> QED BY <1>0, <2>1, ForwardStep
  <1>5. CASE ActivateObligation(w)
    <2>1. /\ pc[w] \in Live /\ pc' = [pc EXCEPT ![w] = "pending"]
          /\ EnsureReached(w, "PROVISIONAL_CREDIT_POSTED") /\ UNCHANGED <<procs, phase>>
      BY <1>5 DEF ActivateObligation, At, Goto, Live, effects
    <2> QED BY <1>0, <2>1, ForwardStep
  <1>6. CASE NoticePending(w)
    <2>1. /\ pc[w] \in Live /\ pc' = [pc EXCEPT ![w] = "notify"]
          /\ EnsureReached(w, "NOTICE_PENDING") \/ KeepStatus
          /\ UNCHANGED <<procs, phase>>
      BY <1>6 DEF NoticePending, At, Goto, Live, effects
    <2> QED BY <1>0, <2>1, ForwardStep
  <1>7. CASE SettleNotice(w)
    <2>1. pc[w] \in Live /\ UNCHANGED <<procs, phase>>
      BY <1>7 DEF SettleNotice, At, Live, effects
    <2>2. \/ /\ EnsureReached(w, "NOTICE_SENT") /\ pc' = [pc EXCEPT ![w] = "waiting"]
          \/ /\ EnsureReached(w, "WAITING_RESOLUTION") /\ pc' = [pc EXCEPT ![w] = "returned"]
      BY <1>7 DEF SettleNotice, Goto, EnsureReached
    <2> QED BY <1>0, <2>1, <2>2, ForwardStep
  <1>8. CASE WaitResolution(w)
    <2>1. /\ pc[w] \in Live /\ pc' = [pc EXCEPT ![w] = "returned"]
          /\ EnsureReached(w, "WAITING_RESOLUTION") /\ UNCHANGED <<procs, phase>>
      BY <1>8 DEF WaitResolution, At, Goto, Live, effects
    <2> QED BY <1>0, <2>1, ForwardStep
  <1> QED BY <1>1, <1>2, <1>3, <1>4, <1>5, <1>6, <1>7, <1>8

\* The state machine lets a read step go forward only
LEMMA ReadsForward ==
    \A t \in HappyStates \ DO_NOT_AUTO_RESUME,
       s \in {"MEMBER_VERIFIED", "TRANSACTION_VERIFIED", "DUPLICATE_CHECKED"} :
        s \in VALID_TRANSITIONS[t] => Index(t) <= Index(s)
  BY StateNames, IndexOf DEF VALID_TRANSITIONS, DO_NOT_AUTO_RESUME

LEMMA SeqReadStep ==
    ASSUME CaseInv, CaseInv', SequentialInv, ~overlapped, NEW w \in Workers, ReadStep(w)
    PROVE  SequentialInv' /\ Advance
  <1> DEFINE r == ReadAt[pc[w]]
  <1>1. /\ r.next \in {"bind", "duplicate", "file"} /\ pc[w] \in Live
        /\ r.state \in {"MEMBER_VERIFIED", "TRANSACTION_VERIFIED", "DUPLICATE_CHECKED"}
    BY ReadsAt, AllPlaces DEF ReadStep, Live
  <1>2. PICK n \in Place \ {"idle"} : n = r.next /\ n # "verify" /\ n # "to_FAILED"
    BY <1>1, AllPlaces
  <1>3. PICK s \in RegEState : s = r.state
    BY <1>1, StateNames
  <1>4. UNCHANGED <<procs, phase>>
    BY DEF ReadStep
  <1>5. s \in {"MEMBER_VERIFIED", "TRANSACTION_VERIFIED", "DUPLICATE_CHECKED"}
    BY <1>1, <1>3
  <1> HIDE DEF r
  <1>6. CASE r.cap \in snap[w]
    <2>1. KeepStatus /\ pc' = [pc EXCEPT ![w] = n]
      BY <1>2, <1>6 DEF ReadStep, Goto, r
    <2> QED BY <1>1, <1>2, <1>4, <2>1, LiveStepKeep DEF KeepStatus
  <1>7. CASE r.cap \notin snap[w] /\ can_transition(Seen(w), r.state)
    <2>1. SetStatus(w, s) /\ pc' = [pc EXCEPT ![w] = n] /\ can_transition(Seen(w), s)
      BY <1>2, <1>3, <1>7 DEF ReadStep, Goto, r
    <2>2. Seen(w) = status /\ status \notin DO_NOT_AUTO_RESUME
      BY <1>1, LiveTask, AllPlaces DEF Live
    <2>3. status # s /\ status \in HappyStates => Index(status) <= Index(s)
      BY <1>5, <2>1, <2>2, ReadsForward DEF can_transition
    <2>4. s \notin DO_NOT_AUTO_RESUME /\ s # "FAILED"
      BY <1>5 DEF DO_NOT_AUTO_RESUME
    <2> QED BY <1>1, <1>2, <1>4, <2>1, <2>3, <2>4, LiveStep
  <1>8. CASE r.cap \notin snap[w] /\ ~can_transition(Seen(w), r.state)
    <2>1. KeepStatus /\ pc' = [pc EXCEPT ![w] = "raised"]
      BY <1>8 DEF ReadStep, Goto, r
    <2> QED BY <1>1, <1>4, <2>1, LiveStepKeep, AllPlaces DEF KeepStatus
  <1> QED BY <1>6, <1>7, <1>8

\* A case whose credit is still claimed has not gone past it
LEMMA PostedForward ==
    ASSUME CaseInv, phase[Credit] = "held", status \in HappyStates
    PROVE  Index(status) <= Index("PROVISIONAL_CREDIT_POSTED")
  <1>1. status \notin {"NOTICE_PENDING", "NOTICE_SENT", "WAITING_RESOLUTION"}
    BY EffectNames DEF CaseInv, StagesInOrder
  <1> QED BY <1>1, StateNames, IndexOf

LEMMA SeqRecoverStep ==
    ASSUME CaseInv, CaseInv', SequentialInv, ~overlapped, NEW w \in Workers, RecoverClaims(w)
    PROVE  SequentialInv' /\ Advance
  <1>1. PICK s \in RegEState : s = "PROVISIONAL_CREDIT_POSTED"
    BY StateNames
  <1>2. PICK l \in Place \ {"idle"} : l = "reconcile"
    BY AllPlaces
  <1>3. /\ pc[w] \in Live /\ pc' = [pc EXCEPT ![w] = l] /\ UNCHANGED procs
        /\ l # "verify" /\ l # "to_FAILED" /\ s # "FAILED" /\ s \notin DO_NOT_AUTO_RESUME
    BY <1>1, <1>2, AllPlaces DEF RecoverClaims, At, Goto, Live, DO_NOT_AUTO_RESUME
  <1>4. \A c \in Effects : phase'[c] = "parked" => phase[c] = "parked"
    BY DEF RecoverClaims
  <1>5. \/ KeepStatus
        \/ SetStatus(w, s) /\ phase[Credit] = "held"
    BY <1>1 DEF RecoverClaims, HeldClaims
  <1>6. CASE KeepStatus
    BY <1>3, <1>4, <1>6, LiveStepKeep DEF KeepStatus
  <1>7. CASE SetStatus(w, s) /\ phase[Credit] = "held"
    BY <1>1, <1>3, <1>4, <1>7, PostedForward, LiveStep
  <1> QED BY <1>5, <1>6, <1>7

\* The engine escalates the case itself
LEMMA EscalationStep ==
    ASSUME CaseInv, CaseInv', SequentialInv, ~overlapped, UNCHANGED procs,
           NEW w \in Workers, NEW l \in Place, pc[w] \in Live, pc' = [pc EXCEPT ![w] = l],
           NEW s, SetStatus(w, s),
           \/ l = "to_FAILED" /\ s = "FAILED"
           \/ l = "to_NEEDS_HUMAN" /\ s = "NEEDS_HUMAN"
           \/ l = "to_UNCERTAIN_EFFECT" /\ s = "UNCERTAIN_EFFECT",
           s = "FAILED" /\ record'[Credit] =>
              obligation' = "ACTIVE" /\ deadlines'["NOTICE_2_DAY"] = "PENDING",
           \A c \in Effects : phase'[c] = "parked" =>
              phase[c] = "parked" \/ s = "UNCERTAIN_EFFECT"
    PROVE  SequentialInv' /\ Advance
  <1>1. s \in RegEState /\ s \notin HappyStates
    BY StateNames
  <1>2. l # "idle" /\ l # "verify" /\ (l = "to_FAILED" <=> s = "FAILED")
    OBVIOUS
  <1> QED BY <1>1, <1>2, LiveStep

LEMMA SeqEngineStep ==
    ASSUME CaseInv, CaseInv', SequentialInv, ~overlapped, NEW w \in Workers,
           NEW l \in EffectPlace, Engine(w, l)
    PROVE  SequentialInv' /\ Advance
  <1>1. PICK e \in Effects : e = EffectAt[l]
    BY EngineOneToOne
  <1>2. /\ {l, Claimed(l), Submitted(l)} \subseteq Live
        /\ {Claimed(l), Submitted(l), AfterEffect[l]} \subseteq Place \ {"idle"}
        /\ {Claimed(l), Submitted(l), AfterEffect[l]} \cap {"verify", "to_FAILED"} = {}
        /\ {"to_FAILED", "to_NEEDS_HUMAN", "to_UNCERTAIN_EFFECT"} \subseteq Place \ {"idle"}
    BY EngineLines, AllPlaces DEF Live
  <1>3. pc[w] = Claimed(l) /\ record[Credit] =>
            obligation = "ACTIVE" /\ deadlines["NOTICE_2_DAY"] = "PENDING"
    BY FailedClock
  <1>4. phase \in [Effects -> {"open", "held", "parked", "confirmed", "closed"}]
    BY DEF CaseInv, TypeOK
  <1>5. ASSUME NEW p \in {"open", "closed", "confirmed"}, Release(EffectAt[l], p)
        PROVE  \A c \in Effects : phase'[c] = "parked" => phase[c] = "parked"
    BY <1>1, <1>4, <1>5 DEF Release
  <1>6. PICK s \in RegEState : s = "PROVISIONAL_CREDIT_POSTED"
    BY StateNames
  <1>7. CASE SkipEffect(w, l) \/ EffectRejected(w, l) \/ PolicyDenied(w, l)
    <2>1. PICK m \in {AfterEffect[l], "to_NEEDS_HUMAN"} : pc' = [pc EXCEPT ![w] = m]
      BY <1>7 DEF SkipEffect, EffectRejected, PolicyDenied, Goto
    <2>2. pc[w] \in Live /\ UNCHANGED <<status, seen, procs, phase>>
      BY <1>2, <1>7 DEF SkipEffect, EffectRejected, PolicyDenied, At, case, effects
    <2> QED BY <1>2, <2>1, <2>2, LiveStepKeep
  <1>8. CASE AdmitEffect(w, l)
    <2>1. /\ pc[w] \in Live /\ UNCHANGED <<status, seen, procs>>
          /\ pc' = [pc EXCEPT ![w] = Claimed(l)]
      BY <1>2, <1>8 DEF AdmitEffect, At, Goto, case
    <2>2. \A c \in Effects : phase'[c] = "parked" => phase[c] = "parked"
      BY <1>1, <1>4, <1>8 DEF AdmitEffect
    <2> QED BY <1>2, <2>1, <2>2, LiveStepKeep
  <1>9. CASE SubmitEffect(w, l)
    <2>1. /\ pc[w] \in Live /\ UNCHANGED <<status, seen, procs, phase>>
          /\ pc' = [pc EXCEPT ![w] = Submitted(l)]
      BY <1>2, <1>9 DEF SubmitEffect, At, Goto, case
    <2> QED BY <1>2, <2>1, LiveStepKeep
  <1>10. CASE PrecheckHalted(w, l)
    <2>1. /\ pc[w] \in Live /\ UNCHANGED <<status, seen, procs, record, obligation, deadlines>>
          /\ pc' = [pc EXCEPT ![w] = "to_FAILED"] /\ pc[w] = Claimed(l)
      BY <1>2, <1>10 DEF PrecheckHalted, At, Goto, case
    <2>2. \A c \in Effects : phase'[c] = "parked" => phase[c] = "parked"
      BY <1>5, <1>10 DEF PrecheckHalted
    <2> QED BY <1>2, <1>3, <2>1, <2>2, LiveStepKeep
  <1>11. CASE SettleAbsent(w, l) \/ SettleBusiness(w, l)
    <2>1. /\ pc[w] \in Live /\ UNCHANGED <<status, seen, procs>>
          /\ pc' = [pc EXCEPT ![w] = "to_NEEDS_HUMAN"]
      BY <1>2, <1>11 DEF SettleAbsent, SettleBusiness, At, Goto, case
    <2>2. \A c \in Effects : phase'[c] = "parked" => phase[c] = "parked"
      BY <1>5, <1>11 DEF SettleAbsent, SettleBusiness
    <2> QED BY <1>2, <2>1, <2>2, LiveStepKeep
  <1>12. CASE SettleUncertain(w, l)
    <2>1. /\ pc[w] \in Live /\ UNCHANGED procs /\ SetStatus(w, "UNCERTAIN_EFFECT")
          /\ pc' = [pc EXCEPT ![w] = "to_UNCERTAIN_EFFECT"]
      BY <1>2, <1>12 DEF SettleUncertain, Goto
    <2> QED BY <1>2, <2>1, EscalationStep
  <1>13. CASE SettleNeedsHuman(w, l)
    <2>1. /\ pc[w] \in Live /\ UNCHANGED procs /\ SetStatus(w, "NEEDS_HUMAN")
          /\ pc' = [pc EXCEPT ![w] = "to_NEEDS_HUMAN"]
      BY <1>2, <1>13 DEF SettleNeedsHuman, At, Goto
    <2>2. \A c \in Effects : phase'[c] = "parked" => phase[c] = "parked"
      BY <1>5, <1>13 DEF SettleNeedsHuman
    <2> QED BY <1>2, <2>1, <2>2, EscalationStep
  <1>14. CASE SettleHardFailure(w, l)
    <2>1. /\ pc[w] \in Live /\ UNCHANGED <<procs, record, obligation, deadlines>>
          /\ SetStatus(w, "FAILED") /\ pc[w] = Claimed(l)
          /\ pc' = [pc EXCEPT ![w] = "to_FAILED"]
      BY <1>2, <1>14 DEF SettleHardFailure, At, Goto
    <2>2. \A c \in Effects : phase'[c] = "parked" => phase[c] = "parked"
      BY <1>5, <1>14 DEF SettleHardFailure
    <2> QED BY <1>2, <1>3, <2>1, <2>2, EscalationStep
  <1>15. CASE SettleConfirmed(w, l)
    <2>1. /\ pc[w] \in Live /\ UNCHANGED procs /\ pc' = [pc EXCEPT ![w] = AfterEffect[l]]
          /\ KeepStatus \/ (l = "credit" /\ SetStatus(w, "PROVISIONAL_CREDIT_POSTED"))
      BY <1>2, <1>15 DEF SettleConfirmed, At, Goto
    <2>2. \A c \in Effects : phase'[c] = "parked" => phase[c] = "parked"
      BY <1>5, <1>15 DEF SettleConfirmed
    <2>3. CASE KeepStatus
      BY <1>2, <2>1, <2>2, <2>3, LiveStepKeep DEF KeepStatus
    <2>4. CASE l = "credit" /\ SetStatus(w, "PROVISIONAL_CREDIT_POSTED")
      <3>1. phase[Credit] = "held"
        BY <1>15, <2>4, EngineLines
           DEF SettleConfirmed, At, CaseInv, ClaimsAgree, TaskHoldsClaim
      <3>2. status \in HappyStates => Index(status) <= Index(s)
        BY <1>6, <3>1, PostedForward
      <3>3. s \notin DO_NOT_AUTO_RESUME /\ s # "FAILED" /\ SetStatus(w, s)
        BY <1>6, <2>4 DEF DO_NOT_AUTO_RESUME
      <3>4. PICK m \in Place \ {"idle"} : m = AfterEffect[l] /\ m # "verify" /\ m # "to_FAILED"
        BY <1>2
      <3>5. pc' = [pc EXCEPT ![w] = m]
        BY <2>1, <3>4
      <3> QED BY <2>1, <2>2, <3>2, <3>3, <3>4, <3>5, LiveStep
    <2> QED BY <2>1, <2>3, <2>4
  <1> QED BY <1>7, <1>8, <1>9, <1>10, <1>11, <1>12, <1>13, <1>14, <1>15 DEF Engine

LEMMA SeqLoadStep ==
    ASSUME CaseInv, SequentialInv, NEW w \in Workers, LoadObligation(w)
    PROVE  SequentialInv' /\ Advance
  <1>1. UNCHANGED <<case, effects, procs, pc, seen, snap>>
    BY DEF LoadObligation
  <1>2. SequentialInv'
    BY <1>1 DEF case, effects, procs, SequentialInv, OneTask, UncertainIsEscalated,
                FailureKeepsClock
  <1>3. Advance
    BY <1>1, IndexOf DEF Advance, case
  <1> QED BY <1>2, <1>3

-----------------------------------------------------------------------------
LEMMA SequentialStep ==
    ASSUME CaseInv, CaseInv', SequentialInv, ~overlapped, ~overlapped', Next
    PROVE  SequentialInv' /\ Advance
  <1>1. PICK w \in Workers : \/ Boot(w) \/ ApiCreateCase(w) \/ RunNewCase(w) \/ Crash(w)
                             \/ TaskRaises(w) \/ RunCase(w)
    BY DEF Next
  <1>2. CASE RunCase(w)
    BY <1>2, SeqProcessStep, SeqOpenStep, SeqFailureStep, SeqReturnStep, SeqOrderlyStep,
       SeqReadStep, SeqRecoverStep, SeqEngineStep, SeqLoadStep DEF RunCase
  <1> QED BY <1>1, <1>2, SeqBootStep, SeqProcessStep

\* A process that starts beside another one does no more than that
LEMMA OverlapBegins ==
    ASSUME Next, ~overlapped, overlapped' # overlapped
    PROVE  status' = status
  <1>1. PICK w \in Workers : \/ Boot(w) \/ ApiCreateCase(w) \/ RunNewCase(w) \/ Crash(w)
                             \/ TaskRaises(w) \/ RunCase(w)
    BY DEF Next
  <1>2. Boot(w) => status' = status
    BY DEF Boot, case
  <1>3. ApiCreateCase(w) \/ RunNewCase(w) \/ Crash(w) \/ TaskRaises(w) => overlapped' = overlapped
    BY DEF ApiCreateCase, RunNewCase, Crash, TaskRaises, procs
  <1>4. ASSUME NEW l \in EffectPlace, Engine(w, l) PROVE overlapped' = overlapped
    BY <1>4 DEF Engine, SkipEffect, AdmitEffect, EffectRejected, PolicyDenied, PrecheckHalted,
                SubmitEffect, SettleConfirmed, SettleUncertain, SettleAbsent, SettleNeedsHuman,
                SettleBusiness, SettleHardFailure, procs
  <1>5. RunCase(w) => overlapped' = overlapped
    BY <1>4 DEF RunCase, StartTask, OpenCase, RegisterDeadlines, RecoverClaims, RecoveryFails,
                ReconcileApplied, ReconcileFails, Resume, ReadStep, VerifyFails, BindAccount,
                LoadObligation, ReturnFailure, FailTo, ChargebackFiled, ActivateObligation,
                NoticePending, SettleNotice, WaitResolution, FailClosed, ScriptExits, procs
  <1> QED BY <1>1, <1>2, <1>3, <1>5

\* Once processes have overlapped, they have
LEMMA OverlapStays ==
    ASSUME TypeOK, [Next]_vars, overlapped
    PROVE  overlapped'
  <1>1. CASE Next
    <2>1. PICK w \in Workers : \/ Boot(w) \/ ApiCreateCase(w) \/ RunNewCase(w) \/ Crash(w)
                               \/ TaskRaises(w) \/ RunCase(w)
      BY <1>1 DEF Next
    <2>2. Boot(w) => overlapped'
      BY Zenon DEF Boot
    <2>3. ApiCreateCase(w) \/ RunNewCase(w) \/ Crash(w) \/ TaskRaises(w) => overlapped'
      BY DEF ApiCreateCase, RunNewCase, Crash, TaskRaises, procs
    <2>4. ASSUME NEW l \in EffectPlace, Engine(w, l) PROVE overlapped'
      BY <2>4 DEF Engine, SkipEffect, AdmitEffect, EffectRejected, PolicyDenied, PrecheckHalted,
                  SubmitEffect, SettleConfirmed, SettleUncertain, SettleAbsent, SettleNeedsHuman,
                  SettleBusiness, SettleHardFailure, procs
    <2>5. RunCase(w) => overlapped'
      BY <2>4 DEF RunCase, StartTask, OpenCase, RegisterDeadlines, RecoverClaims, RecoveryFails,
                  ReconcileApplied, ReconcileFails, Resume, ReadStep, VerifyFails, BindAccount,
                  LoadObligation, ReturnFailure, FailTo, ChargebackFiled, ActivateObligation,
                  NoticePending, SettleNotice, WaitResolution, FailClosed, ScriptExits, procs
    <2> QED BY <2>1, <2>2, <2>3, <2>5
  <1>2. CASE UNCHANGED vars
    BY <1>2 DEF vars, tasks, procs
  <1> QED BY <1>1, <1>2

\* As long as no process starts beside another one, a case has one task, whose
\* session is up to date, and what automation has left stays left.
THEOREM SequentialInductive == Spec => []SequentialInv
  <1>1. Init => SequentialInv
    BY StateNames, AllPlaces, EffectNames
       DEF Init, SequentialInv, OneTask, UncertainIsEscalated, FailureKeepsClock, DO_NOT_AUTO_RESUME
  <1>2. CaseInv /\ CaseInv' /\ SequentialInv /\ [Next]_vars => SequentialInv'
    <2> SUFFICES ASSUME CaseInv, CaseInv', SequentialInv, [Next]_vars PROVE SequentialInv'
      OBVIOUS
    <2>1. CASE overlapped'
      BY <2>1 DEF SequentialInv
    <2>2. CASE ~overlapped' /\ Next
      <3>1. ~overlapped
        BY <2>2, OverlapStays DEF CaseInv
      <3> QED BY <2>2, <3>1, SequentialStep
    <2>3. CASE UNCHANGED vars
      BY <2>3 DEF vars, case, effects, tasks, procs, SequentialInv, OneTask, UncertainIsEscalated,
                  FailureKeepsClock
    <2> QED BY <2>1, <2>2, <2>3
  <1> QED BY <1>1, <1>2, CaseInductive, PTL DEF Spec

\* An effect parked as uncertain keeps the case with a human, across any number
\* of crashes and restarts.
THEOREM UncertainIsEscalatedHolds == Spec => []UncertainIsEscalated
  <1>1. SequentialInv => UncertainIsEscalated
    BY DEF SequentialInv, UncertainIsEscalated
  <1> QED BY <1>1, SequentialInductive, PTL

\* A case that fails after the credit leaves the notice's clock running, for
\* any number of crashes and restarts.
THEOREM FailureKeepsClockHolds == Spec => []FailureKeepsClock
  <1>1. SequentialInv => FailureKeepsClock
    BY DEF SequentialInv, FailureKeepsClock
  <1> QED BY <1>1, SequentialInductive, PTL

\* The status goes forward along HAPPY_PATH or leaves it for good, whatever the
\* engine, the recovery and the restarts write without asking the state machine.
THEOREM StatusAdvancesHolds == Spec => StatusAdvances
  <1>1. CaseInv /\ CaseInv' /\ SequentialInv /\ [Next]_vars =>
            [~overlapped =>
                /\ status \in HappyStates /\ status' \in HappyStates =>
                     Index(status) <= Index(status')
                /\ status \in DO_NOT_AUTO_RESUME => status' \in DO_NOT_AUTO_RESUME]_status
    <2> SUFFICES ASSUME CaseInv, CaseInv', SequentialInv, Next, ~overlapped, status' # status
                 PROVE  Advance
      BY DEF Advance, vars, case
    <2>1. ~overlapped'
      BY OverlapBegins
    <2> QED BY <2>1, SequentialStep
  <1> QED BY <1>1, CaseInductive, SequentialInductive, PTL DEF Spec, StatusAdvances

-----------------------------------------------------------------------------
(* The session's copy of the obligation *)

\* A step that writes neither the obligation nor a copy
LEMMA SameCopies ==
    ASSUME CopiesCurrent, ~overlapped, UNCHANGED <<obligation, loaded>>,
           deadlines'["NOTICE_2_DAY"] = "MET" => deadlines["NOTICE_2_DAY"] = "MET",
           \A v \in Workers : proc'[v] = "up" \/ proc'[v] = proc[v]
    PROVE  CopiesCurrent'
  BY DEF CopiesCurrent

LEMMA EngineCopies ==
    ASSUME CopiesCurrent, ~overlapped, NEW w \in Workers, NEW l \in EffectPlace, Engine(w, l)
    PROVE  CopiesCurrent'
  <1>1. UNCHANGED <<obligation, deadlines, loaded, procs>>
    BY DEF Engine, SkipEffect, AdmitEffect, EffectRejected, PolicyDenied, PrecheckHalted,
           SubmitEffect, SettleConfirmed, SettleUncertain, SettleAbsent, SettleNeedsHuman,
           SettleBusiness, SettleHardFailure, case
  <1> QED BY <1>1, SameCopies DEF procs

LEMMA ProcessCopies ==
    ASSUME CaseInv, CopiesCurrent, ~overlapped, NEW w \in Workers,
           \/ Boot(w) \/ ApiCreateCase(w) \/ RunNewCase(w) \/ Crash(w) \/ TaskRaises(w)
           \/ FailClosed(w) \/ ScriptExits(w) \/ StartTask(w)
    PROVE  CopiesCurrent'
  <1>1. UNCHANGED <<obligation, deadlines>>
    BY DEF Boot, ApiCreateCase, RunNewCase, Crash, TaskRaises, FailClosed, ScriptExits, StartTask,
           case
  <1>2. CASE Crash(w) \/ ScriptExits(w)
    <2>1. /\ proc' = [proc EXCEPT ![w] = "dead"] /\ loaded' = [loaded EXCEPT ![w] = "unread"]
      BY <1>2 DEF Crash, ScriptExits
    <2>2. \A v \in Workers : proc'[v] = proc[v] \/ v = w
      BY <2>1 DEF CaseInv, TypeOK
    <2>3. \A v \in Workers : \/ loaded'[v] = "unread"
                             \/ loaded'[v] = loaded[v] /\ v # w
      BY <2>1 DEF CaseInv, TypeOK
    <2> QED BY <1>1, <2>2, <2>3 DEF CopiesCurrent
  <1>3. CASE Boot(w)
    <2>1. \A v \in Workers : proc'[v] = "up" \/ proc'[v] = proc[v]
      BY <1>3 DEF Boot, CaseInv, TypeOK
    <2> QED BY <1>1, <1>3, <2>1, SameCopies DEF Boot
  <1>4. CASE \/ ApiCreateCase(w) \/ RunNewCase(w) \/ TaskRaises(w) \/ FailClosed(w)
            \/ StartTask(w)
    <2>1. UNCHANGED <<procs, loaded>>
      BY <1>4 DEF ApiCreateCase, RunNewCase, TaskRaises, FailClosed, StartTask
    <2> QED BY <1>1, <2>1, SameCopies DEF procs
  <1> QED BY <1>2, <1>3, <1>4

\* The steps that open the case and register its deadlines
LEMMA OpenCopies ==
    ASSUME CaseInv, CopiesCurrent, ~overlapped, NEW w \in Workers,
           OpenCase(w) \/ RegisterDeadlines(w) \/ Resume(w)
    PROVE  CopiesCurrent'
  <1>1. /\ UNCHANGED <<loaded, procs>> /\ obligation' \in {obligation, WithObligation}
        /\ deadlines' \in {deadlines, WithDeadlines(Statutory)}
    BY DEF OpenCase, RegisterDeadlines, Resume
  <1>2. deadlines'["NOTICE_2_DAY"] = deadlines["NOTICE_2_DAY"]
    BY <1>1, DeadlinesTyped, EffectNames DEF CaseInv
  <1>3. \A v \in Workers : obligation = "NONE" => loaded[v] = "unread"
    BY DEF CopiesCurrent, CaseInv, TypeOK
  <1>4. obligation # "NONE" => obligation' = obligation
    BY <1>1 DEF WithObligation
  <1>5. deadlines["NOTICE_2_DAY"] = "MET" => obligation' = "SATISFIED"
    BY <1>4 DEF CopiesCurrent
  <1> QED BY <1>1, <1>2, <1>3, <1>4, <1>5 DEF CopiesCurrent, procs

\* The steps that read and write the obligation through a copy: the session is
\* the only one that has one.
LEMMA ObligationCopies ==
    ASSUME CaseInv, SequentialInv, CopiesCurrent, ~overlapped, NEW w \in Workers,
           LoadObligation(w) \/ ActivateObligation(w) \/ SettleNotice(w)
    PROVE  CopiesCurrent'
  <1>1. /\ UNCHANGED procs /\ pc[w] \in {"credit", "activate", "notified"}
    BY DEF LoadObligation, ActivateObligation, SettleNotice, At
  <1>2. proc[w] = "up"
    BY <1>1 DEF CaseInv, TypeOK, ProcInv
  <1>3. \A v \in Workers \ {w} : loaded[v] = "unread"
    BY <1>2 DEF SequentialInv, OneTask, CopiesCurrent
  <1>4. /\ loaded[w] \in {"unread", obligation}
        /\ deadlines["NOTICE_2_DAY"] = "MET" => obligation = "SATISFIED"
    BY DEF CopiesCurrent
  <1>5. \A v \in Workers \ {w} : loaded'[v] = "unread"
    BY <1>3 DEF LoadObligation, ActivateObligation, SettleNotice, CaseInv, TypeOK
  <1>6. CASE LoadObligation(w)
    <2>1. loaded'[w] = obligation /\ UNCHANGED <<obligation, deadlines>>
      BY <1>6 DEF LoadObligation, CaseInv, TypeOK, case
    <2> QED BY <1>1, <1>2, <1>4, <1>5, <2>1 DEF CopiesCurrent, procs
  <1>7. CASE ActivateObligation(w)
    <2>1. loaded[w] = obligation
      BY <1>4, <1>7 DEF ActivateObligation
    <2>2. /\ obligation' = IF obligation = "PLANNED" THEN "ACTIVE" ELSE obligation
          /\ loaded'[w] = obligation'
      BY <1>7, <2>1 DEF ActivateObligation, CaseInv, TypeOK
    <2>3. deadlines'["NOTICE_2_DAY"] = "MET" => deadlines["NOTICE_2_DAY"] = "MET"
      BY <1>7, DeadlinesTyped DEF ActivateObligation, CaseInv, TypeOK
    <2> QED BY <1>1, <1>2, <1>4, <1>5, <2>2, <2>3 DEF CopiesCurrent, procs
  <1>8. CASE SettleNotice(w)
    <2>1. obligation' = "SATISFIED" /\ loaded'[w] = "SATISFIED"
      BY <1>4, <1>8 DEF SettleNotice, CaseInv, TypeOK
    <2> QED BY <1>1, <1>2, <1>5, <2>1 DEF CopiesCurrent, procs
  <1> QED BY <1>6, <1>7, <1>8

LEMMA CopiesStep ==
    ASSUME CaseInv, SequentialInv, CopiesCurrent, ~overlapped, Next
    PROVE  CopiesCurrent'
  <1>1. PICK w \in Workers : \/ Boot(w) \/ ApiCreateCase(w) \/ RunNewCase(w) \/ Crash(w)
                             \/ TaskRaises(w) \/ RunCase(w)
    BY DEF Next
  <1>2. ASSUME \/ RecoverClaims(w) \/ RecoveryFails(w) \/ ReconcileApplied(w)
               \/ ReconcileFails(w) \/ ReadStep(w) \/ VerifyFails(w) \/ BindAccount(w)
               \/ ReturnFailure(w) \/ ChargebackFiled(w) \/ NoticePending(w)
               \/ WaitResolution(w)
        PROVE  CopiesCurrent'
    <2>1. UNCHANGED <<obligation, deadlines, loaded, procs>>
      BY <1>2 DEF RecoverClaims, RecoveryFails, ReconcileApplied, ReconcileFails, ReadStep,
                  VerifyFails, BindAccount, ReturnFailure, FailTo, ChargebackFiled,
                  NoticePending, WaitResolution, case
    <2> QED BY <2>1, SameCopies DEF procs
  <1>3. CASE RunCase(w)
    BY <1>2, <1>3, ProcessCopies, OpenCopies, EngineCopies, ObligationCopies DEF RunCase
  <1> QED BY <1>1, <1>3, ProcessCopies

\* One process after the other, the copy of the obligation that a task writes
\* from is the obligation as it is, and a notice's deadline is met exactly with
\* a satisfied obligation.
THEOREM CopiesCurrentHolds == Spec => []CopiesCurrent
  <1>1. Init => CopiesCurrent
    BY DEF Init, CopiesCurrent
  <1>2. CaseInv /\ SequentialInv /\ CopiesCurrent /\ [Next]_vars => CopiesCurrent'
    <2> SUFFICES ASSUME CaseInv, SequentialInv, CopiesCurrent, [Next]_vars
                 PROVE  CopiesCurrent'
      OBVIOUS
    <2>1. CASE overlapped'
      BY <2>1 DEF CopiesCurrent
    <2>2. CASE ~overlapped' /\ Next
      <3>1. ~overlapped
        BY <2>2, OverlapStays DEF CaseInv
      <3> QED BY <2>2, <3>1, CopiesStep
    <2>3. CASE UNCHANGED vars
      BY <2>3 DEF vars, case, tasks, procs, CopiesCurrent
    <2> QED BY <2>1, <2>2, <2>3
  <1> QED BY <1>1, <1>2, CaseInductive, SequentialInductive, PTL DEF Spec

\* A case that reports its notice sent has every effect confirmed and at its
\* target, its money moved and its deadline met, whichever processes overlap;
\* its obligation is satisfied where none have.
THEOREM SentMeansDoneHolds == Spec => []SentMeansDone
  <1>1. CaseInv /\ CopiesCurrent => SentMeansDone
    <2> SUFFICES ASSUME CaseInv, CopiesCurrent, status \in {"NOTICE_SENT", "WAITING_RESOLUTION"}
                 PROVE  /\ \A c \in Effects : record[c] /\ phase[c] = "confirmed"
                        /\ moneyMoved
                        /\ deadlines["NOTICE_2_DAY"] = "MET"
                        /\ obligation \in {"ACTIVE", "SATISFIED"}
                        /\ ~overlapped => obligation = "SATISFIED"
      BY DEF SentMeansDone
    <2>1. deadlines["NOTICE_2_DAY"] = "MET" /\ phase[Notice] = "confirmed"
      BY DEF CaseInv, StagesInOrder
    <2>2. /\ \A c \in Effects : phase[c] = "confirmed"
          /\ moneyMoved /\ obligation \in {"ACTIVE", "SATISFIED"}
      BY <2>1, EffectNames DEF CaseInv, StagesInOrder
    <2>3. \A c \in Effects : record[c]
      BY <2>2 DEF CaseInv, ClaimsAgree
    <2> QED BY <2>1, <2>2, <2>3 DEF CopiesCurrent
  <1> QED BY <1>1, CaseInductive, CopiesCurrentHolds, PTL

=============================================================================

-------------------------- MODULE DiscoveryProofs --------------------------
(***************************************************************************)
(* For every bound on the cycles: what a discovery run posts, records and  *)
(* compiles.  DiscoveryInv is inductive: a cycle in hand is within the     *)
(* bound (Counted); a commit is on its way, and a form is open, only where *)
(* the guard and the sign-off let it be (Admitted); where a commit has     *)
(* been, a SUBMIT is among the recorder's events, or the run is, or broke  *)
(* off, in its cycle (Recorded); trace.json has these events or is, or was *)
(* left, half written (Filed); and a receipt is the caller's unless a      *)
(* person pressed a commit (Backed).                                       *)
(***************************************************************************)
EXTENDS Discovery, TLAPS

SignedOff == required => cleared
Admitted ==
    /\ sent \subseteq {Goal}
    /\ sent # {} => SignedOff
    /\ page.kind \in {"entry", "confirm"} => SignedOff
Recorded ==
    sent # {} \/ by["goal"] = "agent" \/ submitted =>
        evidence \/ (phase \in {"acted", "failed"} \cup Broken /\ decision = "SUBMIT")
Filed == file = Complete \/ (file = "torn" /\ phase \in Rewriting \cup Broken)
Backed ==
    /\ ~assisted /\ (page.kind = "receipt" \/ receipt) => rows["goal"] = CreditOf(Goal)
    /\ artifact => receipt /\ submitted /\ phase = "compiled"

Counted ==
    phase \in {"acted", "failed", "recording", "reporting"} => cycle < MaxCycles

DiscoveryInv ==
    TypeOK /\ Counted /\ Admitted /\ AgentCreditsGoal /\ Recorded /\ Filed /\ Backed

Pages == [kind : Kinds, form : Form]

-----------------------------------------------------------------------------
(* The pages *)

\* Every page a click, a search or a field can lead to is a page, and opens a
\* form only past the sign-off; none is a receipt.
LEMMA PagesReached ==
    ASSUME TypeOK, Admitted
    PROVE  /\ \A p \in ClickLeadsTo :
                 /\ p \in Pages /\ p.kind # "receipt"
                 /\ p.kind \in {"entry", "confirm"} => SignedOff
           /\ \A p \in ReadPages :
                 /\ p \in Pages /\ p.kind # "receipt"
                 /\ p.kind \in {"entry", "confirm"} => SignedOff
           /\ \A p \in Filled : p \in Pages /\ p.kind = page.kind
<1> USE DEF TypeOK, Pages, Kinds, Form, Value
<1>1. \A m \in Value : [Untouched EXCEPT !.member = m] \in Form
  BY DEF Untouched
<1>2. \A k \in Kinds : Plain(k) \in Pages /\ Plain(k).kind = k
  BY DEF Plain, Untouched
<1>3. \A p \in ReadPages :
         /\ p \in Pages /\ p.kind # "receipt"
         /\ p.kind \in {"entry", "confirm"} => SignedOff
  <2> SUFFICES ASSUME NEW p \in ReadPages
               PROVE  /\ p \in Pages /\ p.kind # "receipt"
                      /\ p.kind \in {"entry", "confirm"} => SignedOff
    OBVIOUS
  <2>1. CASE p = Shown(Plain("search"))
    BY <2>1, <1>2 DEF Shown
  <2>2. CASE \E m \in Value : p = CreditEntry(m)
    BY <2>2, <1>1, <1>2 DEF CreditEntry, Shown, FormPage, SignedOff
  <2> QED
    BY <2>1, <2>2 DEF ReadPages
<1>4. \A p \in ClickLeadsTo :
         /\ p \in Pages /\ p.kind # "receipt"
         /\ p.kind \in {"entry", "confirm"} => SignedOff
  <2>1. page.kind = "entry" =>
          ReviewPage \in Pages /\ ReviewPage.kind # "receipt" /\ SignedOff
    BY <1>2 DEF ReviewPage, Shown, Admitted
  <2> QED
    BY <1>3, <2>1 DEF ClickLeadsTo
<1>5. \A p \in Filled : p \in Pages /\ p.kind = page.kind
  BY DEF Filled
<1> QED
  BY <1>3, <1>4, <1>5

\* The commit route for one form: a credit is inserted for its case or nothing
\* changes; a receipt means the case's credit is that of the form.
LEMMA CommitEffect ==
    ASSUME TypeOK, NEW form \in Form, NEW who \in {"agent", "human"}, Commit(form, who)
    PROVE  /\ rows' \in [Value -> Credit \cup {NoCredit}]
           /\ by' \in [Value -> {"nobody", "earlier", "agent", "human"}]
           /\ \A c \in Value : rows[c] # NoCredit => rows'[c] = rows[c] /\ by'[c] = by[c]
           /\ \A c \in Value : by'[c] # by[c] =>
                 c = form.case /\ by'[c] = who /\ rows'[c] = CreditOf(form)
           /\ CommitAnswer(form) \in Pages
           /\ CommitAnswer(form).kind \in {"receipt", "failed", "expired"}
           /\ CommitAnswer(form).kind = "receipt" => rows'[form.case] = CreditOf(form)
<1> USE DEF TypeOK
<1>1. CreditOf(form) \in Credit /\ form.case \in Value
  BY DEF CreditOf, Credit, Form
<1>2. /\ CommitAnswer(form) \in Pages
      /\ CommitAnswer(form).kind \in {"receipt", "failed", "expired"}
      /\ CommitAnswer(form).kind = "receipt" =>
            session /\ rows[form.case] \in {NoCredit, CreditOf(form)}
  BY DEF CommitAnswer, Shown, Plain, Untouched, Pages, Kinds, Form, Value
<1>3. CASE session /\ rows[form.case] = NoCredit
  <2>1. rows' = [rows EXCEPT ![form.case] = CreditOf(form)] /\ by' = [by EXCEPT ![form.case] = who]
    BY <1>3 DEF Commit
  <2> QED
    BY <1>1, <1>2, <1>3, <2>1
<1>4. CASE ~(session /\ rows[form.case] = NoCredit)
  BY <1>1, <1>2, <1>4 DEF Commit
<1> QED
  BY <1>3, <1>4

-----------------------------------------------------------------------------
(* The inductive step *)

LEMMA InitInv == Init => DiscoveryInv
<1> SUFFICES ASSUME Init PROVE DiscoveryInv
  OBVIOUS
<1> USE DEF Init
<1>1. TypeOK
  <2>1. page \in [kind : Kinds, form : Form]
    BY DEF Plain, Untouched, Kinds, Form, Value
  <2>2. rows \in [Value -> Credit \cup {NoCredit}]
    BY DEF CreditOf, Goal, Credit, Value
  <2>3. by \in [Value -> {"nobody", "earlier", "agent", "human"}] /\ cycle \in 0..MaxCycles
    BY DiscoveryAssumption
  <2> QED
    BY <2>1, <2>2, <2>3, Zenon DEF TypeOK, Phases
<1>2. by["goal"] # "agent" /\ by["other"] # "agent"
  BY DEF Value
<1> QED
  BY <1>1, <1>2 DEF DiscoveryInv, Counted, Admitted, AgentCreditsGoal, Recorded, Filed, Complete, Backed, Plain, Value

\* A step that leaves the core bank's rows and the commits alone, and moves the
\* browser at most to a page past the sign-off that is no receipt.
LEMMA BrowserStep ==
    ASSUME DiscoveryInv, UNCHANGED <<sent, bank, assisted>>,
           \/ UNCHANGED page
           \/ /\ page'.kind # "receipt"
              /\ page'.kind \in {"entry", "confirm"} => SignedOff
    PROVE  /\ Admitted' /\ AgentCreditsGoal'
           /\ ~assisted' /\ page'.kind = "receipt" => rows'["goal"] = CreditOf(Goal)
BY DEF DiscoveryInv, Admitted, AgentCreditsGoal, Backed, SignedOff, bank

LEMMA NextInv == DiscoveryInv /\ [Next]_vars => DiscoveryInv'
<1> SUFFICES ASSUME DiscoveryInv, [Next]_vars PROVE DiscoveryInv'
  OBVIOUS
<1>a. TypeOK /\ Counted /\ Admitted /\ AgentCreditsGoal /\ Recorded /\ Filed /\ Backed
  BY DEF DiscoveryInv
<1> USE DEF Rewriting, Broken
<1>c. Counted'
  <2> DEFINE Counting == {"acted", "failed", "recording", "reporting"}
  <2>1. CASE Agent
    <3>1. \/ Deciding
          \/ UNCHANGED cycle /\ phase \in Counting
          \/ phase' \notin Counting
      BY <2>1
      DEF Agent, Start, Navigate, Fill, Click, Submit, StepFails, StepRaises, Finish, ProviderFails,
          AppendCycle, RecordCycle, AppendFailure, RecordFailure, record_cycle, CycleWritten,
          CyclesExhausted, Finalize, ReturnTrace, Compile, Intervene
    <3>2. Deciding => UNCHANGED cycle \/ phase' \notin Counting
      BY <2>1
      DEF Agent, Start, Navigate, Fill, Click, Submit, StepFails, StepRaises, Finish, ProviderFails,
          AppendCycle, RecordCycle, AppendFailure, RecordFailure, record_cycle, CycleWritten,
          CyclesExhausted, Finalize, ReturnTrace, Compile, Intervene, Acted, Failing, Deciding
    <3> QED
      BY <1>a, <3>1, <3>2 DEF Counted, Deciding
  <2>2. CASE ~Agent
    <3>1. UNCHANGED <<phase, cycle>> \/ phase' \notin Counting
      BY <2>2
      DEF Next, Human, vars, HumanBrowses, HumanClears, HumanCommits, HumanAnswers, CommitLands,
          CommitLost, SetSession, RunRaises, Crash, Person
    <3> QED
      BY <1>a, <3>1 DEF Counted
  <2> QED
    BY <2>1, <2>2
<1> USE DEF bank, browser, trace
<1>1. CASE Start
  <2>1. TypeOK'
    BY <1>a, <1>1, DiscoveryAssumption DEF TypeOK, Phases, Ended, DiscoveryAction, Start
  <2>2. UNCHANGED <<sent, bank, assisted, page>>
    BY <1>1 DEF Start
  <2>3. Recorded' /\ Filed' /\ Backed'
    BY <1>a, <1>1 DEF Recorded, Filed, Complete, Backed, Ended, DiscoveryAction, Start
  <2> QED
    BY <1>c, <2>1, <2>2, <2>3, BrowserStep DEF DiscoveryInv
<1>2. CASE StepFails
  <2>1. TypeOK'
    BY <1>a, <1>2, DiscoveryAssumption DEF TypeOK, Phases, Ended, DiscoveryAction, StepFails, Failing, Deciding
  <2>2. UNCHANGED <<sent, bank, assisted, page>>
    BY <1>2 DEF StepFails, Failing, Deciding
  <2>3. Recorded' /\ Filed' /\ Backed'
    BY <1>a, <1>2 DEF Recorded, Filed, Complete, Backed, Ended, DiscoveryAction, StepFails, Failing, Deciding
  <2> QED
    BY <1>c, <2>1, <2>2, <2>3, BrowserStep DEF DiscoveryInv
<1>3. CASE Finish
  <2>1. TypeOK'
    <3>1. seen' \in BOOLEAN
      BY <1>3, Zenon DEF Finish, ReceiptShown
    <3> QED
      BY <1>a, <1>3, <3>1 DEF TypeOK, Phases, DiscoveryAction, Finish
  <2>2. UNCHANGED <<sent, bank, assisted, page>>
    BY <1>3 DEF Finish, Deciding
  <2>3. Recorded' /\ Filed' /\ Backed'
    BY <1>a, <1>3 DEF Recorded, Filed, Complete, Backed, Ended, DiscoveryAction, Finish, Deciding
  <2> QED
    BY <1>c, <2>1, <2>2, <2>3, BrowserStep DEF DiscoveryInv
<1>4. CASE ProviderFails
  <2>1. TypeOK'
    BY <1>a, <1>4, DiscoveryAssumption DEF TypeOK, Phases, Ended, DiscoveryAction, ProviderFails, Deciding, Intervene
  <2>2. UNCHANGED <<sent, bank, assisted, page>>
    BY <1>4 DEF ProviderFails, Deciding, Intervene
  <2>3. Recorded' /\ Filed' /\ Backed'
    BY <1>a, <1>4 DEF Recorded, Filed, Complete, Backed, Ended, DiscoveryAction, ProviderFails, Deciding, Intervene
  <2> QED
    BY <1>c, <2>1, <2>2, <2>3, BrowserStep DEF DiscoveryInv
<1>5. CASE RecordCycle
  <2>1. TypeOK'
    <3>1. cycle' \in 0..MaxCycles
      BY <1>a, <1>5, DiscoveryAssumption DEF TypeOK, Counted, RecordCycle, CycleWritten
    <3>2. phase' \in Phases
      BY <1>5 DEF Phases, Ended, RecordCycle
    <3> QED
      BY <1>a, <1>5, <3>1, <3>2 DEF TypeOK, RecordCycle, CycleWritten, Complete
  <2>2. UNCHANGED <<sent, bank, assisted, page>>
    BY <1>5 DEF RecordCycle, CycleWritten
  <2>3. Recorded' /\ Filed' /\ Backed'
    BY <1>a, <1>5 DEF Recorded, Filed, Complete, Backed, Ended, RecordCycle, CycleWritten
  <2> QED
    BY <1>c, <2>1, <2>2, <2>3, BrowserStep DEF DiscoveryInv
<1>6. CASE RecordFailure
  <2>1. TypeOK'
    <3>1. cycle' \in 0..MaxCycles
      BY <1>a, <1>6, DiscoveryAssumption DEF TypeOK, Counted, RecordFailure, CycleWritten
    <3>2. phase' \in Phases
      BY <1>6 DEF Phases, Ended, RecordFailure, Intervene
    <3> QED
      BY <1>a, <1>6, <3>1, <3>2 DEF TypeOK, RecordFailure, CycleWritten, Complete
  <2>2. UNCHANGED <<sent, bank, assisted, page>>
    BY <1>6 DEF RecordFailure, CycleWritten
  <2>3. Recorded' /\ Filed' /\ Backed'
    BY <1>a, <1>6 DEF Recorded, Filed, Complete, Backed, Ended, RecordFailure, CycleWritten, Intervene
  <2> QED
    BY <1>c, <2>1, <2>2, <2>3, BrowserStep DEF DiscoveryInv
<1>7. CASE CyclesExhausted
  <2>1. TypeOK'
    BY <1>a, <1>7, DiscoveryAssumption DEF TypeOK, Phases, Ended, DiscoveryAction, CyclesExhausted
  <2>2. UNCHANGED <<sent, bank, assisted, page>>
    BY <1>7 DEF CyclesExhausted
  <2>3. Recorded' /\ Filed' /\ Backed'
    BY <1>a, <1>7 DEF Recorded, Filed, Complete, Backed, Ended, DiscoveryAction, CyclesExhausted
  <2> QED
    BY <1>c, <2>1, <2>2, <2>3, BrowserStep DEF DiscoveryInv
<1>8. CASE Finalize
  <2>1. TypeOK'
    BY <1>a, <1>8, DiscoveryAssumption DEF TypeOK, Phases, Ended, DiscoveryAction, Finalize, ReceiptShown
  <2>2. UNCHANGED <<sent, bank, assisted, page>>
    BY <1>8 DEF Finalize, ReceiptShown
  <2>3. Recorded' /\ Filed' /\ Backed'
    BY <1>a, <1>8 DEF Recorded, Filed, Complete, Backed, Ended, DiscoveryAction, Finalize, ReceiptShown
  <2> QED
    BY <1>c, <2>1, <2>2, <2>3, BrowserStep DEF DiscoveryInv
<1>9. CASE Compile
  <2>1. TypeOK'
    BY <1>a, <1>9, DiscoveryAssumption DEF TypeOK, Phases, Ended, DiscoveryAction, Compile, Compilable
  <2>2. UNCHANGED <<sent, bank, assisted, page>>
    BY <1>9 DEF Compile, Compilable
  <2>3. Recorded' /\ Filed' /\ Backed'
    BY <1>a, <1>9 DEF Recorded, Filed, Complete, Backed, Ended, DiscoveryAction, Compile, Compilable
  <2> QED
    BY <1>c, <2>1, <2>2, <2>3, BrowserStep DEF DiscoveryInv
<1>10. CASE Crash
  <2>1. TypeOK'
    BY <1>a, <1>10, DiscoveryAssumption DEF TypeOK, Phases, Ended, DiscoveryAction, Crash
  <2>2. UNCHANGED <<sent, bank, assisted, page>>
    BY <1>10 DEF Crash
  <2>3. Recorded' /\ Filed' /\ Backed'
    BY <1>a, <1>10 DEF Recorded, Filed, Complete, Backed, Ended, DiscoveryAction, Crash
  <2> QED
    BY <1>c, <2>1, <2>2, <2>3, BrowserStep DEF DiscoveryInv
<1>11. CASE HumanAnswers
  <2>1. TypeOK'
    BY <1>a, <1>11, DiscoveryAssumption DEF TypeOK, Phases, Ended, DiscoveryAction, HumanAnswers, Person
  <2>2. UNCHANGED <<sent, bank, assisted, page>>
    BY <1>11 DEF HumanAnswers, Person
  <2>3. Recorded' /\ Filed' /\ Backed'
    BY <1>a, <1>11 DEF Recorded, Filed, Complete, Backed, Ended, DiscoveryAction, HumanAnswers, Person
  <2> QED
    BY <1>c, <2>1, <2>2, <2>3, BrowserStep DEF DiscoveryInv
<1>12. CASE Navigate
  <2>1. UNCHANGED <<sent, bank, assisted>>
    BY <1>12 DEF Navigate, Acted, Deciding
  <2>2. PICK p \in ReadPages : Shows(p)
    BY <1>12 DEF Navigate
  <2>3. /\ page' \in Pages /\ page'.kind # "receipt" /\ awaiting' = FALSE
        /\ page'.kind \in {"entry", "confirm"} => SignedOff
    BY <1>a, <2>2, PagesReached DEF Shows
  <2>4. TypeOK'
    <3>1. page' \in [kind : Kinds, form : Form] /\ awaiting' \in BOOLEAN
      BY <2>3 DEF Pages
    <3> QED
      BY <1>a, <1>12, <2>3, <3>1 DEF TypeOK, Phases, DiscoveryAction, Navigate, Acted, Deciding
  <2>5. Recorded' /\ Filed' /\ Backed'
    BY <1>a, <1>12, <2>3 DEF Recorded, Filed, Complete, Backed, Deciding, Navigate, Acted, Deciding
  <2> QED
    BY <1>c, <2>1, <2>3, <2>4, <2>5, BrowserStep DEF DiscoveryInv
<1>13. CASE Click
  <2>1. UNCHANGED <<sent, bank, assisted>>
    BY <1>13 DEF Click, Acted, Deciding
  <2>2. PICK p \in ClickLeadsTo : Shows(p)
    BY <1>13 DEF Click
  <2>3. /\ page' \in Pages /\ page'.kind # "receipt" /\ awaiting' = FALSE
        /\ page'.kind \in {"entry", "confirm"} => SignedOff
    BY <1>a, <2>2, PagesReached DEF Shows
  <2>4. TypeOK'
    <3>1. page' \in [kind : Kinds, form : Form] /\ awaiting' \in BOOLEAN
      BY <2>3 DEF Pages
    <3> QED
      BY <1>a, <1>13, <2>3, <3>1 DEF TypeOK, Phases, DiscoveryAction, Click, Acted, Deciding
  <2>5. Recorded' /\ Filed' /\ Backed'
    BY <1>a, <1>13, <2>3 DEF Recorded, Filed, Complete, Backed, Deciding, Click, Acted, Deciding
  <2> QED
    BY <1>c, <2>1, <2>3, <2>4, <2>5, BrowserStep DEF DiscoveryInv
<1>14. CASE Fill
  <2>1. UNCHANGED <<sent, bank, assisted>>
    BY <1>14 DEF Fill, Acted
  <2>2. /\ page' \in Pages /\ awaiting' \in BOOLEAN /\ page'.kind # "receipt"
        /\ page'.kind \in {"entry", "confirm"} => SignedOff
    BY <1>a, <1>14, PagesReached DEF Fill, Shows, TypeOK, Pages, Admitted
  <2>3. TypeOK'
    BY <1>a, <1>14, <2>2 DEF TypeOK, Phases, DiscoveryAction, Pages, Fill, Acted
  <2>4. Recorded' /\ Filed' /\ Backed'
    BY <1>a, <1>14, <2>2 DEF Recorded, Filed, Complete, Backed, Deciding, Fill, Acted
  <2> QED
    BY <1>c, <2>1, <2>2, <2>3, <2>4, BrowserStep DEF DiscoveryInv
<1>15. CASE HumanBrowses
  <2>1. UNCHANGED <<sent, bank, assisted>>
    BY <1>15 DEF HumanBrowses, Person
  <2>2. PICK p \in ClickLeadsTo \cup (IF page.kind = "entry" THEN Filled ELSE {}) : Shows(p)
    BY <1>15 DEF HumanBrowses
  <2>3. /\ page' \in Pages /\ page'.kind # "receipt" /\ awaiting' = FALSE
        /\ page'.kind \in {"entry", "confirm"} => SignedOff
    BY <1>a, <2>2, PagesReached DEF Shows, Admitted
  <2>4. TypeOK'
    <3>1. page' \in [kind : Kinds, form : Form] /\ awaiting' \in BOOLEAN
      BY <2>3 DEF Pages
    <3> QED
      BY <1>a, <1>15, <2>3, <3>1 DEF TypeOK, HumanBrowses, Person
  <2>5. Recorded' /\ Filed' /\ Backed'
    BY <1>a, <1>15, <2>3 DEF Recorded, Filed, Complete, Backed, HumanBrowses, Person
  <2> QED
    BY <1>c, <2>1, <2>3, <2>4, <2>5, BrowserStep DEF DiscoveryInv
<1>16. CASE SetSession
  <2>1. TypeOK'
    BY <1>a, <1>16 DEF TypeOK, SetSession
  <2> QED
    BY <1>c, <1>a, <1>16, <2>1 DEF DiscoveryInv, Admitted, SignedOff, AgentCreditsGoal, Recorded, Filed, Complete, Backed, SetSession
<1>17. CASE HumanClears
  <2>1. page' = Shown([page EXCEPT !.kind = "entry"]) /\ awaiting' = FALSE /\ cleared' = TRUE
    BY <1>17 DEF HumanClears, Shows
  <2>2. page' \in Pages /\ page'.kind # "receipt"
    BY <1>a, <2>1 DEF TypeOK, Pages, Shown, Plain, Untouched, Kinds, Form, Value
  <2>3. TypeOK'
    BY <1>a, <1>17, <2>1, <2>2 DEF TypeOK, Pages, HumanClears, Person
  <2> QED
    BY <1>c, <1>a, <1>17, <2>1, <2>2, <2>3
    DEF DiscoveryInv, Admitted, SignedOff, AgentCreditsGoal, Recorded, Filed, Complete, Backed, HumanClears, Person
<1>18. CASE HumanCommits
  <2>1. page.form \in Form /\ Commit(page.form, "human") /\ page' = CommitAnswer(page.form)
    BY <1>a, <1>18 DEF TypeOK, HumanCommits, Shows
  <2>2. TypeOK'
    <3>1. /\ rows' \in [Value -> Credit \cup {NoCredit}] /\ page' \in Pages
          /\ by' \in [Value -> {"nobody", "earlier", "agent", "human"}]
      BY <1>a, <2>1, CommitEffect
    <3>2. awaiting' \in BOOLEAN /\ assisted' \in BOOLEAN
      BY <1>18 DEF HumanCommits, Shows
    <3> QED
      BY <1>a, <1>18, <3>1, <3>2 DEF TypeOK, Pages, HumanCommits, Person, Commit
  <2>3. AgentCreditsGoal'
    BY <1>a, <1>18, <2>1, CommitEffect, DiscoveryAssumption
    DEF AgentCreditsGoal, HumanCommits, Commit, TypeOK, Credit, CreditOf, Goal, Value
  <2>4. Admitted' /\ Recorded' /\ Filed' /\ Backed'
    BY <1>a, <1>18, <2>1, CommitEffect
    DEF Admitted, SignedOff, Recorded, Filed, Complete, Backed, HumanCommits, Person, Commit, Value
  <2> QED
    BY <1>c, <2>2, <2>3, <2>4 DEF DiscoveryInv
<1>19. CASE Submit
  <2>1. sent' = sent \cup {Goal} /\ page' = page /\ awaiting' = TRUE /\ SignedOff
    BY <1>a, <1>19 DEF Submit, PressCommit, GuardHolds, Admitted
  <2>2. TypeOK'
    BY <1>a, <1>19, <2>1 DEF TypeOK, Phases, DiscoveryAction, Submit, Acted, Goal, Form, Value
  <2> QED
    BY <1>c, <1>a, <1>19, <2>1, <2>2
    DEF DiscoveryInv, Admitted, SignedOff, AgentCreditsGoal, Recorded, Filed, Complete, Backed, Submit, Acted, Deciding
<1>20. CASE StepRaises
  <2>1. CASE \E p \in ClickLeadsTo : Shows(p) /\ Failing("CLICK") /\ UNCHANGED sent
    <3>1. /\ page' \in Pages /\ page'.kind # "receipt" /\ awaiting' = FALSE
          /\ page'.kind \in {"entry", "confirm"} => SignedOff
      BY <1>a, <2>1, PagesReached DEF Shows
    <3>2. TypeOK'
      <4>1. page' \in [kind : Kinds, form : Form] /\ awaiting' \in BOOLEAN
        BY <3>1 DEF Pages
      <4> QED
        BY <1>a, <2>1, <3>1, <4>1 DEF TypeOK, Phases, DiscoveryAction, Failing
    <3>3. Recorded' /\ Filed' /\ Backed' /\ UNCHANGED <<sent, bank, assisted>>
      BY <1>a, <1>20, <2>1, <3>1 DEF Recorded, Filed, Complete, Backed, StepRaises, Deciding, Failing
    <3> QED
      BY <1>c, <3>1, <3>2, <3>3, BrowserStep DEF DiscoveryInv
  <2>2. CASE GuardHolds /\ PressCommit /\ Failing("SUBMIT")
    <3>1. sent' = sent \cup {Goal} /\ page' = page /\ awaiting' = TRUE /\ SignedOff
      BY <1>a, <2>2 DEF PressCommit, GuardHolds, Admitted
    <3>2. TypeOK'
      BY <1>a, <2>2, <3>1 DEF TypeOK, Phases, DiscoveryAction, Failing, Goal, Form, Value
    <3> QED
      BY <1>c, <1>a, <1>20, <2>2, <3>1, <3>2
      DEF DiscoveryInv, Admitted, SignedOff, AgentCreditsGoal, Recorded, Filed, Complete, Backed, StepRaises, Failing, Deciding
  <2> QED
    BY <1>20, <2>1, <2>2 DEF StepRaises
<1>21. CASE CommitLands
  <2>1. /\ Goal \in sent /\ sent' \subseteq sent
        /\ Commit(Goal, "agent")
        /\ \/ \E p \in {CommitAnswer(Goal), Plain("failed")} : ShowsIfAwaited(p)
           \/ UNCHANGED browser
        /\ UNCHANGED <<assisted, phase, decision, seen, cycle, trace, artifact>>
    BY <1>a, <1>21 DEF CommitLands, Admitted
  <2>2. Goal \in Form /\ Goal.case = "goal"
    BY DEF Goal, Form, Value
  <2>12. Plain("failed") \in Pages /\ Plain("failed").kind = "failed"
    BY DEF Plain, Pages, Kinds, Form, Value, Untouched
  <2>3. page' = page \/ page' = CommitAnswer(Goal) \/ page' = Plain("failed")
    BY <2>1 DEF ShowsIfAwaited, Shows
  <2>4. awaiting' \in BOOLEAN
    BY <1>a, <2>1 DEF TypeOK, ShowsIfAwaited, Shows
  <2>5. TypeOK'
    <3>1. /\ rows' \in [Value -> Credit \cup {NoCredit}] /\ CommitAnswer(Goal) \in Pages
          /\ by' \in [Value -> {"nobody", "earlier", "agent", "human"}]
      BY <1>a, <2>1, <2>2, CommitEffect
    <3> QED
      BY <1>a, <2>1, <2>3, <2>4, <2>12, <3>1 DEF TypeOK, Pages, Commit
  <2>6. AgentCreditsGoal'
    BY <1>a, <2>1, <2>2, CommitEffect, DiscoveryAssumption
    DEF AgentCreditsGoal, Admitted, SignedOff, Commit, TypeOK, Credit, CreditOf, Goal, Value
  <2>7. CreditOf(Goal) # NoCredit
    BY DiscoveryAssumption DEF CreditOf, Goal
  <2>8. rows["goal"] = CreditOf(Goal) => rows'["goal"] = CreditOf(Goal)
    BY <1>a, <2>1, <2>2, <2>7, CommitEffect DEF Value
  <2>9. page'.kind = "receipt" => page' = page \/ rows'["goal"] = CreditOf(Goal)
    BY <1>a, <2>1, <2>2, <2>3, <2>12, CommitEffect
  <2>10. Backed'
    BY <1>a, <2>1, <2>8, <2>9 DEF Backed
  <2>11. Admitted' /\ Recorded' /\ Filed'
    BY <1>a, <2>1, <2>2, <2>3, <2>12, CommitEffect
    DEF Admitted, SignedOff, Recorded, Filed, Complete, Commit, Value
  <2> QED
    BY <1>c, <2>5, <2>6, <2>10, <2>11 DEF DiscoveryInv
<1>22. CASE CommitLost
  <2>1. /\ sent' \subseteq sent /\ sent # {}
        /\ ShowsIfAwaited(Plain("failed"))
        /\ UNCHANGED <<bank, assisted, phase, decision, seen, cycle, trace, artifact>>
    BY <1>22 DEF CommitLost
  <2>2. page' = page \/ page' = Plain("failed")
    BY <2>1 DEF ShowsIfAwaited, Shows
  <2>3. Plain("failed") \in Pages /\ Plain("failed").kind = "failed"
    BY DEF Plain, Pages, Kinds, Form, Value, Untouched
  <2>4. awaiting' \in BOOLEAN
    BY <1>a, <2>1 DEF TypeOK, ShowsIfAwaited, Shows
  <2>5. TypeOK'
    BY <1>a, <2>1, <2>2, <2>3, <2>4 DEF TypeOK, Pages
  <2> QED
    BY <1>c, <1>a, <2>1, <2>2, <2>3, <2>5
    DEF DiscoveryInv, Admitted, SignedOff, AgentCreditsGoal, Recorded, Filed, Complete, Backed
<1>23. CASE AppendCycle
  <2>1. TypeOK'
    <3>1. evidence' \in BOOLEAN
      BY <1>23, Zenon DEF AppendCycle, record_cycle
    <3> QED
      BY <1>a, <1>23, <3>1 DEF TypeOK, Phases, AppendCycle, record_cycle
  <2>2. UNCHANGED <<sent, bank, assisted, page>>
    BY <1>23 DEF AppendCycle, record_cycle
  <2>3. Recorded' /\ Filed' /\ Backed'
    BY <1>a, <1>23 DEF Recorded, Filed, Backed, AppendCycle, record_cycle
  <2> QED
    BY <1>c, <2>1, <2>2, <2>3, BrowserStep DEF DiscoveryInv
<1>24. CASE AppendFailure
  <2>1. TypeOK'
    <3>1. evidence' \in BOOLEAN
      BY <1>24, Zenon DEF AppendFailure, record_cycle
    <3> QED
      BY <1>a, <1>24, <3>1 DEF TypeOK, Phases, AppendFailure, record_cycle
  <2>2. UNCHANGED <<sent, bank, assisted, page>>
    BY <1>24 DEF AppendFailure, record_cycle
  <2>3. Recorded' /\ Filed' /\ Backed'
    BY <1>a, <1>24 DEF Recorded, Filed, Backed, AppendFailure, record_cycle
  <2> QED
    BY <1>c, <2>1, <2>2, <2>3, BrowserStep DEF DiscoveryInv
<1>25. CASE ReturnTrace
  <2>1. TypeOK'
    BY <1>a, <1>25 DEF TypeOK, Phases, Ended, ReturnTrace, Complete
  <2>2. UNCHANGED <<sent, bank, assisted, page>>
    BY <1>25 DEF ReturnTrace
  <2>3. Recorded' /\ Filed' /\ Backed'
    BY <1>a, <1>25 DEF Recorded, Filed, Complete, Backed, ReturnTrace
  <2> QED
    BY <1>c, <2>1, <2>2, <2>3, BrowserStep DEF DiscoveryInv
<1>26. CASE RunRaises
  <2>1. TypeOK'
    BY <1>a, <1>26 DEF TypeOK, Phases, Ended, RunRaises
  <2>2. UNCHANGED <<sent, bank, assisted, page>>
    BY <1>26 DEF RunRaises
  <2>3. Recorded' /\ Filed' /\ Backed'
    BY <1>a, <1>26 DEF Recorded, Filed, Complete, Backed, RunRaises
  <2> QED
    BY <1>c, <2>1, <2>2, <2>3, BrowserStep DEF DiscoveryInv
<1>27. CASE UNCHANGED vars
  BY <1>a, <1>c, <1>27
  DEF DiscoveryInv, TypeOK, Admitted, SignedOff, AgentCreditsGoal, Recorded, Filed, Complete, Backed, vars
<1> QED
  BY <1>1, <1>2, <1>3, <1>4, <1>5, <1>6, <1>7, <1>8, <1>9, <1>10, <1>11,
     <1>12, <1>13, <1>14, <1>15, <1>16, <1>17, <1>18, <1>19, <1>20, <1>21,
     <1>22, <1>23, <1>24, <1>25, <1>26, <1>27
  DEF Next, Agent, Human

-----------------------------------------------------------------------------
\* DiscoveryInv holds in every reachable state, for every number of cycles.
THEOREM DiscoveryInductive == Spec => []DiscoveryInv
BY InitInv, NextInv, PTL DEF Spec

\* A credit the agent posts is the caller's and past the sign-off: the guard is
\* the only way into `sent`, and a form opens only past the interstitial.
THEOREM AgentCreditsGoalHolds == Spec => []AgentCreditsGoal
<1>1. DiscoveryInv => AgentCreditsGoal
  BY DEF DiscoveryInv
<1> QED
  BY <1>1, DiscoveryInductive, PTL

\* Money the agent moved is in trace.json, but for a run caught, or broken off,
\* in the cycle of its SUBMIT before it was recorded or in a rewrite of the file.
THEOREM NoSilentCreditHolds == Spec => []NoSilentCredit
<1>1. DiscoveryInv => NoSilentCredit
  BY DEF DiscoveryInv, Recorded, Filed, Complete, NoSilentCredit, TypeOK
<1> QED
  BY <1>1, DiscoveryInductive, PTL

\* A compiled capability has a SUBMIT in trace.json behind it and, unless a person pressed a
\* commit, the caller's credit at the core bank.
THEOREM CompiledIsBackedHolds == Spec => []CompiledIsBacked
<1>1. DiscoveryInv => CompiledIsBacked
  BY DEF DiscoveryInv, Recorded, Filed, Complete, Rewriting, Broken, Backed, CompiledIsBacked
<1> QED
  BY <1>1, DiscoveryInductive, PTL
=============================================================================

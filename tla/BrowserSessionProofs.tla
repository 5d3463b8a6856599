------------------------ MODULE BrowserSessionProofs ------------------------
(***************************************************************************)
(* For any requests, owners and number of lease changes: what is audited   *)
(* operated the page, once, and no retry overtakes the command it retries. *)
(***************************************************************************)
EXTENDS BrowserSession, TLAPS

Queued(r) == \E i \in 1..Len(commands) : commands[i] = r
Operated(r) == \E i \in 1..Len(page) : page[i] = r

\* A request is queued once, by its handler, and is then in the queue, in the
\* thread's hands, on the page or failed, and in one of these only.
OnePlace ==
    /\ \A r \in Requests :
          /\ pc[r] \in {"new", "made", "admitted", "found"} =>
                ~Queued(r) /\ thread # r /\ ~Operated(r)
          /\ Queued(r) => thread # r /\ ~Operated(r)
          /\ thread = r => ~Operated(r)
    /\ \A i, j \in 1..Len(commands) :
          commands[i] \in Requests /\ commands[i] = commands[j] => i = j
    /\ \A i, j \in 1..Len(page) : page[i] = page[j] => i = j

\* A request that was over when another one was made stays ahead of it all the
\* way from the queue to the page.
StaysAhead ==
    \A r \in Requests : \A q \in earlier[r] :
        /\ q # r /\ pc[q] \in Ended
        /\ \A i, j \in 1..Len(commands) : commands[i] = r /\ commands[j] = q => j < i
        /\ thread = r => ~Queued(q)
        /\ Operated(r) => ~Queued(q) /\ thread # q
        /\ \A i, j \in 1..Len(page) : page[i] = r /\ page[j] = q => j < i

\* An answer that says "ok" is of a command that operated the page
Answered ==
    /\ \A r \in Requests : response[r] = "ok" => Operated(r)
    /\ \A r \in audit : Operated(r)

SessionInv == TypeOK /\ OnePlace /\ StaysAhead /\ Answered

-----------------------------------------------------------------------------
LEMMA SessionInit == Init => SessionInv
  <1> SUFFICES ASSUME Init PROVE SessionInv
    OBVIOUS
  <1> USE SessionAssumption DEF Init
  <1>1. TypeOK
    <2>1. lease \in [owner : Owners, token : 0..MaxToken, active : BOOLEAN]
      <3>1. 0 \in 0..MaxToken
        OBVIOUS
      <3>2. PICK o \in Owners : lease = [owner |-> o, token |-> 0, active |-> FALSE]
        OBVIOUS
      <3> QED BY <3>1, <3>2, Zenon
    <2>2. tok \in [Requests -> 0..MaxToken]
      BY SMT
    <2>3. commands \in Seq(Requests \cup {CLOSE}) /\ page \in Seq(Requests)
      BY SMT
    <2> QED BY <2>1, <2>2, <2>3, Zenon DEF TypeOK
  <1>2. OnePlace
    BY DEF OnePlace, Queued, Operated
  <1>3. StaysAhead
    BY DEF StaysAhead
  <1>4. Answered
    BY DEF Answered
  <1> QED BY <1>1, <1>2, <1>3, <1>4 DEF SessionInv

\* The queue and the page read the same after a step that leaves them alone
LEMMA QuietStep ==
    ASSUME SessionInv, TypeOK', UNCHANGED <<commands, thread, response, page, earlier>>,
           \A r \in Requests :
              /\ pc'[r] \in {"new", "made", "admitted", "found"} =>
                    pc[r] \in {"new", "made", "admitted", "found"}
              /\ pc[r] \in Ended => pc'[r] \in Ended,
           \A r \in audit' : r \in audit \/ response[r] = "ok"
    PROVE  SessionInv'
  <1> USE DEF SessionInv
  <1>1. /\ \A r : Queued(r)' <=> Queued(r)
        /\ \A r : Operated(r)' <=> Operated(r)
    BY DEF Queued, Operated
  <1>2. OnePlace'
    BY <1>1 DEF OnePlace
  <1>3. StaysAhead'
    <2>1. \A r \in Requests : earlier[r] \subseteq Requests
      BY DEF TypeOK
    <2> QED BY <1>1, <2>1 DEF StaysAhead
  <1>4. Answered'
    BY <1>1 DEF Answered, TypeOK
  <1> QED BY <1>2, <1>3, <1>4

LEMMA LeaseStep ==
    ASSUME SessionInv, (\E o \in Owners : AcquireLease(o)) \/ LeaseEnds
    PROVE  SessionInv'
  <1>1. lease' \in [owner : Owners, token : 0..MaxToken, active : BOOLEAN]
    <2>1. ASSUME NEW o \in Owners, AcquireLease(o)
          PROVE  lease' \in [owner : Owners, token : 0..MaxToken, active : BOOLEAN]
      <3>1. lease.token + 1 \in 0..MaxToken
        BY <2>1, SessionAssumption DEF SessionInv, TypeOK, AcquireLease
      <3> QED BY <2>1, <3>1, Zenon DEF AcquireLease
    <2>2. LeaseEnds => lease' \in [owner : Owners, token : 0..MaxToken, active : BOOLEAN]
      BY DEF SessionInv, TypeOK, LeaseEnds
    <2> QED BY <2>1, <2>2
  <1>2. TypeOK'
    BY <1>1 DEF SessionInv, TypeOK, AcquireLease, LeaseEnds, worker
  <1> QED BY <1>2, QuietStep DEF AcquireLease, LeaseEnds, worker

\* A handler's steps, but for the first and the one that queues the command
LEMMA HandlerStep ==
    ASSUME SessionInv, NEW r \in Requests,
           Admit(r) \/ FindWorker(r) \/ Receive(r) \/ TimeOut(r)
    PROVE  SessionInv'
  <1> USE DEF SessionInv, TypeOK, Goto, worker, Ended
  <1>1. CASE Admit(r)
    <2>1. TypeOK'
      BY <1>1 DEF Admit
    <2> QED BY <1>1, <2>1, QuietStep DEF Admit
  <1>2. CASE FindWorker(r)
    <2>1. TypeOK'
      BY <1>2 DEF FindWorker
    <2> QED BY <1>2, <2>1, QuietStep DEF FindWorker
  <1>3. CASE Receive(r)
    <2>1. TypeOK'
      BY <1>3 DEF Receive
    <2> QED BY <1>3, <2>1, QuietStep DEF Receive
  <1>4. CASE TimeOut(r)
    <2>1. TypeOK'
      BY <1>4 DEF TimeOut
    <2> QED BY <1>4, <2>1, QuietStep DEF TimeOut
  <1> QED BY <1>1, <1>2, <1>3, <1>4

\* A new request has those behind it that are over
LEMMA MakeStep ==
    ASSUME SessionInv, NEW r \in Requests, MakeRequest(r)
    PROVE  SessionInv'
  <1> USE DEF SessionInv, MakeRequest, Goto, worker, Ended
  <1>1. TypeOK'
    BY DEF TypeOK
  <1>2. OnePlace'
    BY DEF TypeOK, OnePlace, Queued, Operated
  <1>3. StaysAhead'
    BY DEF TypeOK, OnePlace, StaysAhead, Queued, Operated
  <1>4. Answered'
    BY DEF TypeOK, Answered, Operated
  <1> QED BY <1>1, <1>2, <1>3, <1>4

\* Appending to a sequence keeps what was there and adds one at the end
LEMMA Appended ==
    ASSUME NEW S, NEW s \in Seq(S), NEW x \in S
    PROVE  /\ Append(s, x) \in Seq(S)
           /\ Len(Append(s, x)) = Len(s) + 1 /\ Len(s) \in Nat
           /\ \A i \in 1..Len(s) : Append(s, x)[i] = s[i]
           /\ Append(s, x)[Len(s) + 1] = x
  OBVIOUS

\* A command that joins the queue joins it behind all that is there
LEMMA PutStep ==
    ASSUME SessionInv, NEW x \in Requests \cup {CLOSE},
           commands' = Append(commands, x),
           x \in Requests => pc[x] = "found" /\ pc' = [pc EXCEPT ![x] = "waiting"],
           x = CLOSE => UNCHANGED pc,
           open' \in BOOLEAN,
           UNCHANGED <<lease, tok, thread, response, page, audit, earlier>>
    PROVE  SessionInv'
  <1> USE SessionAssumption DEF SessionInv
  <1>1. /\ commands \in Seq(Requests \cup {CLOSE})
        /\ commands' \in Seq(Requests \cup {CLOSE})
        /\ Len(commands') = Len(commands) + 1 /\ Len(commands) \in Nat
        /\ \A i \in 1..Len(commands) : commands'[i] = commands[i]
        /\ commands'[Len(commands) + 1] = x
    BY Appended DEF TypeOK
  <1>2. \A i \in 1..Len(commands') :
            i \in 1..Len(commands) \/ (i = Len(commands) + 1 /\ commands'[i] = x)
    BY <1>1
  <1>3. \A r \in Requests : Queued(r)' <=> Queued(r) \/ r = x
    BY <1>1, <1>2 DEF Queued
  <1>4. \A r : Operated(r)' <=> Operated(r)
    BY DEF Operated
  <1>5. TypeOK'
    BY <1>1 DEF TypeOK
  <1>6. OnePlace'
    <2>1. \A r \in Requests :
            /\ pc'[r] \in {"new", "made", "admitted", "found"} =>
                  ~Queued(r)' /\ thread' # r /\ ~Operated(r)'
            /\ Queued(r)' => thread' # r /\ ~Operated(r)'
            /\ thread' = r => ~Operated(r)'
      BY <1>3, <1>4 DEF OnePlace, TypeOK
    <2>2. x \in Requests => ~Queued(x)
      BY DEF OnePlace
    <2>3. \A i, j \in 1..Len(commands') :
            commands'[i] \in Requests /\ commands'[i] = commands'[j] => i = j
      BY <1>1, <1>2, <2>2 DEF OnePlace, Queued
    <2> QED BY <2>1, <2>3 DEF OnePlace
  <1>7. StaysAhead'
    <2> SUFFICES ASSUME NEW r \in Requests, NEW q \in earlier[r]
                 PROVE  /\ q # r /\ pc'[q] \in Ended
                        /\ \A i, j \in 1..Len(commands') :
                              commands'[i] = r /\ commands'[j] = q => j < i
                        /\ thread = r => ~Queued(q)'
                        /\ Operated(r) => ~Queued(q)' /\ thread # q
                        /\ \A i, j \in 1..Len(page) : page[i] = r /\ page[j] = q => j < i
      BY <1>4 DEF StaysAhead
    <2>1. q \in Requests /\ pc[q] \in Ended /\ q # x
      BY DEF StaysAhead, TypeOK, Ended
    <2>2. pc'[q] = pc[q] /\ (Queued(q)' <=> Queued(q))
      BY <1>3, <2>1 DEF TypeOK
    <2>3. \A i, j \in 1..Len(commands') : commands'[i] = r /\ commands'[j] = q => j < i
      BY <1>1, <1>2, <2>1 DEF StaysAhead
    <2> QED BY <2>1, <2>2, <2>3 DEF StaysAhead
  <1>8. Answered'
    BY <1>4 DEF Answered
  <1> QED BY <1>5, <1>6, <1>7, <1>8

LEMMA TakeStep ==
    ASSUME SessionInv, TakeCommand
    PROVE  SessionInv'
  <1> USE SessionAssumption DEF SessionInv, TakeCommand
  <1>1. /\ commands \in Seq(Requests \cup {CLOSE}) /\ commands # <<>>
        /\ thread' = commands[1] /\ thread' \in Requests \cup {CLOSE}
        /\ commands' \in Seq(Requests \cup {CLOSE})
        /\ Len(commands) \in Nat /\ Len(commands) > 0
        /\ Len(commands') = Len(commands) - 1
        /\ \A i \in 1..Len(commands') : commands'[i] = commands[i + 1]
    BY DEF TypeOK
  <1>2. \A i \in 1..Len(commands') : i + 1 \in 1..Len(commands) /\ i + 1 # 1
    BY <1>1
  <1>3. 1 \in 1..Len(commands)
    BY <1>1
  <1>4. \A r : Operated(r)' <=> Operated(r)
    BY DEF Operated
  <1>5. \A r \in Requests : Queued(r)' => Queued(r)
    BY <1>1, <1>2 DEF Queued
  <1>6. \A r \in Requests : thread' = r => Queued(r) /\ ~Queued(r)'
    BY <1>1, <1>2, <1>3 DEF Queued, OnePlace
  <1>7. TypeOK'
    BY <1>1 DEF TypeOK
  <1>8. OnePlace'
    <2>1. \A i, j \in 1..Len(commands') :
            commands'[i] \in Requests /\ commands'[i] = commands'[j] => i = j
      <3> SUFFICES ASSUME NEW i \in 1..Len(commands'), NEW j \in 1..Len(commands'),
                          commands'[i] \in Requests, commands'[i] = commands'[j]
                   PROVE  i = j
        OBVIOUS
      <3>1. i + 1 = j + 1
        BY <1>1, <1>2 DEF OnePlace
      <3> QED BY <1>1, <3>1
    <2> QED BY <1>4, <1>5, <1>6, <2>1 DEF OnePlace
  <1>9. StaysAhead'
    <2> SUFFICES ASSUME NEW r \in Requests, NEW q \in earlier[r]
                 PROVE  /\ q # r /\ pc[q] \in Ended
                        /\ \A i, j \in 1..Len(commands') :
                              commands'[i] = r /\ commands'[j] = q => j < i
                        /\ thread' = r => ~Queued(q)'
                        /\ Operated(r) => ~Queued(q)' /\ thread' # q
                        /\ \A i, j \in 1..Len(page) : page[i] = r /\ page[j] = q => j < i
      BY <1>4 DEF StaysAhead
    <2>1. q \in Requests
      BY DEF TypeOK
    <2>2. ASSUME NEW i \in 1..Len(commands'), NEW j \in 1..Len(commands'),
                 commands'[i] = r, commands'[j] = q
          PROVE  j < i
      <3>1. j + 1 < i + 1
        BY <1>1, <1>2, <2>2 DEF StaysAhead
      <3> QED BY <1>1, <3>1
    <2>3. ASSUME thread' = r, Queued(q)' PROVE FALSE
      <3>1. PICK j \in 1..Len(commands') : commands'[j] = q
        BY <2>3 DEF Queued
      <3>2. j + 1 < 1
        BY <1>1, <1>2, <1>3, <2>3, <3>1 DEF StaysAhead
      <3> QED BY <1>1, <3>2
    <2>4. Operated(r) => ~Queued(q)' /\ thread' # q
      BY <1>5, <1>6, <2>1 DEF StaysAhead
    <2> QED BY <2>2, <2>3, <2>4 DEF StaysAhead
  <1>10. Answered'
    BY <1>4 DEF Answered
  <1> QED BY <1>7, <1>8, <1>9, <1>10

\* The thread's command comes to the page behind all that is there
LEMMA OperateStep ==
    ASSUME SessionInv, NEW answer \in {"ok", "failed"}, OperatePage(answer)
    PROVE  SessionInv'
  <1> USE SessionAssumption DEF SessionInv, OperatePage
  <1>1. /\ page \in Seq(Requests) /\ page' \in Seq(Requests)
        /\ Len(page') = Len(page) + 1 /\ Len(page) \in Nat
        /\ \A i \in 1..Len(page) : page'[i] = page[i]
        /\ page'[Len(page) + 1] = thread
    BY Appended DEF TypeOK
  <1>2. \A i \in 1..Len(page') :
            i \in 1..Len(page) \/ (i = Len(page) + 1 /\ page'[i] = thread)
    BY <1>1
  <1>3. \A r \in Requests : Operated(r)' <=> Operated(r) \/ r = thread
    BY <1>1, <1>2 DEF Operated
  <1>4. \A r : Queued(r)' <=> Queued(r)
    BY DEF Queued
  <1>5. ~Operated(thread) /\ ~Queued(thread) /\ thread' = NoRequest
    BY DEF OnePlace
  <1>6. TypeOK'
    BY <1>1 DEF TypeOK
  <1>7. OnePlace'
    <2>1. \A i, j \in 1..Len(page') : page'[i] = page'[j] => i = j
      <3>1. \A i \in 1..Len(page) : page[i] # thread
        BY <1>5 DEF Operated
      <3>2. \A i, j \in 1..Len(page) : page[i] = page[j] => i = j
        BY DEF OnePlace
      <3> HIDE DEF OperatePage, SessionInv
      <3> QED BY <1>1, <1>2, <3>1, <3>2
    <2>2. \A r \in Requests :
            /\ pc[r] \in {"new", "made", "admitted", "found"} =>
                  ~Queued(r) /\ thread' # r /\ ~Operated(r)'
            /\ Queued(r) => thread' # r /\ ~Operated(r)'
            /\ thread' = r => ~Operated(r)'
      BY <1>3, <1>5 DEF OnePlace
    <2> QED BY <1>4, <2>1, <2>2 DEF OnePlace
  <1>8. StaysAhead'
    <2> SUFFICES ASSUME NEW r \in Requests, NEW q \in earlier[r]
                 PROVE  /\ q # r /\ pc[q] \in Ended
                        /\ \A i, j \in 1..Len(commands) :
                              commands[i] = r /\ commands[j] = q => j < i
                        /\ thread' = r => ~Queued(q)
                        /\ Operated(r)' => ~Queued(q) /\ thread' # q
                        /\ \A i, j \in 1..Len(page') : page'[i] = r /\ page'[j] = q => j < i
      BY <1>4 DEF StaysAhead
    <2>1. q \in Requests
      BY DEF TypeOK
    <2>2. Operated(r)' => ~Queued(q) /\ thread' # q
      BY <1>3, <1>5, <2>1 DEF StaysAhead
    <2>3. ASSUME NEW i \in 1..Len(page'), NEW j \in 1..Len(page'), page'[i] = r, page'[j] = q
          PROVE  j < i
      <3>1. CASE i = Len(page) + 1
        <4>1. thread = r
          BY <1>1, <2>3, <3>1
        <4>2. r \notin earlier[r]
          BY <4>1 DEF StaysAhead, OnePlace
        <4> QED BY <1>1, <1>2, <2>3, <3>1, <4>1, <4>2
      <3>2. CASE i \in 1..Len(page)
        <4>1. Operated(r)
          BY <1>1, <2>3, <3>2 DEF Operated
        <4>2. j \in 1..Len(page)
          BY <1>2, <2>3, <4>1 DEF StaysAhead
        <4> QED BY <1>1, <2>3, <3>2, <4>2 DEF StaysAhead
      <3> QED BY <1>2, <3>1, <3>2
    <2> QED BY <1>5, <2>2, <2>3 DEF StaysAhead
  <1>9. Answered'
    BY <1>3 DEF Answered, TypeOK
  <1> QED BY <1>6, <1>7, <1>8, <1>9

LEMMA FailStep ==
    ASSUME SessionInv, CommandFails
    PROVE  SessionInv'
  <1> USE SessionAssumption DEF SessionInv, CommandFails
  <1>1. /\ \A r : Queued(r)' <=> Queued(r)
        /\ \A r : Operated(r)' <=> Operated(r)
    BY DEF Queued, Operated
  <1>2. TypeOK'
    BY DEF TypeOK
  <1>3. OnePlace'
    BY <1>1 DEF OnePlace
  <1>4. StaysAhead'
    <2>1. \A r \in Requests : earlier[r] \subseteq Requests
      BY DEF TypeOK
    <2> QED BY <1>1, <2>1 DEF StaysAhead
  <1>5. Answered'
    BY <1>1 DEF Answered, TypeOK
  <1> QED BY <1>2, <1>3, <1>4, <1>5

-----------------------------------------------------------------------------
\* SessionInv is inductive: a command has one place at a time, and those that
\* were over when it was made are ahead of it in the queue, the thread and the
\* page.
THEOREM SessionInductive == Spec => []SessionInv
  <1>1. SessionInv /\ [Next]_vars => SessionInv'
    <2> SUFFICES ASSUME SessionInv, [Next]_vars PROVE SessionInv'
      OBVIOUS
    <2>1. ASSUME NEW r \in Requests, PutCommand(r) PROVE SessionInv'
      BY <2>1, PutStep, SessionAssumption DEF PutCommand, Goto, SessionInv, TypeOK
    <2>2. CASE CloseSession
      BY <2>2, PutStep, SessionAssumption DEF CloseSession
    <2>3. CASE Work
      BY <2>3, TakeStep, OperateStep, FailStep DEF Work
    <2>4. CASE UNCHANGED vars
      <3>1. TypeOK'
        BY <2>4 DEF vars, worker, SessionInv, TypeOK
      <3> QED BY <2>4, <3>1, QuietStep DEF vars, worker
    <2> QED
      BY <2>1, <2>2, <2>3, <2>4, LeaseStep, HandlerStep, MakeStep DEF Next, Handle
  <1> QED BY <1>1, SessionInit, PTL DEF Spec

\* Every BROWSER_ACTION_EXECUTED event is of a command that operated the page,
\* once, for any number of requests, timeouts and lease changes.
THEOREM AuditedOnceHolds == Spec => []AuditedOnce
  <1>1. SessionInv => AuditedOnce
    BY DEF SessionInv, Answered, OnePlace, Operated, AuditedOnce
  <1> QED BY <1>1, SessionInductive, PTL

\* A request never overtakes one that was over when it was made, for any number
\* of requests and lease changes.
THEOREM NoOvertakingHolds == Spec => []NoOvertaking
  <1>1. SessionInv => NoOvertaking
    BY DEF SessionInv, TypeOK, StaysAhead, NoOvertaking
  <1> QED BY <1>1, SessionInductive, PTL
=============================================================================

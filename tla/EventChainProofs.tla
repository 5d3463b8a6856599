-------------------------- MODULE EventChainProofs --------------------------
(***************************************************************************)
(* The event chain of a case is never broken, for any number of writers,   *)
(* of processes that start meanwhile, and of events.                       *)
(***************************************************************************)
EXTENDS EventChain, SequenceTheorems, TLAPS

USE ChainAssumption

\* A new event on the stream: what stays at every position, and the last one
LEMMA Appended ==
    ASSUME TypeOK, NEW e \in Event, log' = Append(log, e)
    PROVE  /\ log' \in Seq(Event)
           /\ Len(log') = Len(log) + 1
           /\ \A i \in 1..Len(log) : log'[i] = log[i]
           /\ log'[Len(log) + 1] = e
           /\ \A n \in 0..Len(log) : HeadAt(n)' = HeadAt(n)
  BY DEF TypeOK, HeadAt

\* A rollback leaves the committed events at their positions
LEMMA Undone ==
    ASSUME TypeOK, log' = SubSeq(log, 1, durable)
    PROVE  /\ log' \in Seq(Event)
           /\ Len(log') = durable
           /\ \A i \in 1..durable : log'[i] = log[i]
           /\ \A n \in 0..durable : HeadAt(n)' = HeadAt(n)
  <1>1. durable \in Nat /\ durable <= Len(log) /\ log \in Seq(Event)
    BY DEF TypeOK
  <1>2. log' \in Seq(Event) /\ Len(log') = durable
    BY <1>1, SMT
  <1>3. \A i \in 1..durable : log'[i] = log[i]
    BY <1>1, SMT
  <1> QED
    BY <1>1, <1>2, <1>3 DEF HeadAt

\* Where the stream is untouched, so is the event a head points at
LEMMA Untouched ==
    ASSUME log' = log
    PROVE  \A n : HeadAt(n)' = HeadAt(n)
  BY DEF HeadAt

\* The heads a ChainInv state gives are heads
LEMMA HeadType ==
    ASSUME TypeOK, verify_event_chain, NEW n \in 0..Len(log)
    PROVE  HeadAt(n) \in StreamHead /\ HeadAt(n).last_sequence = n
  <1>1. CASE n = 0
    BY <1>1 DEF HeadAt, StreamHead, NewHead
  <1>2. CASE n \in 1..Len(log)
    <2>1. log[n] \in Event /\ n # 0
      BY <1>2 DEF TypeOK
    <2>2. log[n].sequence = n
      BY <1>2 DEF verify_event_chain
    <2>3. log[n].sequence \in Nat /\ log[n].digest \in Digests
      BY <2>1 DEF Event
    <2> QED BY <2>1, <2>2, <2>3 DEF HeadAt, StreamHead
  <1> QED BY <1>1, <1>2 DEF TypeOK

-----------------------------------------------------------------------------
LEMMA ChainInit == Init => ChainInv
  BY DEF Init, ChainInv, TypeOK, verify_event_chain, HeadsInStream, HeadAt,
         StreamHead, NewHead, Boot

LEMMA AppendStep ==
    ASSUME ChainInv, NEW w \in Writers, NEW digest \in Digests, RecordEvent(w, digest)
    PROVE  ChainInv'
  <1> USE DEF ChainInv
  <1>1. head = HeadAt(Len(log))
    <2>1. head.last_sequence \in 0..Len(log) /\ head = HeadAt(head.last_sequence)
      BY DEF HeadsInStream
    <2>2. head.last_sequence = Len(log)
      <3> SUFFICES ASSUME head.last_sequence + 1 \in 1..Len(log) PROVE FALSE
        BY <2>1 DEF TypeOK
      <3> QED BY DEF RecordEvent, Taken, verify_event_chain
    <2> QED BY <2>1, <2>2
  <1>2. head.last_sequence = Len(log)
    BY <1>1, HeadType DEF TypeOK
  <1>3. NextEvent(digest) \in Event
    BY DEF TypeOK, StreamHead, NextEvent, Event
  <1>4. /\ log' \in Seq(Event)
        /\ Len(log') = Len(log) + 1
        /\ \A i \in 1..Len(log) : log'[i] = log[i]
        /\ log'[Len(log) + 1] = NextEvent(digest)
        /\ \A n \in 0..Len(log) : HeadAt(n)' = HeadAt(n)
    BY <1>3, Appended DEF RecordEvent
  <1>5. TypeOK'
    BY <1>4 DEF TypeOK, RecordEvent, StreamHead
  <1>6. verify_event_chain'
    <2> SUFFICES ASSUME NEW i \in 1..(Len(log) + 1)
                 PROVE  /\ log'[i].sequence = i
                        /\ log'[i].previous =
                             IF i = 1 THEN GENESIS_HASH ELSE log'[i - 1].digest
      BY <1>4 DEF verify_event_chain
    <2>1. CASE i \in 1..Len(log)
      <3>1. log'[i] = log[i] /\ (i # 1 => i - 1 \in 1..Len(log) /\ log'[i - 1] = log[i - 1])
        BY <1>4, <2>1 DEF TypeOK
      <3> QED BY <2>1, <3>1 DEF verify_event_chain
    <2>2. CASE i = Len(log) + 1
      BY <1>1, <1>2, <1>4, <2>2 DEF NextEvent, HeadAt, NewHead, TypeOK
    <2> QED BY <2>1, <2>2 DEF TypeOK
  <1>7. HeadsInStream'
    <2>1. HeadAt(Len(log))' = head'
      BY <1>2, <1>4 DEF HeadAt, RecordEvent, NextEvent, TypeOK
    <2>2. head'.last_sequence = Len(log) + 1
      BY <1>2 DEF RecordEvent
    <2>3. head'.last_sequence \in 0..Len(log') /\ head' = HeadAt(head.last_sequence)'
      BY <1>4, <2>1, <2>2 DEF TypeOK
    <2>4. lock' = w /\ w # NoWriter
      BY DEF RecordEvent
    <2> QED
      BY <1>4, <2>3, <2>4 DEF HeadsInStream, RecordEvent, TypeOK
  <1> QED BY <1>5, <1>6, <1>7

LEMMA UndoStep ==
    ASSUME ChainInv, Undo
    PROVE  ChainInv'
  <1> USE DEF ChainInv
  <1>1. /\ log' \in Seq(Event)
        /\ Len(log') = durable
        /\ \A i \in 1..durable : log'[i] = log[i]
        /\ \A n \in 0..durable : HeadAt(n)' = HeadAt(n)
    BY Undone DEF Undo
  <1>2. TypeOK'
    BY <1>1 DEF TypeOK, Undo
  <1>3. verify_event_chain'
    <2> SUFFICES ASSUME NEW i \in 1..durable
                 PROVE  /\ log'[i].sequence = i
                        /\ log'[i].previous =
                             IF i = 1 THEN GENESIS_HASH ELSE log'[i - 1].digest
      BY <1>1 DEF verify_event_chain
    <2>1. /\ i \in 1..Len(log) /\ log'[i] = log[i]
          /\ i # 1 => log'[i - 1] = log[i - 1]
      BY <1>1 DEF TypeOK
    <2> QED BY <2>1 DEF verify_event_chain
  <1>4. HeadsInStream'
    BY <1>1 DEF HeadsInStream, Undo, TypeOK
  <1> QED BY <1>2, <1>3, <1>4

LEMMA CommitStep ==
    ASSUME ChainInv, NEW w \in Writers, Commit(w)
    PROVE  ChainInv'
  <1> USE DEF ChainInv, Commit
  <1>1. TypeOK'
    BY DEF TypeOK
  <1>2. verify_event_chain'
    BY DEF verify_event_chain
  <1>3. HeadsInStream'
    BY Untouched DEF HeadsInStream, TypeOK
  <1> QED BY <1>1, <1>2, <1>3

LEMMA MigrateStep ==
    ASSUME ChainInv, NEW p \in Starters, MigrateRead(p) \/ MigrateWrite(p)
    PROVE  ChainInv'
  <1> USE DEF ChainInv
  <1>0. NewHead \in StreamHead /\ NewHead.last_sequence = 0 /\ HeadAt(0) = NewHead
    BY DEF NewHead, StreamHead, HeadAt
  <1>1. verify_event_chain'
    BY DEF verify_event_chain, MigrateRead, MigrateWrite
  <1>2. CASE MigrateRead(p)
    <2>1. HeadAt(durable) \in StreamHead /\ HeadAt(durable).last_sequence = durable
      BY HeadType DEF TypeOK
    <2>2. boot' = [boot EXCEPT ![p] = [step |-> "read", last |-> HeadAt(durable)]]
      BY <1>2 DEF MigrateRead
    <2>3. TypeOK'
      BY <1>2, <2>1, <2>2 DEF MigrateRead, TypeOK, Boot
    <2>4. \A q \in Starters : /\ boot'[q].last.last_sequence \in 0..durable
                              /\ boot'[q].last = HeadAt(boot'[q].last.last_sequence)
      BY <2>1, <2>2 DEF TypeOK, HeadsInStream
    <2>5. HeadsInStream'
      BY <1>2, <2>4, Untouched DEF HeadsInStream, MigrateRead
    <2> QED BY <1>1, <2>3, <2>5
  <1>3. CASE MigrateWrite(p)
    <2>1. boot' = [boot EXCEPT ![p] = [step |-> "up", last |-> NewHead]]
      BY <1>3 DEF MigrateWrite
    <2>2. TypeOK'
      BY <1>0, <1>3, <2>1 DEF MigrateWrite, TypeOK, Boot
    <2>3. \A q \in Starters : /\ boot'[q].last.last_sequence \in 0..durable
                              /\ boot'[q].last = HeadAt(boot'[q].last.last_sequence)
      BY <1>0, <2>1 DEF TypeOK, HeadsInStream
    <2>4. /\ durableHead'.last_sequence \in 0..durable
          /\ durableHead' = HeadAt(durableHead'.last_sequence)
      BY <1>3 DEF MigrateWrite, HeadsInStream
    <2>5. HeadsInStream'
      BY <1>3, <2>3, <2>4, Untouched DEF HeadsInStream, MigrateWrite, TypeOK
    <2> QED BY <1>1, <2>2, <2>5
  <1> QED BY <1>2, <1>3

\* ChainInv is inductive: whoever appends, fails or starts, and in whatever
\* order, the stream is a chain and every head points into it.
THEOREM ChainInductive == Spec => []ChainInv
  <1>1. ChainInv /\ [Next]_vars => ChainInv'
    <2> SUFFICES ASSUME ChainInv, [Next]_vars PROVE ChainInv'
      OBVIOUS
    <2>1. CASE UNCHANGED vars
      BY <2>1, Untouched DEF vars, ChainInv, TypeOK, verify_event_chain, HeadsInStream
    <2>2. CASE Next
      <3>1. ASSUME NEW w \in Writers, NEW digest \in Digests, RecordEvent(w, digest)
            PROVE  ChainInv'
        BY <3>1, AppendStep
      <3>2. ASSUME NEW w \in Writers, Commit(w) PROVE ChainInv'
        BY <3>2, CommitStep
      <3>3. ASSUME NEW w \in Writers, Rollback(w) \/ RecordEventFails(w) PROVE ChainInv'
        BY <3>3, UndoStep DEF Rollback, RecordEventFails
      <3>4. ASSUME NEW p \in Starters, MigrateRead(p) \/ MigrateWrite(p) PROVE ChainInv'
        BY <3>4, MigrateStep
      <3> QED BY <2>2, <3>1, <3>2, <3>3, <3>4 DEF Next
    <2> QED BY <2>1, <2>2
  <1> QED BY <1>1, ChainInit, PTL DEF Spec

\* verify_event_chain reports a valid chain in every reachable state, the
\* rolled-back stream heads of a start included: the unique index on the
\* sequence number keeps a stale head from forking the stream.
THEOREM ChainNeverBroken == Spec => []verify_event_chain
  <1>1. ChainInv => verify_event_chain
    BY DEF ChainInv
  <1> QED BY <1>1, ChainInductive, PTL

\* Until a process starts, the head is the last event and the next append
\* finds its sequence number free.
THEOREM HeadIsLastHolds == Spec => []HeadIsLast
  <1> DEFINE Off == \A p \in Starters : boot[p].step = "off"
             Last == head = HeadAt(Len(log)) /\ durableHead = HeadAt(durable)
  <1>1. Init => (Off => Last)
    BY DEF Init, HeadAt
  <1>2. ChainInv /\ (Off => Last) /\ [Next]_vars => (Off => Last)'
    <2> SUFFICES ASSUME ChainInv, Off => Last, [Next]_vars, Off' PROVE Last'
      OBVIOUS
    <2> USE DEF ChainInv
    <2>1. CASE UNCHANGED vars
      BY <2>1, Untouched DEF vars
    <2>2. ASSUME NEW w \in Writers, NEW digest \in Digests, RecordEvent(w, digest)
          PROVE  Last'
      <3>1. Off
        BY <2>2 DEF RecordEvent
      <3>2. head.last_sequence = Len(log)
        BY <3>1, HeadType DEF TypeOK
      <3>3. NextEvent(digest) \in Event
        BY DEF TypeOK, StreamHead, NextEvent, Event
      <3>4. /\ Len(log') = Len(log) + 1
            /\ log'[Len(log) + 1] = NextEvent(digest)
            /\ \A n \in 0..Len(log) : HeadAt(n)' = HeadAt(n)
        BY <2>2, <3>3, Appended DEF RecordEvent
      <3>5. HeadAt(Len(log))' = head'
        BY <2>2, <3>2, <3>4 DEF HeadAt, RecordEvent, NextEvent, TypeOK
      <3> QED BY <2>2, <3>1, <3>4, <3>5 DEF RecordEvent, TypeOK
    <2>3. ASSUME NEW w \in Writers, Commit(w) PROVE Last'
      BY <2>3, Untouched DEF Commit
    <2>4. ASSUME NEW w \in Writers, Rollback(w) \/ RecordEventFails(w) PROVE Last'
      BY <2>4, Undone DEF Rollback, RecordEventFails, Undo, TypeOK
    <2>5. ASSUME NEW p \in Starters, MigrateRead(p) \/ MigrateWrite(p) PROVE Last'
      BY <2>5 DEF MigrateRead, MigrateWrite, TypeOK
    <2> QED BY <2>1, <2>2, <2>3, <2>4, <2>5 DEF Next
  <1>3. ChainInv /\ (Off => Last) => HeadIsLast
    <2> SUFFICES ASSUME ChainInv, Off, Last PROVE Last /\ ~Taken(head.last_sequence + 1)
      BY DEF HeadIsLast
    <2>1. head.last_sequence = Len(log)
      BY HeadType DEF ChainInv, TypeOK
    <2> QED BY <2>1 DEF Taken, ChainInv, TypeOK, verify_event_chain
  <1> QED BY <1>1, <1>2, <1>3, ChainInductive, PTL DEF Spec
=============================================================================

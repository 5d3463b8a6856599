----------------------------- MODULE EventChain -----------------------------
(***************************************************************************)
(* The hash-chained event stream of one case: LedgerRepository's           *)
(* record_event and verify_event_chain (tandem/ledger/repository.py), run  *)
(* by several writers, and the part of init_db that sets the stream heads  *)
(* whenever a process starts (_migrate_event_stream in                     *)
(* tandem/ledger/database.py).                                             *)
(*                                                                         *)
(* SQLite gives the writer lock to the first write statement of a          *)
(* transaction and keeps it until commit or rollback; reads take no lock   *)
(* and see what is committed.  A digest is an abstract value, never given  *)
(* to two events of the stream.  The backfill of rows that predate the     *)
(* chain is left out: the stream starts with none.                         *)
(***************************************************************************)
EXTENDS Naturals, Sequences

CONSTANTS
    Writers,    \* sessions that append events
    Starters,   \* processes that start and run init_db
    NoWriter,   \* holder of the free writer lock
    Digests,    \* event hashes; their number bounds the stream
    GENESIS_HASH

ASSUME ChainAssumption ==
    /\ NoWriter \notin Writers
    /\ GENESIS_HASH \notin Digests

VARIABLES
    log,        \* procedure_events of the case: committed, then pending ones
    durable,    \* how many of them are committed
    head,       \* event_stream_heads row, as the lock's holder sees it
    durableHead,\* that row as committed
    lock,       \* the writer whose transaction holds the writer lock
    boot        \* per starter: not started, the heads it read, or up

vars == <<log, durable, head, durableHead, lock, boot>>

-----------------------------------------------------------------------------
Event == [sequence : Nat, previous : Digests \cup {GENESIS_HASH}, digest : Digests]
StreamHead == [last_sequence : Nat, last_event_hash : Digests \cup {GENESIS_HASH}]
NewHead == [last_sequence |-> 0, last_event_hash |-> GENESIS_HASH]
Boot == [step : {"off", "read", "up"}, last : StreamHead]

TypeOK ==
    /\ log \in Seq(Event)
    /\ durable \in 0..Len(log)
    /\ head \in StreamHead /\ durableHead \in StreamHead
    /\ lock \in Writers \cup {NoWriter}
    /\ boot \in [Starters -> Boot]

Init ==
    /\ log = <<>>
    /\ durable = 0
    /\ head = NewHead /\ durableHead = NewHead
    /\ lock = NoWriter
    /\ boot = [p \in Starters |-> [step |-> "off", last |-> NewHead]]

-----------------------------------------------------------------------------
\* the event of the last of the first n rows, as a stream head
HeadAt(n) ==
    IF n = 0 THEN NewHead
    ELSE [last_sequence |-> log[n].sequence, last_event_hash |-> log[n].digest]

\* Mutant: procedure_events has no unique index
Taken_never(sequence) == FALSE

\* the unique index on (case_id, sequence) refuses the row
Taken(sequence) == \E i \in 1..Len(log) : log[i].sequence = sequence

\* the event record_event builds from the head
NextEvent(digest) ==
    [sequence |-> head.last_sequence + 1, previous |-> head.last_event_hash, digest |-> digest]

\* Mutant: the head is left where it was
RecordEvent_headKept(w, digest) ==
    /\ lock \in {NoWriter, w}
    /\ \A i \in 1..Len(log) : log[i].digest # digest
    /\ ~Taken(head.last_sequence + 1)
    /\ lock' = w
    /\ log' = Append(log, NextEvent(digest))
    /\ UNCHANGED <<durable, head, durableHead, boot>>

\* The insert-or-ignore takes the lock, then the head is read, the event
\* inserted and the head advanced
RecordEvent(w, digest) ==
    /\ lock \in {NoWriter, w}
    /\ \A i \in 1..Len(log) : log[i].digest # digest
    /\ ~Taken(head.last_sequence + 1)
    /\ lock' = w
    /\ log' = Append(log, NextEvent(digest))
    /\ head' = [last_sequence |-> head.last_sequence + 1, last_event_hash |-> digest]
    /\ UNCHANGED <<durable, durableHead, boot>>

Commit(w) ==
    /\ lock = w
    /\ lock' = NoWriter
    /\ durable' = Len(log)
    /\ durableHead' = head
    /\ UNCHANGED <<log, head, boot>>

Undo ==
    /\ lock' = NoWriter
    /\ log' = SubSeq(log, 1, durable)
    /\ head' = durableHead
    /\ UNCHANGED <<durable, durableHead, boot>>

\* An exception or a crash ends the transaction
Rollback(w) == lock = w /\ Undo

\* IntegrityError: the next sequence number is taken; record_event raises and
\* the transaction is rolled back
RecordEventFails(w) ==
    /\ lock \in {NoWriter, w}
    /\ Taken(head.last_sequence + 1)
    /\ Undo

-----------------------------------------------------------------------------
(* init_db in a process that starts: the rows are read outside any write     *)
(* transaction, the upsert of the heads waits for the lock.                  *)

MigrateRead(p) ==
    /\ boot[p].step = "off"
    /\ boot' = [boot EXCEPT ![p] = [step |-> "read", last |-> HeadAt(durable)]]
    /\ UNCHANGED <<log, durable, head, durableHead, lock>>

\* a case without rows is not among those read
MigrateWrite(p) ==
    /\ boot[p].step = "read"
    /\ lock = NoWriter
    /\ durableHead' = IF boot[p].last = NewHead THEN durableHead ELSE boot[p].last
    /\ head' = durableHead'
    /\ boot' = [boot EXCEPT ![p] = [step |-> "up", last |-> NewHead]]
    /\ UNCHANGED <<log, durable, lock>>

Next ==
    \/ \E w \in Writers :
          \/ \E digest \in Digests : RecordEvent(w, digest)
          \/ Commit(w) \/ Rollback(w) \/ RecordEventFails(w)
    \/ \E p \in Starters : MigrateRead(p) \/ MigrateWrite(p)

Spec == Init /\ [][Next]_vars

-----------------------------------------------------------------------------
(* Properties *)

\* verify_event_chain finds the stream whole, with the pending events of a
\* transaction and without them: numbered from one without gap or repetition,
\* each event on the digest of the one before, whoever appends, fails or starts.
verify_event_chain ==
    \A i \in 1..Len(log) :
        /\ log[i].sequence = i
        /\ log[i].previous = IF i = 1 THEN GENESIS_HASH ELSE log[i - 1].digest

\* A head points at an event of its stream, if not always at the last one.
HeadsInStream ==
    /\ head.last_sequence \in 0..Len(log) /\ head = HeadAt(head.last_sequence)
    /\ durableHead.last_sequence \in 0..durable
    /\ durableHead = HeadAt(durableHead.last_sequence)
    /\ \A p \in Starters :
          boot[p].last.last_sequence \in 0..durable
          /\ boot[p].last = HeadAt(boot[p].last.last_sequence)
    /\ lock = NoWriter => durable = Len(log) /\ head = durableHead

ChainInv == TypeOK /\ verify_event_chain /\ HeadsInStream

\* repository.py record_event: "it acquires the writer lock before the stream
\* head is read, serializing competing appenders without a SELECT-then-INSERT
\* race".  That is so until a process starts: the head the writers share is the
\* last event of the stream, through every append, commit and rollback, and
\* whoever appends next finds its sequence number free.  (A starting process may
\* write back a head that an append has overtaken since it was read.)
HeadIsLast ==
    (\A p \in Starters : boot[p].step = "off") =>
        /\ head = HeadAt(Len(log)) /\ durableHead = HeadAt(durable)
        /\ ~Taken(head.last_sequence + 1)
=============================================================================

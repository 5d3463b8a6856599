--------------------------- MODULE TargetContract ---------------------------
(***************************************************************************)
(* What the effect engine counts on from a target system: a case has at    *)
(* most one record, a record stays as it was written until the target is   *)
(* reset, and a verdict given to a caller is true of the records at the    *)
(* moment it is given.  "applied" means that the record carries the effect *)
(* identity the caller asked about.                                        *)
(***************************************************************************)
CONSTANTS Requests, Cases, Identities, NoRecord

VARIABLES
    record,     \* per case: the effect identity on record, or NoRecord
    asked,      \* per request: the case and identity it is about
    verdict     \* per request: what its caller has been told

vars == <<record, asked, verdict>>

Verdicts == {"none", "applied", "absent", "refused", "unknown"}

Init ==
    /\ record = [c \in Cases |-> NoRecord]
    /\ asked \in [Requests -> [case : Cases, identity : Identities]]
    /\ verdict = [r \in Requests |-> "none"]

\* The effect of some request, or of a person at the target's own pages
Apply(c) ==
    /\ record[c] = NoRecord
    /\ \E i \in Identities : record' = [record EXCEPT ![c] = i]
    /\ UNCHANGED <<asked, verdict>>

Wipe ==
    /\ record' = [c \in Cases |-> NoRecord]
    /\ UNCHANGED <<asked, verdict>>

Tell(r) ==
    /\ verdict[r] = "none"
    /\ \/ /\ record[asked[r].case] = asked[r].identity
          /\ verdict' = [verdict EXCEPT ![r] = "applied"]
       \/ /\ record[asked[r].case] = NoRecord
          /\ verdict' = [verdict EXCEPT ![r] = "absent"]
       \/ \E v \in {"refused", "unknown"} : verdict' = [verdict EXCEPT ![r] = v]
    /\ UNCHANGED <<record, asked>>

Next == (\E c \in Cases : Apply(c)) \/ Wipe \/ (\E r \in Requests : Tell(r))

Spec == Init /\ [][Next]_vars
=============================================================================

--------------------------- MODULE EffectGuarantee ---------------------------
(***************************************************************************)
(* What the effect protocol promises about one irreversible effect, without *)
(* workers, leases, crashes or messages: the effect is open, held by one     *)
(* attempt, or finished; it happens at most once, only under an attempt that *)
(* is held or parked for a human, and an attempt is given up for another one *)
(* only if it has not happened.                                              *)
(***************************************************************************)
VARIABLES
    phase,      \* "open", "held", "parked", "confirmed" or "closed"
    effects     \* the attempts that reached the target

Init == phase = "open" /\ effects = {}

Admit   == phase = "open" /\ phase' = "held" /\ UNCHANGED effects
Happen  == /\ phase \in {"held", "parked"} /\ effects = {}
           /\ \E a \in effects' : effects' = {a}
           /\ UNCHANGED phase
Confirm == phase = "held" /\ effects # {} /\ phase' = "confirmed" /\ UNCHANGED effects
GiveUp  == /\ phase = "held" /\ effects = {}
           /\ phase' \in {"open", "closed"}
           /\ UNCHANGED effects
Park    == phase = "held" /\ phase' = "parked" /\ UNCHANGED effects

Next == Admit \/ Happen \/ Confirm \/ GiveUp \/ Park
Spec == Init /\ [][Next]_<<phase, effects>>
==============================================================================

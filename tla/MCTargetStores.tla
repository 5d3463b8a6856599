--------------------------- MODULE MCTargetStores ---------------------------
(***************************************************************************)
(* Two attempts at one case (an attempt and its retry, or two at once),    *)
(* beside a filing by hand.  The inputs differ in one thing each: the      *)
(* institution, the account or a detail; the filing, in the party.         *)
(***************************************************************************)
EXTENDS TargetStores, TLC
CONSTANTS c1
MCInputs ==
    LET Ask(inst, party, account, detail) ==
            [case |-> c1, inst |-> inst, party |-> party,
             account |-> account, detail |-> detail]
    IN {Ask("alpha", "p", TRUE, "d"), Ask("alpha", "p", TRUE, "e"),
        Ask("beta", "p", TRUE, "d"), Ask("beta", "p", FALSE, "d")}
MCHandInputs ==
    {[case |-> c1, inst |-> "alpha", party |-> "blank", account |-> TRUE, detail |-> "d"]}
Symmetry == Permutations(Requests) \cup Permutations(Refs)
=============================================================================

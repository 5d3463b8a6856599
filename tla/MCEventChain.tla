---------------------------- MODULE MCEventChain ----------------------------
(***************************************************************************)
(* Two writers compete for the lock while two processes start.  Five       *)
(* digests leave room for two transactions of two events each and one more *)
(***************************************************************************)
EXTENDS EventChain, TLC

\* writers, starters and digests are interchangeable
ChainSymmetry ==
    Permutations(Writers) \cup Permutations(Starters) \cup Permutations(Digests)
=============================================================================

------------------------- MODULE MCCaseProjections -------------------------
(***************************************************************************)
(* Two sessions are enough for a row to change between another session's   *)
(* load and its update.  Two statuses besides RECEIVED tell an update that *)
(* changes the column from one that does not, and a token bound of two has *)
(* a claim taken, left and retaken.                                        *)
(***************************************************************************)
EXTENDS CaseProjections, TLC

\* sessions are interchangeable
SessionSymmetry == Permutations(Sessions)
=============================================================================

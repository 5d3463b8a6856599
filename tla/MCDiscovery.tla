---------------------------- MODULE MCDiscovery ----------------------------
(***************************************************************************)
(* Seven cycles: the shortest run to a receipt takes six (entry, case,     *)
(* amount, review, commit, finish), which leaves one for a step that       *)
(* fails and is taken up by a person.                                      *)
(***************************************************************************)
EXTENDS Discovery
=============================================================================

----------------------------- MODULE MCRegECase -----------------------------
(***************************************************************************)
(* Three lives of the service: the case can crash twice and still be       *)
(* finished by the third.  The second life may begin beside the first, so  *)
(* every pair of concurrent tasks happens, and a restart after it.         *)
(***************************************************************************)
EXTENDS RegECase
=============================================================================

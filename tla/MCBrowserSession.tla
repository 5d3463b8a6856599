-------------------------- MODULE MCBrowserSession --------------------------
(***************************************************************************)
(* An operator with two requests and automation with one: enough for a     *)
(* request of each owner to be queued behind, or overtaken by, another     *)
(* owner's, and for the lease to go to the other owner and back.           *)
(***************************************************************************)
EXTENDS BrowserSession
CONSTANTS r1, automation, operator

MCOwnerOf == [r \in Requests |-> IF r = r1 THEN automation ELSE operator]
=============================================================================

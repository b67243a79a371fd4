----------------------------- MODULE MCApplications -----------------------------
(***************************************************************************)
(* The push consumers of one producer; two VoipClients, one of which knows  *)
(* the other; one pull caller.                                              *)
(***************************************************************************)
EXTENDS CallScenario, TLC

CONSTANTS c1, c2, x, y
OneCalls == (x :> {y}) @@ (y :> {})
===============================================================================

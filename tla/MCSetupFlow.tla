---------------------------- MODULE MCSetupFlow ----------------------------
(* The guided steps with two parts chosen anew and two page loads. *)
EXTENDS SetupFlow
=============================================================================

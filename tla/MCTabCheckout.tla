--------------------------- MODULE MCTabCheckout ---------------------------
(* Small instances of TabCheckout for TLC. *)
EXTENDS TabCheckout

=============================================================================

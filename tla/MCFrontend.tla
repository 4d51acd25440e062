----------------------------- MODULE MCFrontend -----------------------------
(* Values of the constants of Frontend for TLC. *)
EXTENDS Frontend
=============================================================================

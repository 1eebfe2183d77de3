----------------------------- MODULE MCCoreUpdate -----------------------------
(* Small instances of CoreUpdate. *)
EXTENDS CoreUpdate
=============================================================================

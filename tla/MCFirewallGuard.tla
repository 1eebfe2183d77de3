--------------------------- MODULE MCFirewallGuard ---------------------------
(* Small instances of FirewallGuard. *)
EXTENDS FirewallGuard
=============================================================================

---------------------------- MODULE MCInstaller -----------------------------
(***************************************************************************)
(* A small instance of Installer: the three processes of an installation,  *)
(* one other command, and what may be left of an earlier lock.             *)
(***************************************************************************)
EXTENDS Installer

\* No lock, or one whose owner is gone; a lock without a pid comes of a death.
Leftovers == {NoDir, Gone}

\* The service runs, and what the new generators make of its tunnel does not work;
\* or the user wants no service for now, and every tunnel would work.
MCGateways == {[running |-> <<"old", "old">>, autostart |-> TRUE,
                healthy |-> {<<"old", "old">>, <<"new", "old">>}],
               [running |-> Nothing, autostart |-> FALSE, healthy |-> Tunnels]}
\* What is left behind does not hang on the tunnel.
OneGateway == {[running |-> Nothing, autostart |-> FALSE, healthy |-> Tunnels]}
=============================================================================

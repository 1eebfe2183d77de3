---------------------------- MODULE AtomicStore ----------------------------
(***************************************************************************)
(* What the state directory of proxy-unifi promises to whoever reads it    *)
(* after a crash, a signal or a power cut: it holds one version that some  *)
(* operation meant to install, never a mixture of two, and a version that  *)
(* was made durable is never lost.                                         *)
(*                                                                         *)
(* StateTxn implements this specification.                                 *)
(***************************************************************************)
CONSTANTS Versions,   \* the complete states an operation may install
          Blank       \* no state: the gateway before the first operation

VARIABLES store,      \* the state a reader gets once recovery has run
          outcomes,   \* the states that a power cut could leave now
          intent      \* the version the latest operation wants to install

vars == <<store, outcomes, intent>>

Init == /\ store \in Versions \cup {Blank}
        /\ outcomes = {store}
        /\ intent \in Versions

\* A new operation decides what it wants to install; nothing changes yet.
Choose == /\ intent' \in Versions
          /\ UNCHANGED <<store, outcomes>>

\* The operation takes effect all at once.
Publish == /\ store' = intent
           /\ outcomes' = outcomes \cup {intent}
           /\ UNCHANGED intent

\* The visible state reaches the disk: from here on nothing takes it back.
Harden == /\ outcomes' = {store}
          /\ UNCHANGED <<store, intent>>

\* Power is lost: the disk keeps one of the states it could hold.
PowerCut == /\ store' \in outcomes
            /\ outcomes' = {store'}
            /\ UNCHANGED intent

Next == Choose \/ Publish \/ Harden \/ PowerCut

Spec == Init /\ [][Next]_vars
=============================================================================

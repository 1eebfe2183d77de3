---------------------------- MODULE MCActivation ----------------------------
(***************************************************************************)
(* A small instance of Activation. The links a1, a2 and a3 share a label,  *)
(* b has another one; j1 and j2 are JSON profiles. Version 2 builds a1 for *)
(* another engine, no longer builds b, and is the first to take j2. The    *)
(* core refuses a3.                                                        *)
(***************************************************************************)
EXTENDS Activation, TLC

CONSTANTS a1, a2, a3, b, j1, j2

Says(kind, label, server) ==
    [kind |-> kind, scheme |-> kind, label |-> label, server |-> server]

MCNodes == {a1, a2, a3, b, j1, j2}
MCNode == a1 :> Says("link", "A", "s1") @@ a2 :> Says("link", "A", "s2")
          @@ a3 :> Says("link", "A", "s3") @@ b :> Says("link", "B", "s2")
          @@ j1 :> Says("pool", "A", "s1") @@ j2 :> Says("pool", "A", "s2")
MCBuilds ==
    <<a1 :> "xray" @@ a2 :> "singbox" @@ a3 :> "xray" @@ b :> "xray"
        @@ j1 :> "xraypool" @@ j2 :> "none",
      a1 :> "singbox" @@ a2 :> "singbox" @@ a3 :> "xray" @@ b :> "none"
        @@ j1 :> "xraypool" @@ j2 :> "xraypool">>
MCAccepted == MCNodes \ {a3}
\* Between them a node stays, moves, is withdrawn, has one successor, or has two.
MCOffers == {<<j1, a1>>, <<a2, b>>, <<a2, j2, a3>>}

\* A bound: both editors are open at once only before anything else is set up.
EditorsTogether ==
    (\A u \in Users : editing[u] # Nil) =>
        gen = 1 /\ ~subUrl /\ link = Nil /\ pool = Nil /\ auto /\ boot = "idle"

MCSymmetry == Permutations(Contents) \cup Permutations(Settings)
              \cup Permutations(AwgIds) \cup Permutations(KeyPairs) \cup Permutations(Users)
=============================================================================

----------------------------- MODULE MCStateTxn -----------------------------
(***************************************************************************)
(* Small instances of StateTxn: two files, two versions, interruptions at  *)
(* the steps where TXN_DIR and the marker agree, or also in one of the two *)
(* windows where they do not.                                              *)
(***************************************************************************)
EXTENDS StateTxn, TLC

CONSTANTS g1, g2, config, source

MCParts == {config, source}

MCGens == {g1, g2}

\* A gateway in use, or one where nothing was ever imported.
InUse == {Whole(g1)}
InUseOrNew == {Whole(g1), NoDir}

\* The service on with its timer, on but not enabled, or off.
MCUnits == {Flags, {"service-active"}, {}}

\* The files are alike.
FileSymmetry == Permutations(MCParts)

AnyStep == Steps \ {"idle"}

\* The snapshot is being taken: TXN_DIR is set, the snapshot is not complete.
BeginWindow == SafePoints \cup {"had", "copy"}
=============================================================================

SPECIFICATION Spec
INVARIANTS ConfigFollowsSource SelectionIsActive RunningIsStored UnitsMatch
PROPERTIES MaintenanceNeverStarts RefreshKeepsTunnel NoLostEdit
CONSTANTS
    a1 = a1
    a2 = a2
    a3 = a3
    b = b
    j1 = j1
    j2 = j2
    Nodes <- MCNodes
    Node <- MCNode
    Builds <- MCBuilds
    Offers <- MCOffers
    Accepted <- MCAccepted
    Blank = Blank
    MaxGen = 2
    AwgIds = {p1, p2}
    Contents = {c1, c2}
    Settings = {s1, s2}
    KeyPairs = {k1, k2}
    Users = {u1, u2}
    MaxFaults = 1
    Nil = Nil
    Deleted = Deleted
CONSTRAINT EditorsTogether
SYMMETRY MCSymmetry

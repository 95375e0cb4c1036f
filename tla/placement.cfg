SPECIFICATION Spec
CONSTANTS
    Clients = {c1, c2}
    Names <- PlacementRunNames
    NetworkRefs <- PlacementRunRefs
    SubnetworkRefs <- PlacementRunSubnetworkRefs
    BodyNetworkNames <- PlacementRunBodyNetworkNames
    Labels = {l1}
    DefaultPool <- MCDefaultPool
    AdminOverlaps = FALSE
SYMMETRY ClientSymmetry
INVARIANTS ReferentialIntegrity ResetLeavesNothing
PROPERTIES PlacementValidated AckedClusterHasPool

SPECIFICATION Spec
CONSTANTS
    Clients = {c1, c2}
    Names <- NetworkRunNames
    NetworkRefs <- NetworkRunRefs
    SubnetworkRefs <- NoRefs
    BodyNetworkNames <- NoBodyNetworkName
    Labels = {l1}
    DefaultPool <- MCDefaultPool
    AdminOverlaps = FALSE
SYMMETRY ClientSymmetry
INVARIANTS TypeOK ReferentialIntegrity NoSplitBrain EnforcementRestored
PROPERTIES UpdateNeverInserts NoCollateralDelete

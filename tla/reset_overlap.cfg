SPECIFICATION Spec
CONSTANTS
    Clients = {c1, c2}
    Names <- ResetRunNames
    NetworkRefs <- NoRefs
    SubnetworkRefs <- NoRefs
    BodyNetworkNames <- NoBodyNetworkName
    Labels = {l1}
    DefaultPool <- MCDefaultPool
    AdminOverlaps = TRUE
PROPERTIES ClusterDeleteCascades

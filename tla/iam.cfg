SPECIFICATION FairSpec
CONSTANTS
    m1 = m1
    m2 = m2
    Clients = {c1, c2}
    Roles = {1, 2}
    Members = {m1, m2}
    Policies <- MCPolicies
    Emails = {e1}
    KeyIds = {k1, k2}
    Labels = {l1, l2}
    NoClient = NoClient
    NoEmail = NoEmail
    NoAccount = NoAccount
    NoPolicy = NoPolicy
INVARIANTS TypeOK RoleFromOneRequest PolicyReplaced KeysHaveAccount
PROPERTIES NoAccountRevived RequestsAnswered

------------------------------- MODULE MCIam -------------------------------
(* Small instances of Iam for TLC. *)
EXTENDS Iam

CONSTANTS m1, m2

Binds(role, members) == [role |-> role, members |-> members]

\* Policies over two roles: none, one or both of them, a role twice, a member
\* twice in the second binding.
MCPolicies ==
    {<<>>, <<Binds(1, <<m1>>)>>, <<Binds(2, <<m2>>), Binds(1, <<m2>>)>>,
     <<Binds(1, <<m1>>), Binds(1, <<>>), Binds(2, <<m1, m2>>)>>,
     <<Binds(1, <<m2>>), Binds(2, <<m1, m1>>)>>}
=============================================================================

SPECIFICATION Spec
CONSTANTS
    c1 = c1
    c2 = c2
    u1 = u1
    supply = supply
    finance = finance
    Conns <- MCConns
    Users <- MCUsers
    Roles <- MCRoles
    Lead = u1
    LeadRole = supply
    Sockets = {s1}
    Limit = 2
    MaxTxns = 2
INVARIANT
    ListenersAreMembers
CHECK_DEADLOCK FALSE

SPECIFICATION Spec
CONSTANTS
    admin = admin
    bob = bob
    s1 = s1
    t1 = t1
    r1 = r1
    Nobody = Nobody
    Admin = admin
    Names <- MCNames
    Sids <- MCSids
    Tids <- MCTids
    Requests <- MCRequests
    Roles <- MCRoles
    RoleHolders <- MCRoleHolders
INVARIANTS
    TypeOK
    VerifyAgreesWithHandlers
    LiveTokensHaveActiveUsers
    OldSecretsStayRetired
PROPERTIES
    SuperuserRemains
    GrantsOutliveGranters
CHECK_DEADLOCK FALSE

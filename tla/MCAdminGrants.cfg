SPECIFICATION GrantsSpec
CONSTANTS
    Accounts = {alice, bob, carol}
    Founders = {alice, bob}
    Keepers = {}
    Admin = admin
    AppRoles = {}
    SelfServiceRoles = {}
    ScopedRoles = {}
    Requests = {t1, t2, t3}
    OfferIds = {1}
    None = None
SYMMETRY GrantsSymmetry
INVARIANT OnlyAStaleGuardRemovesTheLastAdmin
PROPERTY GrantedOnAuthority

SPECIFICATION GrantsSpec
CONSTANTS
    Accounts = {alice, bob, carol}
    Founders = {alice, bob}
    Keepers = {}
    Admin = admin
    AppRoles = {teacher, helper}
    SelfServiceRoles = {teacher}
    ScopedRoles = {helper}
    Requests = {t1, t2}
    OfferIds = {1, 2}
    None = None
SYMMETRY GrantsSymmetry
INVARIANT EndedOffersStayEnded

SPECIFICATION GrantsSpec
CONSTANTS
    Accounts = {alice, bob, carol}
    Founders = {alice, bob}
    Keepers = {}
    Admin = admin
    AppRoles = {teacher}
    SelfServiceRoles = {teacher}
    ScopedRoles = {}
    Requests = {t1, t2}
    OfferIds = {1, 2}
    None = None
SYMMETRY GrantsSymmetry
PROPERTY RevokeEndsEveryPendingOffer

SPECIFICATION Spec
CONSTANTS
    Users = {alice, bob}
    Passwords = {p1, p2}
    Tokens = {t1}
    Requests = {r1, r2}
    Routes <- AllRoutes
    NoUser = NoUser
    NoPassword = NoPassword
    NoToken = NoToken
SYMMETRY Symmetry
CHECK_DEADLOCK FALSE
INVARIANTS
    TypeOK
    ProvisionedOnce
    GateHolds
PROPERTY
    KeepsContract

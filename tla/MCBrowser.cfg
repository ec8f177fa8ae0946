SPECIFICATION Spec
CONSTANTS
    alice = alice
    bob = bob
    Tabs = {x1, x2}
    Addresses = {alice, bob}
    Accounts = {alice, bob}
    Gmail = {alice}
    Tokens = {t1, t2}
    States = {s1, s2}
    Codes = {c1}
    Slots = {i1, i2}
    Bounds <- Instances
    None = None
SYMMETRY Symmetry
CHECK_DEADLOCK FALSE
INVARIANTS
    TypeOK
    PageAgreesWithCookie
PROPERTY
    HandshakeBound
    SignedOutForCause

SPECIFICATION Spec
CONSTANTS
    Users = {alice}
    Passwords = {p1, p2}
    Tokens = {t1}
    Requests = {r1, r2}
    Routes <- PasswordRoutes
    NoUser = NoUser
    NoPassword = NoPassword
    NoToken = NoToken
SYMMETRY Symmetry
CHECK_DEADLOCK FALSE
PROPERTY
    CurrentPasswordRequired

SPECIFICATION Spec
CONSTANTS
    Orgs = {a, b}
    Home = a
    Tokens = {t1}
    Requests = {h1, h2}
    AccessTtl = 2
    MaxFlight = 1
INVARIANTS
    AdminOfTargetOrg

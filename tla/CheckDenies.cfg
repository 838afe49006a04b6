SPECIFICATION Spec
CONSTANTS
    Apps = {a1}
    Org = org
    Features = {f1}
    Requests = {p1}
    PermTtl = 2
    MaxFlight = 1
INVARIANTS
    GrantedFeatureAllowed

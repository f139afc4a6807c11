SPECIFICATION Spec
CONSTANTS
    Grants = {g1, g2}
    NoGrant = NoGrant
    Cycle = Cycle
    Admin = Admin
    MaxIssued = 4
    MaxFaults = 2
INVARIANTS TokensAgree
PROPERTIES ExpiredIsRenewed
CHECK_DEADLOCK FALSE

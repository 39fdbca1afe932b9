SPECIFICATION Spec
CONSTANTS
    alice = alice  bob = bob  c1 = c1  c2 = c2
    Users = {alice, bob}
    Requests = {c1, c2}
    MaxTokens = 3
    MaxRequests = 5
    MaxChanges = 2
    MaxFaults = 1
    MaxCrashes = 1
    NoUser = NoUser
SYMMETRY Symm
INVARIANTS SessionKept PasswordEndsSessions
CHECK_DEADLOCK FALSE

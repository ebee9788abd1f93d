SPECIFICATION Spec
CONSTANTS
    s1 = s1
    s2 = s2
    alice = alice
    bob = bob
    doe = doe
    john = john
    wrapped = wrapped
    v1 = v1
    v2 = v2
    None = None
    Servers = {s1, s2}
    Users = {1, 2}
    Files = {3}
    UserInfos = {alice, bob, doe, john, wrapped}
    Owner <- MCOwner
    ReadAs <- MCReadAs
    KeyInfo <- MCKeyInfo
    Values = {v1, v2}
    TTL = 1
    MaxEntries = 2
    MaxPackets = 4
    MaxTime = 2
SYMMETRY Symmetry
INVARIANTS
    RecordsTruthful
PROPERTIES
    JoinedOnceWhileAlive
    AugmentationKeeps

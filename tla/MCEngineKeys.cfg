CONSTANTS
    k1 = k1
    k2 = k2
    k3 = k3
    s1 = s1
    s2 = s2
    Addresses = {k1, k2, k3}
    None = None
    Secrets = {s1, s2}
    RotationSteps = {2, 3}
    OtherSymbols = {}
    Devices = {gpu}
    MaxVersion = 1
    NumSlots = 8

SPECIFICATION Spec
SYMMETRY Symmetry
INVARIANTS
    KeysShareTheSecret
    ReplicasFollowTheirKeys
    RotationPathsAreShortest
CONSTRAINT Explored

\* Two people and a re-encryption pass, one rotation, a shared secret that exists and a personal entry that does not yet.
SPECIFICATION Spec
CONSTANTS
    s1 = s1
    s2 = s2
    e1 = e1
    u = u
    v = v
    p1 = p1
    p2 = p2
    k1 = k1
    Secrets = {s1}
    Entries = {e1}
    Values = {u, v}
    Existing = {s1}
    FirstValue = u
    Writers = {p1, p2}
    Rotators = {k1}
    MaxGeneration = 2
    MaxVersion = 2
    None = None
SYMMETRY People
CHECK_DEADLOCK FALSE
INVARIANTS
    Openable
PROPERTIES
    KeysMoveForward
    IsRegister

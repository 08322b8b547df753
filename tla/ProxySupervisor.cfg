SPECIFICATION Spec
CONSTANTS
    Pid = {1, 2, 3}
    Caller = {c1, c2}
    None = None
    MaxFaults = 3
INVARIANTS
    OnlyProxySignalled
    NoPileUp
PROPERTIES
    SelfHeals

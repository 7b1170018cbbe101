SPECIFICATION Spec
CONSTANTS
    Hashes = {h1}
    NumStacks = 1
    MaxBuilds = 2
    Parallel = 1
    Faults = {}
    MaxFaults = 0
    None = None
INVARIANTS TopSigned

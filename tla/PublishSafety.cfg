SPECIFICATION Spec
CONSTANTS
    Hashes = {h1, h2}
    NumStacks = 2
    MaxBuilds = 1
    Parallel = 2
    Faults = {"crash", "sync", "copy"}
    MaxFaults = 2
    None = None
INVARIANTS TypeOK TopComplete TopSigned
PROPERTIES ImplementsTopMirror

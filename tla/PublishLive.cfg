SPECIFICATION SigningFairSpec
CONSTANTS
    Hashes = {h1}
    NumStacks = 2
    MaxBuilds = 3
    Parallel = 1
    Faults = {"sync", "copy"}
    MaxFaults = 1
    None = None
INVARIANTS BlobsSigned
PROPERTIES PublishedOnce SignedIsPublished PublishedIsIndexed

CONSTANTS
    Readers = {"reader"}
    Writer = "writer"
    Keys = {"v1", "v2"}
    Nil = Nil
    Torn = Torn
    Releases <- MCReleases
    Encoding <- MCEncoding
    Label <- MCLabel
    ChunkSize = 2
    MaxReadChunks = 3
    MaxWriteChunks = 4
    MaxWrites = 3
    MaxReads = 1
    MaxFaults = 1
SPECIFICATION FairSpec
CHECK_DEADLOCK FALSE
INVARIANTS TypeOK NoLeakedChunk
PROPERTIES ImplementsReleaseStore UpdateRepairs OrphansAreCollected

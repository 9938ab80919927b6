CONSTANTS
    Runs = {r1}
    Calls = {c1, c2}
    Approvals = {a1, a2}
    Payloads <- Contents
    None = None
    MaxRequests = 2
    MaxFaults = 1
SPECIFICATION FairWriteSpec
INVARIANTS
    WriteTypeOK
    FilesAreAccountedFor
    OneOutputPerRun
    CompletedMeansSettled
PROPERTIES
    PublicationIsCovered
    KeepsContract
    RunEnds

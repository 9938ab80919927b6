CONSTANTS
    Runs = {r1}
    Calls = {c1, c2}
    Approvals = {a1, a2}
    Payloads = {p1, p2}
    None = None
    MaxRequests = 2
SPECIFICATION JournalSpec
SYMMETRY Symmetry
INVARIANTS
    JournalTypeOK
    NoRequestOverOpenCall
    ResultsAnswerCalls
    ArtifactsAreBacked
    UnknownIsNotSuccess
    InterruptedIsSettled
PROPERTY FinishedIsFinal

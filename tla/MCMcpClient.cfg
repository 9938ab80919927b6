CONSTANTS
    MaxCalls = 4
    RequestLimit = 3
    MaxLines = 2
    SlowImport = FALSE
SPECIFICATION FairMcpSpec
INVARIANT McpTypeOK
PROPERTY KeepsMcpContract

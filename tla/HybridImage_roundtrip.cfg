SPECIFICATION Spec
CONSTANTS
    Stubs <- StubSet
    Addons = {1, 2}
    Misfits = {}
    MaxLoadCommands = 10
    MaxPeSections = 10
    BlobLens = {2, 3, 5}
    Hosts = {"macos", "other"}
    PageSize = 3
    Word = 2
    FileAlign = 2
    SectionAlign = 3
    MaxChain = 2
    MaxSlack = 7
    MaxRoom = 3
    MaxText = 3
INVARIANT RoundTrips
\* a chain of commands ends at MaxChain sections
CHECK_DEADLOCK FALSE

SPECIFICATION Spec
CONSTANTS
    Stubs <- StubSet
    Addons = {1, 2, 3}
    Misfits = {3}
    MaxLoadCommands = 4
    MaxPeSections = 4
    BlobLens = {2, 3, 5}
    Hosts = {"macos", "other"}
    PageSize = 3
    Word = 2
    FileAlign = 2
    SectionAlign = 3
    MaxChain = 3
    MaxSlack = 7
    MaxRoom = 3
    MaxText = 3
INVARIANT TypeOK
INVARIANT SectionsRecovered
INVARIANT LoaderViewKept
INVARIANT LayoutSound
INVARIANT SignatureFresh
INVARIANT RefusedOnlyWhenTight
\* a chain of commands ends at MaxChain sections
CHECK_DEADLOCK FALSE

SPECIFICATION Spec
CONSTANTS
    Proc = {"p", "q"}
    Commands = {"build", "frozen"}
    Path <- TwinPath
    SrcOrder <- TwinOrder
    OutTree <- TwinOut
    Manifest = "o/manifest"
    Layout = "apart"
    OutRel <- TwinRel
    None = "none"
    Torn = "torn"
    Text <- MCText
    AuthorText <- MCAuthorText
    Disks <- TwinDisks
    Errors <- MCErrors
    Lower <- MCLower
    ManifestOf <- MCManifestOf
    Fixes <- MCFixes
    Fixed <- MCFixed
    MaxRuns = 2
    MaxEdits = 0
INVARIANTS BuildThenFrozen
CHECK_DEADLOCK FALSE

SPECIFICATION Spec
CONSTANTS
    Proc = {"p"}
    Commands = {"build"}
    Path <- SamePath
    SrcOrder <- SameOrder
    OutTree <- SamePath
    Manifest = "s/manifest"
    Layout = "same"
    OutRel <- SameRel
    None = "none"
    Torn = "torn"
    Text <- MCText
    AuthorText <- MCAuthorText
    Disks <- SameDisks
    Errors <- MCErrors
    Lower <- MCLower
    ManifestOf <- MCManifestOf
    Fixes <- MCFixes
    Fixed <- MCFixed
    MaxRuns = 1
    MaxEdits = 0
PROPERTIES SourcesKept
CHECK_DEADLOCK FALSE

SPECIFICATION Spec
CONSTANTS
    Proc = {"p", "q"}
    Commands = {"build", "frozen", "fix", "clean"}
    Path <- NestPath
    SrcOrder <- NestOrder
    OutTree <- NestOut
    Manifest = "s/o/manifest"
    Layout = "out in src"
    OutRel <- NestRel
    None = "none"
    Torn = "torn"
    Text <- MCText
    AuthorText <- MCAuthorText
    Disks <- AllDisks
    Errors <- MCErrors
    Lower <- MCLower
    ManifestOf <- MCManifestOf
    Fixes <- MCFixes
    Fixed <- MCFixed
    MaxRuns = 2
    MaxEdits = 1
INVARIANTS BuildFresh FrozenExact FixSound
PROPERTIES SourcesKept
CHECK_DEADLOCK FALSE

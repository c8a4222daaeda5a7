SPECIFICATION Spec
CONSTANTS
    Proc = {"p"}
    Commands = {"clean"}
    Path <- AroundPath
    SrcOrder <- AroundOrder
    OutTree <- AroundPath
    Manifest = "o/manifest"
    Layout = "src in out"
    OutRel <- AroundRel
    None = "none"
    Torn = "torn"
    Text <- MCText
    AuthorText <- MCAuthorText
    Disks <- AroundDisks
    Errors <- MCErrors
    Lower <- MCLower
    ManifestOf <- MCManifestOf
    Fixes <- MCFixes
    Fixed <- MCFixed
    MaxRuns = 1
    MaxEdits = 0
PROPERTIES SourcesKept
CHECK_DEADLOCK FALSE

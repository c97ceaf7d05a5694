SPECIFICATION Spec
CHECK_DEADLOCK FALSE
CONSTANTS
    None = None
    IgnoreFiles <- MCIgnoreFiles
    RuleFiles <- MCRuleFiles
    StaticRules <- MCStaticRules
    SkipHidden = TRUE
    HiddenNames = {".c", ".d", ".h", ".gitignore", ".ignore"}
    ScanRoot <- Root
    Tree <- MCTree
    FilesInOrder <- MCFilesInOrder
    StandardSkips = {"target"}
    Extensions = {"x", "y", "m", "q", ".h"}
    ChunkSize = 2
    Plans <- ReentrantPlans
INVARIANTS
    ReentrantScanSelectsTheSame

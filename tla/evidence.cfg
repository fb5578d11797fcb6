SPECIFICATION Spec
CONSTANTS
    v1 = v1
    v2 = v2
    r1 = r1
    r2 = r2
    ann = ann
    bob = bob
    cal = cal
    dee = dee
    tool = tool
    other = other
    None = None
    Clients = {ann, bob, cal, dee}
    Replays = {r1, r2}
    Versions = {v1, v2}
    BlastRadii = {4, 10}
    SensitiveKeys = {"key"}
    MaxDepth = 4
    MaxSchemaDepth = 3
    TestValues <- MCTestValues
    Worlds <- MCWorlds
    DiffValues <- diff_values
    Analyze <- CompatibilityAnalysis
    Analyzable <- CanAnalyze
INVARIANTS
    KeyedOnce
    ReportReflectsReplays
    AlignmentSound
    MoreEvidenceNeverMilder
    CompatibleKeepsCallers
    ComparisonsAreSymmetric
    NewRequiredInputBlocks
    DifferencesAreRedacted
CHECK_DEADLOCK FALSE

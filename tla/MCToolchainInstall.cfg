CONSTANTS
    Targets = {arm, riscv64}
    MaxBuilds = 1
SPECIFICATION ScriptsSpec
SYMMETRY TargetSymmetry
INVARIANTS InstalledAsReported BuildsWithOwnIncludes
PROPERTIES KeepsTheLast

SPECIFICATION Spec
CONSTANTS
    Manifest <- MCManifest
    Kind <- MCKind
    Registries <- MCRegistries
    Cells <- MCCells
    Workspaces <- MCWorkspaces
    TargetFiles <- MCTargetFiles
    Null = Null
INVARIANTS AssembledAccepted AcceptedVerdictExact IndexedIffTrustworthy

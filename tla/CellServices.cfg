SPECIFICATION Spec
CONSTANTS
  Cells <- MCCells
  Others = {99}
  Cores <- MCCores
  Models <- MCModels
  Queues = {0, 1}
  Workspaces = {1, 2}
  Manifests <- MCManifests
  Image <- MCImages
  KvRequired <- MCKvRequired
  RtCells = 4
  MaxLeases = 2
  TotalPages = 8
  DecodeCells = {0, 1}
  DecodeModels <- MCDecodeModels
  Loads <- MCLoads
  MaxTokens = 5
  BatchMax = 2
  BatchTokens = 3
  ByteMod = 4
  Junk = Junk
  MaxDraft = 2
  InputMax = 9
  SpecOutput = 7
  Digit <- MCDigit
  Checkpoints = 2
  Progress = {p1, p2, big}
  LargeProgress = {big}
  MaxSaves = 4
  GitWorkspaces = {0}
  Revisions = {"r1", "r2"}
  ConflictRevisions = {"conflict"}
  Patches = {"p", "q"}
  ConflictPatches = {"c"}
  RefusedPatches = {"token"}
  MaxPatchStack = 3
  Texts <- MCTexts
  HunkCapacities = {1, 4}
  Sandboxes = {0, 1}
  SandboxWorkspaces = {1, 2}
  Artifacts = {1, 2}
  ArtifactMax = 3
  Programs <- MCPrograms
  VmRegisters = 4
  CyclesPerInsn = 4
  TestSnapshots <- MCTest
  SnapshotKinds = {"boot", "service", "workspace", "sandbox", "update"}
  SectorSlots = 8
  FoundSectors <- MCFound
  IndexPaths = {"p", "q"}
  IndexRevisions = {1, 2}
  Sources <- MCSources
  MaxFiles = 2
  MaxSymbols = 5
INVARIANTS AllOrNothing AccountsExact TokensSpellText InferenceStateKept SpeculationIsTarget
  WorkspaceFaithful BuildsKeepBounds OneBootPerTear IndexIsScans
CHECK_DEADLOCK FALSE

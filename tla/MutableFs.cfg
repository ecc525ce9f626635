SPECIFICATION Spec
CONSTANTS
  Paths <- MCPaths
  Root <- MCRoot
  Parent <- MCParent
  Below <- MCBelow
  Nodes = {n1, n2, n3}
  Blocks = {b1, b2, b3}
  Sectors <- MCSectors
  Blank = "blank"
  Uses <- MCUses
SYMMETRY Symmetric
INVARIANTS VolumeConsistent ImageReadable
PROPERTIES OkIsOnDisk ImplementsFileStore

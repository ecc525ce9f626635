SPECIFICATION Spec
CONSTANTS
  Paths <- MCPaths
  Root <- MCRoot
  Parent <- MCParent
  Below <- MCBelow
  Nodes = {n1, n2, n3}
  Blocks = {b1, b2}
  Sectors <- MCSectors
  Blank = "blank"
  Uses <- RemountUses
SYMMETRY Symmetric
PROPERTY MountKeepsFiles

SPECIFICATION Spec
CONSTANTS
  Paths <- MCPaths
  MaxNodes = 4
  MaxOpen = 2
  Menus <- MCMenus
  Hidden = {}
  Chunk = 1
  MaxRefusals = 2
  SftpHandles = {h1, h2}
  SftpFlags <- MCSftpFlags
  SftpData <- MCSftpData
  Offsets = {0, 1}
  Conns = {c1, c2}
  Channels = {1}
  RemoteIds = {0}
  Addrs = {a1, a2}
  RateEntries = 1
  MaxFailures = 2
  MaxAttempts = 1
  NoAddr = none
INVARIANTS DescriptorsOwned FilesFaithful ServesProvedUsers AdmissionExact
PROPERTIES HandshakeEnds

SPECIFICATION Spec
CONSTANTS
  Peers = {1, 2}
  Family <- MCFamily
  Isn <- MCIsn
  Stream <- MCStream
  Reply <- MCReply
  FinCarriesData = TRUE
  Wrap = 16
  Mss = 1
  PeerMss = 2
  Slots = {1, 2}
  MaxHalfOpen = 1
  OooEntries = {1}
  BufSize = 2
  PoolSize = 3
  Queues = {1}
  RingSize = 2
  Descs = 2
  Listeners = {1}
  MaxBacklog = 1
  Socks = {1, 2}
  MaxPerPort = 2
INVARIANT StreamInOrder

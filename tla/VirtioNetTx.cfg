CONSTANTS
  TxDescs = 4
  RxDescs = 1
  RingSize = 8
  Packets = {f1, f2}
  MaxSent = 8
  Runt = runt
SPECIFICATION TxSpec
INVARIANT TxBuffersKept
CHECK_DEADLOCK FALSE

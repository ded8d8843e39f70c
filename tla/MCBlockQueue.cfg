SPECIFICATION FairSpec
CONSTANTS
  SIZE = 2
  Addr = {a1, a2, a3}
  NULL = NULL
  Byte = {x, y}
  NoByte = NoByte
  MaxCount = 3
INVARIANTS TypeOK ListInv EndsInv HeldBlocksLive CopyInBlock
PROPERTIES FifoSpec EofOnlyWhenDrained ShortReadOnlyWhenDrained CallsReturn

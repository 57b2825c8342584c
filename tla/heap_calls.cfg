SPECIFICATION UsersSpec
CONSTANTS
  HeapMax = 184
  Clients = {p1, p2, s}
  Nobody = Nobody
  Sizes = {5, 8, 13, 24}
  MAGIC = 1000
  Data = {0, 40}
  Margin = 8
  Scratch = s
  BufferSizes = {8, 24}
  AnyHeapMax = 144
  AnyClients = {c1, c2, c3}
  AnySizes = {8, 24}
INVARIANTS
  AnyInHeap
  BlocksApart
  HeadersIntact
  UsedMatchesLive
PROPERTIES
  AnyExhaustionPermanent
  AnyCallsReturn

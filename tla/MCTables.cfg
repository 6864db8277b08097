SPECIFICATION TablesSpec
CONSTANTS
  Subjects = {"pool", "fibheap", "heap", "ip4", "mtrie"}
  MaxLen = 5
  MaxVec = 6
  FibN = 8
  FibLive = 3
  FibTimes = {1, 2}
  HeapMaxLen = 5
  HeapSizes = {1, 2, 3}
  HeapAligns = {0, 1}
  a1 = a1
  a2 = a2
  Prefixes = {p1, p2}
  Addrs = {a1, a2}
  Hops <- TwoHops
  AdjMax = 5
  ReplaceMax = 1
  ByteBits = 2
  AddrBytes = 3
  TriePrefixes <- NestedPrefixes
  TrieAdjs = {1, 2}
  TrieMax = 4
INVARIANTS
  FreeListMatchesBitmap
  NeverHandedOutTwice
  FibLinksConsistent
  FibMinIsLeast
  BlocksKept
  NothingLeaks
  RoutesUseLiveNeighbors
  
  NextHopsAccounted
  TrieConsistent
PROPERTIES
  AdvanceExact
CHECK_DEADLOCK FALSE

SPECIFICATION SuiteSpec
CONSTANTS
  Handlers = {h1, h2}
  Addrs = {a1}
  Unit = 2
  Rate = 1
  Capacity = 4
  MaxTime = 5
  NoBucket = NoBucket
  Actions = {"Read", "Write"}
  Resources = {"db"}
  TrustScores = {85, 86}
  MaxStatements = 3
  Switches = {"s1", "s2"}
  Hosts = {"h0", "h1"}
  AddrBits = 2
  Tables <- UpdatedTables
  TableSize = 4
  TtlModulus = 4
INVARIANTS RateLimited OrderIrrelevant FramesNameTheirLink
PROPERTIES RefusedIsSpent PacketLeaves

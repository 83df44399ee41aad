SPECIFICATION EngineSpec
CONSTANTS
  k1 = k1
  ds = ds
  Keys = {k1}
  Datasets = {ds}
  DatasetOf <- MCDatasetOf
  Prefixed <- MCPrefixed
  Clients = {c1, c2}
  NoClient = NoClient
  ChannelCapacity = 2
  FlushRows = 2
  MaxBatches = 2
  BatchRows = {0, 1}
  Faults = {"source", "stream", "ddl", "flush", "drop", "macro"}
INVARIANTS NoReplyIsLost EpochsHaveTables
PROPERTIES EveryCallReturns ImplementsStore

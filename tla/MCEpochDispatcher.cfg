SPECIFICATION Spec
CONSTANTS
  k1 = k1
  k2 = k2
  t1 = t1
  t2 = t2
  recv = recv
  ds = ds
  Keys = {k1, k2}
  Datasets = {ds}
  DatasetOf <- MCDatasetOf
  Prefixed <- MCPrefixed
  Clients <- MCClients
  NoClient = NoClient
  ChannelCapacity = 1
  FlushRows = 1
  MaxBatches = 1
  BatchRows = {1}
  Faults = {"stream", "macro"}
  Tasks = {t1, t2}
  Receiver = recv
  MaxLoads = 2
  Timed = {ds}
  CpDisciplined = TRUE
INVARIANTS NoWakeUpIsLost ActiveIsCommitted RowsAreTheLoads

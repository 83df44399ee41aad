SPECIFICATION Spec
CONSTANTS
  k1 = k1
  k2 = k2
  t1 = t1
  t2 = t2
  recv = recv
  ds = ds
  Keys = {k1}
  Datasets = {ds}
  DatasetOf <- MCDatasetOf
  Prefixed <- MCPrefixed
  Clients <- MCClients
  NoClient = NoClient
  ChannelCapacity = 1
  FlushRows = 2
  MaxBatches = 1
  BatchRows = {1}
  Faults = {"stream"}
  Tasks = {t1, t2}
  Receiver = recv
  MaxLoads = 1
  Timed = {ds}
  CpDisciplined = TRUE
INVARIANT CommittedIsOneLoad

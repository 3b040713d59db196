SPECIFICATION FairAppSpec
CONSTANTS
  p9091 = p9091
  p9093 = p9093
  consumer = consumer
  local_consumer = local_consumer
  h1 = h1
  t1 = t1
  t2 = t2
  Addrs = {consumer, local_consumer}
  Reqs = {h1, t1, t2}
  Loops = {l1, l2}
  Base = base
  Self = self
  None = None
  MaxBridge = 1
  NetPorts <- MainNetPorts
  HttpPort = p9093
  AddressOf <- MainAddressOf
  Source <- MainSource
  Consumers <- MainConsumers
INVARIANTS AppTypeOK RequestsQueuedOnce ReadyNeverDropped HttpAnsweredOnce
PROPERTIES ImplementsRequestReply RequestsSettle
CHECK_DEADLOCK FALSE

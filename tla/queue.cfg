SPECIFICATION FairSpec
CONSTANTS
  p1 = p1
  p2 = p2
  c1 = c1
  Producers <- TwoProducers
  Consumers <- OneConsumer
  Calls <- AllCalls
  MaxSize = 2
  MaxPushes = 4
INVARIANTS TypeOK NoStrandedConsumer NoStrandedProducer
PROPERTIES ImplementsChannel ProducersGetOut
CHECK_DEADLOCK FALSE

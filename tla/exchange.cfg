SPECIFICATION ExchangeSpec
CONSTANTS
  t1 = t1  t2 = t2  t3 = t3
  Focus = {"coordination", "routing", "sample", "ingress"}
  Replicas = {"r"}
  Tasks = {t1, t2, t3}
  Batches <- OneToThree
  Required = {t1}
  Retried = {t1}
  Gates = {FALSE, TRUE}
  MaxIterations = 2
  MaxPerIteration = 3
  MaxTotalWorkers = 3
  MaxPatchSteps = 3
  LoopRevLimit = 5
  Posts = {"p1", "p2", "p3", "p4"}
  DeliveryOf <- PostDelivery
  ContentOf <- PostContent
  ReplayMax = 1
  KafkaRecords = {"k1", "k2", "k3", "k4"}
  RecordContent <- RecordedAs
  FailLimit = 1
  Routed = {"r1", "r2", "r3"}
  AgentOf <- RoutedAgent
  StoredAs <- StoredForm
  Environments <- SomeEnvironments
  BridgeAgents = {"conn__x"}
  RedeployLimit = 1
  SendLimit = 2
  ReviseLimit = 1
  SampleAgentNames = {"code-reviewer", "observability"}
  Topic <- SampleTopics
  AgentCrashes = 1
  BrokerErrors = 2
INVARIANTS ExchangeTypeOK LoopIsOrderly 
PROPERTIES LoopHistoryStands EventsNeverDecide 
CHECK_DEADLOCK FALSE

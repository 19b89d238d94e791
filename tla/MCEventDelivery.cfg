\* Two consumers, two events, one failure of the queue or of a consumer.
SPECIFICATION DeliverySpec
CONSTANTS
  deployed = deployed
  undeployed = undeployed
  deployment = deployment
  statusHandler = statusHandler
  undeployment = undeployment
  c1 = c1
  c2 = c2
  Event = {deployed, undeployed}
  Handler = {deployment, statusHandler, undeployment}
  HandlersOf <- MCHandlersOf
  Consumer = {c1, c2}
  BatchSize = 2
  MaxRetries = 2
  MaxFaults = 1
CHECK_DEADLOCK FALSE
INVARIANTS
  DeliveryTypeOK
  LossBounded
  AppliedOnce
PROPERTIES
  EventsLeaveQueue

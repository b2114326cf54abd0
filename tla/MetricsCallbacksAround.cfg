SPECIFICATION Spec
CONSTANTS
  Metrics <- AllMetrics
  Wraps <- AllWraps
  Objects <- AllObjects
  Spares <- SpareObjects
  Singles <- OneBuffers
  Manys <- ManyBuffers
  Early <- EarlyMetrics
  Lost <- LostHooks
  Late <- LateMetrics
  Passes <- PassedOver
INVARIANTS Paired Described OneData ErrorTold

\* Two threads, two calls in any order, two or three groups, one to three children.
SPECIFICATION Spec
CONSTANTS
  Threads = {t1, t2}
  Setups <- SomeSetups
  Calls <- SomeCalls
  MaxCalls = 2
  Null = Null
INVARIANTS
  EachOnce
  FailureKept
  MetricsOwn
PROPERTIES
  Returns

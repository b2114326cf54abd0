\* Four buffers, one rank to three workers, failures at any place.
SPECIFICATION Spec
CONSTANTS
  Jobs <- SomeJobs
  None = None
INVARIANTS
  GuidedBySuccess
  Outcome
PROPERTIES
  EachTaskOnce

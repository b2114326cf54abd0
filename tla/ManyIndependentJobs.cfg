\* One to four ranks, matching and mismatched groups, a failing child, with and without broadcast.
SPECIFICATION Spec
CONSTANTS
  Jobs <- SomeJobs
  None = None
INVARIANTS
  Outcomes
PROPERTIES
  Terminates
  EachTaskOnce

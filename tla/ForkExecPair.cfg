\* Two concurrent launches, pipes that hold one chunk.
SPECIFICATION Spec
CONSTANTS
  Launches = {l1, l2}
  Programs <- SomePrograms
  Capacity = 1
  Parent = Parent
INVARIANTS
  AllRead
  OwnChild
  NoneOpen
PROPERTIES
  Terminates

\* A careful program and the domain manager, device and host buffers and views of them, two sizes.
SPECIFICATION ManagedSpec
CONSTANTS
  Blocks = {1, 2, 3}
  Objs = {o1, o2}
  Null = Null
  Tags = {"x"}
  Domains <- PinnedDomains
  Nums = {1, 2}
  Widths = {1}
  Liberties = {}
INVARIANTS
  NoLeak
  CapacityTrue
PROPERTIES
  Arrives
SYMMETRY Symmetry

\* Any program that keeps assignments within a domain, two domains, allocators that do not fail.
SPECIFICATION Spec
CONSTANTS
  Blocks = {1, 2, 3}
  Objs = {o1, o2}
  Null = Null
  Tags = {}
  Domains <- MixedDomains
  Nums = {0, 1}
  Widths = {1}
  Liberties = {"stale_capacity", "move_over", "resize", "empty_source", "small_view"}
INVARIANTS
  TypeOK
  OwnedOnce
  FreedRightly
SYMMETRY Symmetry

\* Careful callers: communicators of up to seven ranks, any change of root and communicator.
SPECIFICATION Spec
CONSTANTS
  Word = 16
  Nullopt = Nullopt
  Sizes = {1, 2, 4, 5, 7}
  Lists <- SomeLists
  Counts = {0, 1, 2, 3, 4}
  Liberties = {}
INVARIANTS
  TypeOK
  CanServe
  AsAsked
  Balanced

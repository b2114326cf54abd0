SPECIFICATION Spec
CONSTANTS
  Tables <- Registry
  Menus <- Pairs
  Sizes = {1, 2}
  MaxCalls = 5
INVARIANTS Fresh RefsLive
PROPERTY CloneAlike

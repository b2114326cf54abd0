\* Three threads that ask for, clone, use and drop a library.
SPECIFICATION Spec
CONSTANTS
  Threads = {t1, t2, t3}
  Handles = {h1, h2, h3, h4}
  None = None
  Uses <- AllUses
INVARIANTS
  OneHandle
  ReadersWriter
  LibraryKept

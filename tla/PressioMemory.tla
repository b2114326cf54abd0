--------------------------- MODULE PressioMemory ---------------------------
(***************************************************************************)
(* pressio_memory and the memory domains it allocates from.                *)
(*                                                                         *)
(* A pressio_memory is a triple (pointer, capacity, domain): the domain    *)
(* allocates, frees and copies, the pressio_memory decides when.  The      *)
(* operators below are what each constructor, assignment and destructor    *)
(* does to a store: the heap the domains allocate from, the objects that   *)
(* point into it, the blocks the caller itself must free, and the faults   *)
(* seen (calls that break the contract of a domain).  PressioData makes    *)
(* them the actions of a program.                                          *)
(***************************************************************************)
EXTENDS Naturals, FiniteSets

CONSTANTS
  Blocks,   \* the allocations the allocators may hand out, a bound
  Objs,     \* the C++ objects of the program
  Null,     \* nullptr
  Tags,     \* what a buffer may hold
  Domains   \* the domains the program uses

ASSUME NullAssumption == Null \notin Blocks

(***************************************************************************)
(* Domains.  "id" is domain_id(), "alloc" and "free" name the allocator    *)
(* and the deallocator ("none" when the domain has none) and "fail" is     *)
(* what alloc does when it has no memory: return nullptr or throw.         *)
(***************************************************************************)
Kinds == {"malloc", "new", "cuda", "cudahost", "custom"}
Ids   == {"none", "malloc", "cudamalloc", "cudamallochost", "user"}

Domain == [prefix : Ids \cup {"nonowning"}, id : Ids,
           alloc : Kinds \cup {"none"}, free : Kinds \cup {"none"},
           fail : {"null", "throw"}]

ASSUME DomainAssumption == Domains \subseteq Domain

MallocDomain ==
  [prefix |-> "malloc", id |-> "malloc", alloc |-> "malloc", free |-> "malloc",
   fail |-> "null"]

CudaDomain ==
  [prefix |-> "cudamalloc", id |-> "cudamalloc", alloc |-> "cuda", free |-> "cuda",
   fail |-> "throw"]

CudaHostDomain ==
  [prefix |-> "cudamallochost", id |-> "cudamallochost", alloc |-> "cudahost",
   free |-> "cudahost", fail |-> "throw"]

Nonowning(id) ==
  [prefix |-> "nonowning", id |-> id, alloc |-> "none", free |-> "none",
   fail |-> "throw"]

\* A user domain made from a delete[] deleter: it names itself "malloc" and
\* allocates with malloc.
UserNewDomain == [MallocDomain EXCEPT !.free = "new"]

\* A user domain made from any other deleter (or from none): it cannot allocate.
UserDomain(free) ==
  [prefix |-> "user", id |-> "user", alloc |-> "none", free |-> free,
   fail |-> "null"]

\* The null shared_ptr a moved-from pressio_memory is left with.
NoDomain ==
  [prefix |-> "none", id |-> "none", alloc |-> "none", free |-> "none",
   fail |-> "null"]

\* domain_plugins().build(id) finds a domain that allocates.
Build(id) ==
  CASE id = "malloc"         -> MallocDomain
    [] id = "cudamalloc"     -> CudaDomain
    [] id = "cudamallochost" -> CudaHostDomain
    [] OTHER                 -> NoDomain

\* pressio_domain::clone: a nonowning domain clones to one that can allocate.
CloneDomain(d) == IF d.prefix = "nonowning" THEN Build(d.id) ELSE d

-----------------------------------------------------------------------------
(***************************************************************************)
(* Stores.                                                                 *)
(***************************************************************************)
Block == [st : {"unused", "live", "freed"}, by : Kinds \cup {"none"},
          cap : Nat, tag : Tags \cup {"junk"}]

Object == [ptr : Blocks \cup {Null}, cap : Nat, dom : Domain,
           num : Nat, width : Nat]

Fault == {"double_free", "wrong_free", "free_size", "copy_range", "copy_domain",
          "null_domain"}

Store == [heap : [Blocks -> Block], obj : [Objs -> Object],
          caller : SUBSET Blocks, faults : SUBSET Fault]

UnusedBlock == [st |-> "unused", by |-> "none", cap |-> 0, tag |-> "junk"]
FreedBlock  == [st |-> "freed", by |-> "none", cap |-> 0, tag |-> "junk"]

\* The object a destructor leaves behind, and what a move leaves in its source.
NoObject == [ptr |-> Null, cap |-> 0, dom |-> NoDomain, num |-> 0, width |-> 1]

Room(s)  == \E b \in Blocks : s.heap[b].st = "unused"
Fresh(s) == CHOOSE b \in Blocks : s.heap[b].st = "unused"

IsLive(s, p) == p # Null /\ s.heap[p].st = "live"

\* The object frees its block when it is destroyed.
Owns(s, o) == s.obj[o].ptr # Null /\ s.obj[o].dom.free # "none"

SetMem(s, o, ptr, cap, dom) ==
  [s EXCEPT !.obj[o] = [@ EXCEPT !.ptr = ptr, !.cap = cap, !.dom = dom]]

-----------------------------------------------------------------------------
(***************************************************************************)
(* The calls into a domain.                                                *)
(***************************************************************************)

\* domain->alloc(n); "ok" says whether the allocator has memory.
Alloc(s, d, n, ok) ==
  IF d.alloc = "none" \/ ~ok
  THEN [s |-> s, ptr |-> Null, threw |-> d.fail = "throw"]
  ELSE [s |-> [s EXCEPT !.heap[Fresh(s)] =
                 [st |-> "live", by |-> d.alloc, cap |-> n, tag |-> "junk"]],
        ptr |-> Fresh(s), threw |-> FALSE]

\* What is wrong with domain->free(p, n).
FreeFaults(s, d, p, n) ==
  IF s.heap[p].st # "live" THEN {"double_free"}
  ELSE (IF s.heap[p].by # d.free THEN {"wrong_free"} ELSE {})
       \cup (IF s.heap[p].cap # n THEN {"free_size"} ELSE {})

\* domain->free(p, n): a no-op on nullptr and in a domain that does not own.
Free(s, d, p, n) ==
  IF p = Null \/ d.free = "none" THEN s
  ELSE [s EXCEPT !.heap[p] = FreedBlock,
                 !.faults = @ \cup FreeFaults(s, d, p, n)]

InRange(s, p, n) == IsLive(s, p) /\ n <= s.heap[p].cap

\* domain->memcpy(dst, src, n), src being a pointer of domain id "from".
Memcpy(s, d, dst, src, n, from) ==
  IF d.prefix = "nonowning" THEN s
  ELSE IF ~(InRange(s, dst, n) /\ InRange(s, src, n))
  THEN [s EXCEPT !.faults = @ \cup {"copy_range"}]
  ELSE [s EXCEPT !.heap[dst].tag = s.heap[src].tag,
                 !.faults = @ \cup (IF d.id # from THEN {"copy_domain"} ELSE {})]

-----------------------------------------------------------------------------
(***************************************************************************)
(* The operations of pressio_memory.                                       *)
(***************************************************************************)

\* ~pressio_memory
FreeMem(s, o) == Free(s, s.obj[o].dom, s.obj[o].ptr, s.obj[o].cap)

\* The copy that ends a copy assignment.
CopyBytes(s, l, r) ==
  LET L == s.obj[l]
      R == s.obj[r]
      n == IF R.cap <= L.cap THEN R.cap ELSE L.cap
  IN  IF n = 0 THEN s ELSE Memcpy(s, L.dom, L.ptr, R.ptr, n, R.dom.id)

\* Mutants of the left side's growth: its old block is not freed, its capacity is
\* not updated.
Regrow_Leaks(s, l, n, ok) ==
  LET a == Alloc(s, s.obj[l].dom, n, ok)
  IN  [s |-> IF a.threw THEN a.s ELSE SetMem(a.s, l, a.ptr, n, s.obj[l].dom),
       threw |-> a.threw]

Regrow_OldCapacity(s, l, n, ok) ==
  LET a == Alloc(FreeMem(s, l), s.obj[l].dom, n, ok)
  IN  [s |-> IF a.threw THEN a.s
             ELSE SetMem(a.s, l, a.ptr, s.obj[l].cap, s.obj[l].dom),
       threw |-> a.threw]

\* The left side's growth to capacity n.  When alloc throws, the old block is gone
\* and the left side still points to it.
Regrow(s, l, n, ok) ==
  LET a == Alloc(FreeMem(s, l), s.obj[l].dom, n, ok)
  IN  [s |-> IF a.threw THEN a.s ELSE SetMem(a.s, l, a.ptr, n, s.obj[l].dom),
       threw |-> a.threw]

\* operator=(pressio_memory const&): the left side keeps its domain and grows
\* when the right side does not fit.
AssignMem(s, l, r, ok) ==
  LET L == s.obj[l]
      R == s.obj[r]
      g == IF L.dom # NoDomain /\ L.cap < R.cap THEN Regrow(s, l, R.cap, ok)
           ELSE [s |-> s, threw |-> FALSE]
  IN  IF l = r THEN [s |-> s, threw |-> FALSE]
      ELSE IF g.threw THEN g
      ELSE [s |-> CopyBytes(g.s, l, r), threw |-> FALSE]

\* Mutant: the right side keeps its pointer.
MoveAssignMem_Shares(s, l, r) ==
  LET R == s.obj[r] IN SetMem(s, l, R.ptr, R.cap, R.dom)

\* operator=(pressio_memory&&): the left side drops what it had.
MoveAssignMem(s, l, r) ==
  LET R == s.obj[r]
  IN  SetMem(SetMem(s, l, R.ptr, R.cap, R.dom), r, Null, 0, NoDomain)

\* Mutant: a constructor that throws has already set the members.
OwningMem_HalfBuilt(s, o, n, d, ok) ==
  LET a == Alloc(s, d, n, ok)
  IN  [s |-> SetMem(a.s, o, a.ptr, n, d), threw |-> a.threw]

\* pressio_memory(n, domain)
OwningMem(s, o, n, d, ok) ==
  LET a == Alloc(s, d, n, ok)
  IN  IF a.threw THEN [s |-> s, threw |-> TRUE]
      ELSE [s |-> SetMem(a.s, o, a.ptr, n, d), threw |-> FALSE]

\* pressio_memory(ptr, n, domain) and, with Null and 0, pressio_memory(domain)
AdoptMem(s, o, p, n, d) == SetMem(s, o, p, n, d)

\* pressio_memory(rhs, domain); the copy constructor passes rhs's own domain,
\* cloned.
CopyMem(s, o, r, d, ok) ==
  LET a == OwningMem(s, o, s.obj[r].cap, d, ok)
  IN  IF a.threw THEN a ELSE AssignMem(a.s, o, r, ok)

\* Mutant: release() returns the pointer and keeps it.
ReleaseMem_Keeps(s, o) == s

\* release()
ReleaseMem(s, o) == [s EXCEPT !.obj[o].ptr = Null]

\* reset(ptr): the capacity stays what it was.
ResetMem(s, o, p) == [FreeMem(s, o) EXCEPT !.obj[o].ptr = p]
=============================================================================

---------------------------- MODULE PressioData ----------------------------
(***************************************************************************)
(* pressio_data: a pressio_memory with a shape.  A program constructs,     *)
(* copies, moves, assigns, reshapes and destroys such objects in any       *)
(* order, and hands buffers of its own in and out of them.                 *)
(*                                                                         *)
(* The shape is abstracted to the number of elements "num" and the size of *)
(* an element "width"; a buffer's contents to one tag.                     *)
(***************************************************************************)
EXTENDS PressioMemory

CONSTANTS
  Nums,     \* the element counts the program asks for, a bound
  Widths,   \* the element sizes of the dtypes it uses
  Liberties \* what the program does that a careful one would not, see below

ASSUME ShapeAssumption == Nums \subseteq Nat /\ Widths \subseteq Nat \ {0}

(***************************************************************************)
(* The liberties a program may take with the interface:                    *)
(*   alloc_fails    it runs where the allocators may run out of memory     *)
(*   cross_domain   it copies between buffers of different domain ids      *)
(*   stale_capacity it copies objects whose capacity is not that of their  *)
(*                  buffer: released, reset, or views of nothing           *)
(*   move_over      it moves into, or grows, an object that owns a buffer  *)
(*   resize         it raises num or width above what the capacity holds   *)
(*   empty_source   it copies an object that has a shape but no data       *)
(*   small_view     it copies into a view that is too small, which throws  *)
(*                  once the view's shape is changed                       *)
(*   misfit         it hands the domain manager a destination of another   *)
(*                  size than the source                                   *)
(***************************************************************************)
ASSUME LibertyAssumption ==
  Liberties \subseteq {"alloc_fails", "cross_domain", "stale_capacity",
                       "move_over", "resize", "empty_source", "small_view", "misfit"}

May(l) == l \in Liberties

VARIABLES
  heap,    \* the blocks of the allocators
  obj,     \* the pressio_data objects
  live,    \* those that are constructed
  caller,  \* the blocks the caller must free itself
  faults   \* the breaches of a domain's contract in the last step

vars == <<heap, obj, live, caller, faults>>

Now == [heap |-> heap, obj |-> obj, caller |-> caller, faults |-> {}]

Become(s) ==
  /\ heap' = s.heap
  /\ obj' = s.obj
  /\ caller' = s.caller
  /\ faults' = s.faults

-----------------------------------------------------------------------------
SizeInBytes(o) == obj[o].num * obj[o].width

\* has_data()
HasData(o) == obj[o].ptr # Null /\ SizeInBytes(o) > 0

SetShape(s, o, n, w) ==
  [s EXCEPT !.obj[o] = [@ EXCEPT !.num = n, !.width = w]]

\* Memory is there, or the allocator may fail.
MayAllocate(ok) == IF ok THEN Room(Now) ELSE May("alloc_fails")

\* The object's domain pointer is not null.
HasDomain(o) == obj[o].dom # NoDomain

\* The capacity an object states is the capacity of its buffer.
Coherent(o) ==
  IF obj[o].ptr = Null THEN obj[o].cap = 0 ELSE obj[o].cap <= heap[obj[o].ptr].cap

\* A view does not outlive the buffer it views.
NotDangling(o) == obj[o].ptr # Null => heap[obj[o].ptr].st = "live"

\* What a careful program copies from.
CopySource(o) ==
  /\ HasDomain(o)
  /\ NotDangling(o)
  /\ Coherent(o) \/ May("stale_capacity")
  /\ (SizeInBytes(o) > obj[o].cap) => May("empty_source")

\* The end of a constructor: a constructor that throws leaves no object.
Constructed(o, r, n, w) ==
  IF r.threw THEN Become(r.s) /\ UNCHANGED live
  ELSE Become(SetShape(r.s, o, n, w)) /\ live' = live \cup {o}

-----------------------------------------------------------------------------
(***************************************************************************)
(* Constructors.                                                           *)
(***************************************************************************)

\* pressio_data::empty
EmptyData(o, d, n, w) ==
  /\ o \notin live
  /\ Constructed(o, [s |-> AdoptMem(Now, o, Null, 0, d), threw |-> FALSE], n, w)

\* pressio_data::owning(dtype, dimensions, domain)
OwningData(o, d, n, w, ok) ==
  /\ o \notin live
  /\ MayAllocate(ok)
  /\ Constructed(o, OwningMem(Now, o, n * w, d, ok), n, w)

\* pressio_data::owning(src): same domain and shape, no contents.
OwningLike(o, src, ok) ==
  /\ o \notin live /\ src \in live
  /\ HasDomain(src)
  /\ MayAllocate(ok)
  /\ Constructed(o, OwningMem(Now, o, SizeInBytes(src), obj[src].dom, ok),
                 obj[src].num, obj[src].width)

\* pressio_data::nonowning(src): a view that names the source's domain id. The
\* view's domain asks the domain of that id what it can access, whether or not
\* the registry built one.
NonowningData(o, src) ==
  /\ o \notin live /\ src \in live
  /\ HasDomain(src)
  /\ IF Build(obj[src].dom.id) = NoDomain
     THEN /\ faults' = {"null_domain"}
          /\ UNCHANGED <<heap, obj, live, caller>>
     ELSE Constructed(o, [s |-> AdoptMem(Now, o, obj[src].ptr, SizeInBytes(src),
                                         Nonowning(obj[src].dom.id)),
                          threw |-> FALSE],
                      obj[src].num, obj[src].width)

\* pressio_data::nonowning(dtype, ptr, dimensions)
ViewCaller(o, b, n, w) ==
  /\ o \notin live /\ b \in caller
  /\ n * w <= heap[b].cap
  /\ Constructed(o, [s |-> AdoptMem(Now, o, b, n * w, Nonowning("malloc")),
                     threw |-> FALSE], n, w)

\* pressio_data::copy(dtype, src, dimensions, domain_id): the source pointer is
\* taken to be in the malloc domain, the copy is the destination domain's.
CopyCaller(o, b, d, n, w, ok) ==
  LET a == OwningMem(Now, o, n * w, Build(d.id), ok)
      s == Memcpy(a.s, Build(d.id), a.s.obj[o].ptr, b, n * w, "malloc")
  IN  /\ o \notin live /\ b \in caller
      /\ Build(d.id) # NoDomain
      /\ n * w <= heap[b].cap
      /\ d.id # "malloc" => May("cross_domain")
      /\ MayAllocate(ok)
      /\ Constructed(o, IF a.threw \/ n * w = 0 THEN a
                        ELSE [s |-> s, threw |-> FALSE], n, w)

\* pressio_data::move(dtype, ptr, dimensions, deleter or domain): the caller
\* names a deleter that suits its buffer and the buffer's size.
MoveCaller(o, b, d, n, w) ==
  /\ o \notin live /\ b \in caller
  /\ d.free \in {"none", heap[b].by}
  /\ n * w = heap[b].cap
  /\ LET s == [Now EXCEPT !.caller = IF d.free = "none" THEN @ ELSE @ \ {b}]
     IN  Constructed(o, [s |-> AdoptMem(s, o, b, n * w, d), threw |-> FALSE], n, w)

\* pressio_data::clone(src): src's domain when it can allocate, else the one its
\* id names.
CloneData(o, src, ok) ==
  LET d == IF obj[src].dom.prefix = obj[src].dom.id THEN obj[src].dom
           ELSE Build(obj[src].dom.id)
  IN  /\ o \notin live /\ src \in live
      /\ CopySource(src) /\ d # NoDomain
      /\ MayAllocate(ok)
      /\ Constructed(o, CopyMem(Now, o, src, d, ok), obj[src].num, obj[src].width)

\* pressio_data(pressio_data const&)
CopyConstruct(o, src, ok) ==
  LET d == CloneDomain(obj[src].dom)
  IN  /\ o \notin live /\ src \in live
      /\ CopySource(src) /\ d # NoDomain
      /\ MayAllocate(ok)
      /\ Constructed(o, CopyMem(Now, o, src, d, ok), obj[src].num, obj[src].width)

\* pressio_data(pressio_data&&)
MoveConstruct(o, src) ==
  LET s == SetMem(SetMem(Now, o, obj[src].ptr, obj[src].cap, obj[src].dom),
                  src, Null, 0, NoDomain)
  IN  /\ o \notin live /\ src \in live
      /\ Constructed(o, [s |-> SetShape(s, src, 0, obj[src].width),
                         threw |-> FALSE],
                     obj[src].num, obj[src].width)

-----------------------------------------------------------------------------
(***************************************************************************)
(* Assignments, the destructor and the in-place operations.                *)
(***************************************************************************)

\* operator=(pressio_data const&): the shape is assigned before the memory.
CopyAssign(l, r, ok) ==
  LET shaped == SetShape(Now, l, obj[r].num, obj[r].width)
  IN  /\ l \in live /\ r \in live
      /\ CopySource(r)
      /\ NotDangling(l)
      /\ Coherent(l) \/ May("stale_capacity")
      /\ HasDomain(l) /\ obj[l].dom.id # obj[r].dom.id => May("cross_domain")
      /\ obj[l].dom.prefix = "nonowning" /\ obj[l].cap < obj[r].cap
           => May("small_view")
      /\ MayAllocate(ok)
      /\ Become(AssignMem(shaped, l, r, ok).s)
      /\ UNCHANGED live

\* operator=(pressio_data&&), not onto itself.
MoveAssign(l, r) ==
  LET shaped == SetShape(Now, l, obj[r].num, obj[r].width)
  IN  /\ l \in live /\ r \in live /\ l # r
      /\ Owns(Now, l) => May("move_over")
      /\ Become(SetShape(MoveAssignMem(shaped, l, r), r, 0, obj[r].width))
      /\ UNCHANGED live

\* ~pressio_data
Destroy(o) ==
  /\ o \in live
  /\ Become([FreeMem(Now, o) EXCEPT !.obj[o] = NoObject])
  /\ live' = live \ {o}

\* release(): the caller answers for the buffer from now on.
Release(o) ==
  /\ o \in live
  /\ Owns(Now, o) => May("stale_capacity")
  /\ Become([ReleaseMem(Now, o) EXCEPT
               !.caller = IF Owns(Now, o) THEN @ \cup {obj[o].ptr} ELSE @])
  /\ UNCHANGED live

\* reset(ptr): the object's domain must be able to free ptr.
Reset(o, p) ==
  /\ o \in live
  /\ p # Null => p \in caller /\ obj[o].dom.free \in {"none", heap[p].by}
  /\ \/ /\ HasDomain(o) /\ p # Null
        /\ heap[p].cap = obj[o].cap /\ SizeInBytes(o) <= obj[o].cap
     \/ May("stale_capacity")
  /\ LET s == [Now EXCEPT !.caller =
                 IF obj[o].dom.free = "none" THEN @ ELSE @ \ {p}]
     IN  Become(ResetMem(s, o, p))
  /\ UNCHANGED live

\* set_dimensions(dims): a new buffer replaces one that is too small.  The new
\* buffer is built in a temporary, here the object itself.
SetDimensions(o, n, ok) ==
  LET size == n * obj[o].width
      a    == Alloc(Now, obj[o].dom, size, ok)
  IN  /\ o \in live
      /\ IF obj[o].cap < size
         THEN /\ HasDomain(o)
              /\ Owns(Now, o) => May("move_over")
              /\ MayAllocate(ok)
              /\ IF a.threw THEN Become(a.s)
                 ELSE Become(SetShape(SetMem(a.s, o, a.ptr, size, obj[o].dom),
                                      o, n, obj[o].width))
         ELSE ok /\ Become(SetShape(Now, o, n, obj[o].width))
      /\ UNCHANGED live

\* reshape(dims) and set_dtype(dtype) leave the buffer alone.
Reshape(o, n, w) ==
  /\ o \in live
  /\ n * w > obj[o].cap => May("resize")
  /\ Become(SetShape(Now, o, n, w))
  /\ UNCHANGED live

\* The program fills the buffer through data().
Write(o, t) ==
  /\ o \in live /\ HasData(o)
  /\ InRange(Now, obj[o].ptr, SizeInBytes(o))
  /\ Become([Now EXCEPT !.heap[obj[o].ptr].tag = t])
  /\ UNCHANGED live

-----------------------------------------------------------------------------
(***************************************************************************)
(* The program's own buffers.                                              *)
(***************************************************************************)
CallerAlloc(k, n) ==
  /\ Room(Now)
  /\ Become([Now EXCEPT
               !.heap[Fresh(Now)] =
                 [st |-> "live", by |-> k, cap |-> n, tag |-> "junk"],
               !.caller = @ \cup {Fresh(Now)}])
  /\ UNCHANGED live

CallerFree(b) ==
  /\ b \in caller
  /\ Become([Now EXCEPT !.heap[b] = FreedBlock, !.caller = @ \ {b}])
  /\ UNCHANGED live

-----------------------------------------------------------------------------
Init ==
  /\ heap = [b \in Blocks |-> UnusedBlock]
  /\ obj = [o \in Objs |-> NoObject]
  /\ live = {}
  /\ caller = {}
  /\ faults = {}

Sizes == {n * w : n \in Nums, w \in Widths}

\* What the program may ask its own allocators for.
CallerKinds == {d.free : d \in Domains} \ {"none"}

Construct(o) ==
  \/ \E d \in Domains, n \in Nums, w \in Widths : EmptyData(o, d, n, w)
  \/ \E d \in Domains, n \in Nums, w \in Widths, ok \in BOOLEAN :
       OwningData(o, d, n, w, ok)
  \/ \E src \in Objs, ok \in BOOLEAN : OwningLike(o, src, ok)
  \/ \E src \in Objs : NonowningData(o, src)
  \/ \E b \in Blocks, n \in Nums, w \in Widths : ViewCaller(o, b, n, w)
  \/ \E b \in Blocks, d \in Domains, n \in Nums, w \in Widths, ok \in BOOLEAN :
       CopyCaller(o, b, d, n, w, ok)
  \/ \E b \in Blocks, d \in Domains, n \in Nums, w \in Widths :
       MoveCaller(o, b, d, n, w)
  \/ \E src \in Objs, ok \in BOOLEAN : CloneData(o, src, ok)
  \/ \E src \in Objs, ok \in BOOLEAN : CopyConstruct(o, src, ok)
  \/ \E src \in Objs : MoveConstruct(o, src)

Change(o) ==
  \/ \E r \in Objs, ok \in BOOLEAN : CopyAssign(o, r, ok)
  \/ \E r \in Objs : MoveAssign(o, r)
  \/ Destroy(o)
  \/ Release(o)
  \/ \E p \in Blocks \cup {Null} : Reset(o, p)
  \/ \E n \in Nums, ok \in BOOLEAN : SetDimensions(o, n, ok)
  \/ \E n \in Nums, w \in Widths : Reshape(o, n, w)
  \/ \E t \in Tags : Write(o, t)

Next ==
  \/ \E o \in Objs : Construct(o) \/ Change(o)
  \/ \E k \in CallerKinds, n \in Sizes : CallerAlloc(k, n)
  \/ \E b \in Blocks : CallerFree(b)

Spec == Init /\ [][Next]_vars

-----------------------------------------------------------------------------
(***************************************************************************)
(* Properties.                                                             *)
(***************************************************************************)

\* The variables have the types of the code's fields, and an object that is not
\* constructed holds nothing (pressio_data and pressio_memory's members).
TypeOK ==
  /\ Now \in Store
  /\ faults \subseteq Fault
  /\ live \subseteq Objs
  /\ \A o \in Objs \ live : obj[o] = NoObject

\* Every buffer has one owner: no two objects free the same block, and none
\* frees a block the caller was given by release() or has not handed over
\* (the constructors, assignments, release and reset of pressio_memory).
OneOwner ==
  /\ \A o \in Objs : Owns(Now, o) => obj[o].ptr \notin caller
  /\ \A o, p \in Objs :
       Owns(Now, o) /\ Owns(Now, p) /\ o # p => obj[o].ptr # obj[p].ptr

\* What an object will free is still allocated, and by the allocator its domain
\* frees with (domain_id "MUST construct an allocator that can free").
OwnedIsLive ==
  \A o \in Objs : Owns(Now, o) =>
    /\ heap[obj[o].ptr].st = "live"
    /\ heap[obj[o].ptr].by = obj[o].dom.free

\* What an object will free is there to be freed, and nobody else's to free.
OwnedOnce == OneOwner /\ OwnedIsLive

\* No block is freed twice, whatever order objects are copied, moved, assigned
\* and destroyed in (pressio_domain::free: a pointer is not used after free).
FreedOnce == "double_free" \notin faults

\* No block goes to a deallocator of another kind than its allocator
\* (pressio_domain::free: the pointer was "previously allocated by alloc").
FreedByItsKind == "wrong_free" \notin faults

\* Each block is freed at most once, and by the deallocator that suits it.
FreedRightly == FreedOnce /\ FreedByItsKind

\* free is told the capacity alloc was asked for (pressio_domain::free).
FreedAtItsSize == "free_size" \notin faults

\* memcpy stays inside both buffers (pressio_domain::memcpy's capacity clause).
CopiesInRange == "copy_range" \notin faults

\* memcpy is only asked to copy between equal domains (pressio_domain::memcpy).
CopiesInDomain == "copy_domain" \notin faults

\* Whatever an object has been through, its capacity is the one its block was
\* allocated with, as far as the calls into domains can tell.
ContractKept == FreedAtItsSize /\ CopiesInRange /\ CopiesInDomain

\* Every allocated block is owned by an object or by the caller: nothing leaks
\* (~pressio_memory "frees a pressio_memory").
Owned(b) == b \in caller \/ \E o \in Objs : Owns(Now, o) /\ obj[o].ptr = b
NoLeak == \A b \in Blocks : heap[b].st = "live" => Owned(b)

\* An object that says it has data has all of it: the size its shape gives never
\* exceeds its capacity, nor its buffer's (pressio_data's constructor means to
\* throw otherwise).
SizeWithinCapacity ==
  \A o \in live : HasData(o) /\ NotDangling(o) =>
    /\ SizeInBytes(o) <= obj[o].cap
    /\ SizeInBytes(o) <= heap[obj[o].ptr].cap

\* An object's capacity is the truth, whatever it has been through: the domains are
\* asked for copies and frees that fit the blocks, and its shape fits its capacity.
CapacityTrue == ContractKept /\ SizeWithinCapacity

\* What an object with data holds.
Contents(o) == IF HasData(o) THEN heap[obj[o].ptr].tag ELSE "junk"
=============================================================================

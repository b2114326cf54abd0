------------------------ MODULE DomainManagerProofs ------------------------
(***************************************************************************)
(* Proofs about pressio_data and the domain manager, for any number of     *)
(* blocks, objects, domains and shapes.  First ownership: while the        *)
(* allocators have memory and every domain frees what it allocates, a      *)
(* block has one owner and is freed once, by its own kind of deallocator.  *)
(* Then what a careful program gets: no block leaks, every capacity is the *)
(* truth, and no copy leaves its buffers or its domain, whether the        *)
(* program uses pressio_data alone or asks the domain manager.             *)
(***************************************************************************)
EXTENDS DomainManager, TLAPS

\* A domain that frees what it allocates; one that frees buffers it cannot
\* allocate does not throw when it is asked to.
Sound(d) ==
  /\ d \in Domain
  /\ d.free # "none" => \/ d.alloc = d.free
                        \/ d.alloc = "none" /\ d.fail = "null"

\* The object will free a live block of its own kind that nobody else answers for.
Fits(s, o) ==
  Owns(s, o) => /\ s.heap[s.obj[o].ptr].st = "live"
                /\ s.heap[s.obj[o].ptr].by = s.obj[o].dom.free
                /\ s.obj[o].ptr \notin s.caller

Apart(s, o, p) ==
  Owns(s, o) /\ Owns(s, p) /\ o # p => s.obj[o].ptr # s.obj[p].ptr

\* A store in which the objects of X own their blocks.
Good(s, X) ==
  /\ s \in Store
  /\ "double_free" \notin s.faults /\ "wrong_free" \notin s.faults
  /\ \A b \in s.caller : s.heap[b].st = "live"
  /\ \A o \in Objs : Sound(s.obj[o].dom)
  /\ \A o \in X : Fits(s, o)
  /\ \A o, p \in X : Apart(s, o, p)

\* Only object o may differ between two stores.
Framed(s, t, o) == \A p \in Objs : p # o => t.obj[p] = s.obj[p]

\* Block p can be given to object o under domain d.
Free4(s, p, o, d) ==
  p # Null /\ d.free # "none" =>
    /\ s.heap[p].st = "live" /\ s.heap[p].by = d.free /\ p \notin s.caller
    /\ \A q \in Objs \ {o} : Owns(s, q) => s.obj[q].ptr # p

-----------------------------------------------------------------------------
LEMMA FreeGood ==
  ASSUME NEW s, Good(s, Objs), NEW o \in Objs
  PROVE  /\ Good(FreeMem(s, o), Objs \ {o})
         /\ FreeMem(s, o).obj = s.obj
         /\ FreeMem(s, o).caller = s.caller
         /\ Room(s) => Room(FreeMem(s, o))
PROOF
<1> DEFINE p == s.obj[o].ptr
           t == FreeMem(s, o)
<1>1. CASE p = Null \/ s.obj[o].dom.free = "none"
  <2>1. t = s
    BY <1>1 DEF FreeMem, Free
  <2> QED
    BY <2>1 DEF Good
<1>2. CASE p # Null /\ s.obj[o].dom.free # "none"
  <2>1. s \in Store /\ p \in Blocks
    BY <1>2 DEF Good, Store, Object
  <2>2. s.heap[p].st = "live" /\ s.heap[p].by = s.obj[o].dom.free /\ p \notin s.caller
    BY <1>2 DEF Good, Fits, Owns
  <2>3. FreeFaults(s, s.obj[o].dom, p, s.obj[o].cap) \subseteq {"free_size"}
    BY <2>2 DEF FreeFaults
  <2>4. t = [s EXCEPT !.heap[p] = FreedBlock,
                      !.faults = @ \cup FreeFaults(s, s.obj[o].dom, p, s.obj[o].cap)]
    BY <1>2 DEF FreeMem, Free
  <2>5. /\ t.obj = s.obj /\ t.caller = s.caller
        /\ t.heap = [s.heap EXCEPT ![p] = FreedBlock]
        /\ t.faults = s.faults \cup FreeFaults(s, s.obj[o].dom, p, s.obj[o].cap)
    BY <2>1, <2>4 DEF Store
  <2>6. t \in Store
    <3>1. t.heap \in [Blocks -> Block]
      BY <2>1, <2>5 DEF Store, Block, FreedBlock
    <3>2. t.faults \in SUBSET Fault
      BY <2>1, <2>3, <2>5 DEF Store, Fault
    <3> QED
      BY <2>1, <2>4, <3>1, <3>2 DEF Store
  <2>7. "double_free" \notin t.faults /\ "wrong_free" \notin t.faults
    BY <2>3, <2>5 DEF Good
  <2>8. \A b \in t.caller : t.heap[b].st = "live"
    BY <2>1, <2>2, <2>5 DEF Good, Store
  <2>9. \A q \in Objs \ {o} : Owns(s, q) => s.obj[q].ptr # p
    BY <1>2 DEF Good, Apart, Owns
  <2>10. \A q \in Objs \ {o} : Fits(t, q)
    BY <2>1, <2>5, <2>9 DEF Good, Fits, Owns, Store, Object
  <2>11. \A q, r \in Objs \ {o} : Apart(t, q, r)
    BY <2>5 DEF Good, Apart, Owns
  <2>12. Room(s) => Room(t)
    BY <2>1, <2>2, <2>5 DEF Room, Store
  <2> QED
    BY <2>5, <2>6, <2>7, <2>8, <2>10, <2>11, <2>12 DEF Good
<1> QED
  BY <1>1, <1>2

LEMMA AllocGood ==
  ASSUME NEW s, NEW X \in SUBSET Objs, Good(s, X), NEW d, Sound(d),
         NEW n \in Nat, Room(s)
  PROVE  LET a == Alloc(s, d, n, TRUE)
         IN  /\ Good(a.s, X)
             /\ a.s.obj = s.obj
             /\ a.s.caller = s.caller
             /\ a.ptr \in Blocks \cup {Null}
             /\ a.ptr # Null /\ d.free # "none" =>
                  /\ a.s.heap[a.ptr].st = "live" /\ a.s.heap[a.ptr].by = d.free
                  /\ a.ptr \notin s.caller
                  /\ \A q \in X : Owns(s, q) => s.obj[q].ptr # a.ptr
             /\ a.threw \in BOOLEAN
             /\ a.threw => a.s = s /\ d.free = "none"
PROOF
<1> DEFINE a == Alloc(s, d, n, TRUE)
           f == Fresh(s)
<1> SUFFICES /\ Good(a.s, X)
             /\ a.s.obj = s.obj
             /\ a.s.caller = s.caller
             /\ a.ptr \in Blocks \cup {Null}
             /\ a.ptr # Null /\ d.free # "none" =>
                  /\ a.s.heap[a.ptr].st = "live" /\ a.s.heap[a.ptr].by = d.free
                  /\ a.ptr \notin s.caller
                  /\ \A q \in X : Owns(s, q) => s.obj[q].ptr # a.ptr
             /\ a.threw \in BOOLEAN
             /\ a.threw => a.s = s /\ d.free = "none"
  OBVIOUS
<1>1. CASE d.alloc = "none"
  <2>1. a = [s |-> s, ptr |-> Null, threw |-> d.fail = "throw"]
    BY <1>1 DEF Alloc
  <2> HIDE DEF a
  <2>2. a.s = s /\ a.ptr = Null /\ a.threw = (d.fail = "throw")
    BY <2>1
  <2>3. a.threw => d.free = "none"
    BY <2>2, <1>1 DEF Sound, Domain
  <2> QED
    BY <2>2, <2>3
<1>2. CASE d.alloc # "none"
  <2>1. f \in Blocks /\ s.heap[f].st = "unused"
    BY DEF Room, Fresh
  <2>2. a = [s |-> [s EXCEPT !.heap[f] =
                 [st |-> "live", by |-> d.alloc, cap |-> n, tag |-> "junk"]],
             ptr |-> f, threw |-> FALSE]
    BY <1>2 DEF Alloc
  <2> HIDE DEF f, a
  <2>3. /\ a.ptr = f /\ a.threw = FALSE
        /\ a.s = [s EXCEPT !.heap[f] =
                   [st |-> "live", by |-> d.alloc, cap |-> n, tag |-> "junk"]]
    BY <2>2
  <2>4. s \in Store
    BY DEF Good
  <2>5. /\ a.s.obj = s.obj /\ a.s.caller = s.caller /\ a.s.faults = s.faults
        /\ a.s.heap = [s.heap EXCEPT ![f] =
                   [st |-> "live", by |-> d.alloc, cap |-> n, tag |-> "junk"]]
    BY <2>3, <2>4 DEF Store
  <2>6. a.s \in Store
    <3>1. [st |-> "live", by |-> d.alloc, cap |-> n, tag |-> "junk"] \in Block
      BY DEF Block, Sound, Domain
    <3>2. a.s.heap \in [Blocks -> Block]
      BY <2>1, <2>4, <2>5, <3>1 DEF Store
    <3> QED
      BY <2>3, <2>4, <2>5, <3>2 DEF Store
  <2>7. f \notin s.caller
    BY <2>1 DEF Good
  <2>8. \A q \in X : Owns(s, q) => s.obj[q].ptr # f
    BY <2>1 DEF Good, Fits
  <2>9. a.s.heap[f].st = "live" /\ a.s.heap[f].by = d.alloc
    BY <2>1, <2>4, <2>5 DEF Store
  <2>10. d.free # "none" => d.alloc = d.free
    BY <1>2 DEF Sound
  <2>11. \A b \in Blocks : b # f => a.s.heap[b] = s.heap[b]
    BY <2>4, <2>5 DEF Store
  <2>12. \A b \in a.s.caller : a.s.heap[b].st = "live"
    BY <2>4, <2>5, <2>7, <2>11 DEF Good, Store
  <2>13. \A q \in X : Fits(a.s, q)
    BY <2>4, <2>5, <2>8, <2>11 DEF Good, Fits, Owns, Store, Object
  <2>14. \A q, r \in X : Apart(a.s, q, r)
    BY <2>5 DEF Good, Apart, Owns
  <2>15. Good(a.s, X)
    BY <2>5, <2>6, <2>12, <2>13, <2>14 DEF Good
  <2> QED
    BY <2>1, <2>3, <2>5, <2>7, <2>8, <2>9, <2>10, <2>15
<1> QED
  BY <1>1, <1>2

\* Changing object o, the only one unaccounted for, to one whose block is free for it.
Put(s, o, O) == [s EXCEPT !.obj[o] = O]

LEMMA PutGood ==
  ASSUME NEW s, NEW o \in Objs, Good(s, Objs \ {o}), NEW O \in Object,
         Sound(O.dom), Free4(s, O.ptr, o, O.dom)
  PROVE  /\ Good(Put(s, o, O), Objs)
         /\ Framed(s, Put(s, o, O), o)
         /\ Put(s, o, O).obj[o] = O
         /\ Put(s, o, O).heap = s.heap
         /\ Put(s, o, O).caller = s.caller
PROOF
<1> DEFINE t == Put(s, o, O)
<1>2. t = [s EXCEPT !.obj[o] = O]
  BY DEF Put
<1> HIDE DEF t
<1>1. s \in Store
  BY DEF Good
<1>4. /\ t.heap = s.heap /\ t.caller = s.caller /\ t.faults = s.faults
      /\ t.obj = [s.obj EXCEPT ![o] = O]
  BY <1>1, <1>2 DEF Store
<1>5. t.obj[o] = O /\ \A q \in Objs \ {o} : t.obj[q] = s.obj[q]
  BY <1>1, <1>4 DEF Store
<1>6. t \in Store
  BY <1>1, <1>2, <1>4 DEF Store
<1>7. \A q \in Objs : Sound(t.obj[q].dom)
  BY <1>5 DEF Good
<1>8. Fits(t, o)
  BY <1>4, <1>5 DEF Fits, Owns, Free4
<1>9. \A q \in Objs \ {o} : Fits(t, q)
  BY <1>4, <1>5 DEF Good, Fits, Owns
<1>10. \A q \in Objs \ {o} : Owns(t, q) /\ Owns(t, o) => t.obj[q].ptr # O.ptr
  BY <1>5 DEF Free4, Owns
<1>11. \A q, r \in Objs \ {o} : Apart(t, q, r)
  BY <1>5 DEF Good, Apart, Owns
<1>12. \A q, r \in Objs : Apart(t, q, r)
  BY <1>5, <1>10, <1>11 DEF Apart
<1>13. Good(t, Objs)
  BY <1>4, <1>6, <1>7, <1>8, <1>9, <1>12 DEF Good
<1> QED
  BY <1>4, <1>5, <1>13 DEF Framed, t

\* The same, in terms of what pressio_memory's constructors set.
LEMMA PointGood ==
  ASSUME NEW s, NEW o \in Objs, Good(s, Objs \ {o}),
         NEW p \in Blocks \cup {Null}, NEW n \in Nat, NEW d, Sound(d),
         Free4(s, p, o, d)
  PROVE  /\ Good(SetMem(s, o, p, n, d), Objs)
         /\ Framed(s, SetMem(s, o, p, n, d), o)
         /\ SetMem(s, o, p, n, d).heap = s.heap
         /\ SetMem(s, o, p, n, d).caller = s.caller
PROOF
<1> DEFINE O == [s.obj[o] EXCEPT !.ptr = p, !.cap = n, !.dom = d]
           t == SetMem(s, o, p, n, d)
<1>1. s \in Store
  BY DEF Good
<1>2. O \in Object /\ O.ptr = p /\ O.dom = d
  BY <1>1 DEF Store, Object, Sound
<1>3. t = Put(s, o, O)
  BY DEF SetMem, Put
<1> HIDE DEF O, t
<1>5. Sound(O.dom) /\ Free4(s, O.ptr, o, O.dom)
  BY <1>2
<1>4. Good(t, Objs) /\ Framed(s, t, o) /\ t.heap = s.heap /\ t.caller = s.caller
  BY <1>2, <1>3, <1>5, PutGood
<1> QED
  BY <1>4 DEF t

\* A change of the heap or of the caller's blocks that leaves what objects own.
LEMMA KeepGood ==
  ASSUME NEW s, Good(s, Objs), NEW t \in Store, t.obj = s.obj,
         "double_free" \notin t.faults, "wrong_free" \notin t.faults,
         \A b \in t.caller : t.heap[b].st = "live",
         \A q \in Objs : Owns(s, q) =>
           /\ t.heap[s.obj[q].ptr].st = s.heap[s.obj[q].ptr].st
           /\ t.heap[s.obj[q].ptr].by = s.heap[s.obj[q].ptr].by
           /\ s.obj[q].ptr \notin t.caller
  PROVE  Good(t, Objs)
PROOF
<1>1. \A q \in Objs : Fits(t, q)
  BY DEF Good, Fits, Owns
<1>2. \A q, r \in Objs : Apart(t, q, r)
  BY DEF Good, Apart, Owns
<1>3. \A q \in Objs : Sound(t.obj[q].dom)
  BY DEF Good
<1> QED
  BY <1>1, <1>2, <1>3 DEF Good

\* A copy writes contents and can only be out of range or across domains.
LEMMA MemcpyGood ==
  ASSUME NEW s, NEW X \in SUBSET Objs, Good(s, X), NEW d, NEW p, NEW q,
         NEW n, NEW id, p \in Blocks \cup {Null}, q \in Blocks \cup {Null}
  PROVE  /\ Good(Memcpy(s, d, p, q, n, id), X)
         /\ Memcpy(s, d, p, q, n, id).obj = s.obj
         /\ Memcpy(s, d, p, q, n, id).caller = s.caller
         /\ \A b \in Blocks : /\ Memcpy(s, d, p, q, n, id).heap[b].st = s.heap[b].st
                             /\ Memcpy(s, d, p, q, n, id).heap[b].by = s.heap[b].by
PROOF
<1> DEFINE t == Memcpy(s, d, p, q, n, id)
<1>1. s \in Store
  BY DEF Good
<1>2. /\ t \in Store /\ t.obj = s.obj /\ t.caller = s.caller
      /\ t.faults \subseteq s.faults \cup {"copy_range", "copy_domain"}
      /\ \A b \in Blocks : t.heap[b].st = s.heap[b].st /\ t.heap[b].by = s.heap[b].by
  <2>1. CASE d.prefix = "nonowning"
    BY <1>1, <2>1 DEF Memcpy
  <2>2. CASE d.prefix # "nonowning" /\ ~(InRange(s, p, n) /\ InRange(s, q, n))
    <3>1. t = [s EXCEPT !.faults = @ \cup {"copy_range"}]
      BY <2>2 DEF Memcpy
    <3> HIDE DEF t
    <3>2. /\ t.heap = s.heap /\ t.obj = s.obj /\ t.caller = s.caller
          /\ t.faults = s.faults \cup {"copy_range"}
      BY <1>1, <3>1 DEF Store
    <3>3. t.faults \in SUBSET Fault
      BY <1>1, <3>2 DEF Store, Fault
    <3>4. t \in Store
      BY <1>1, <3>1, <3>2, <3>3 DEF Store
    <3> QED
      BY <3>2, <3>4
  <2>3. CASE d.prefix # "nonowning" /\ InRange(s, p, n) /\ InRange(s, q, n)
    <3> DEFINE F == IF d.id # id THEN {"copy_domain"} ELSE {}
    <3>1. t = [s EXCEPT !.heap[p].tag = s.heap[q].tag, !.faults = @ \cup F]
      BY <2>3 DEF Memcpy
    <3>2. p \in Blocks /\ q \in Blocks
      BY <2>3 DEF InRange, IsLive
    <3>3. F \subseteq {"copy_domain"}
      OBVIOUS
    <3> HIDE DEF t, F
    <3>4. /\ t.heap = [s.heap EXCEPT ![p] = [@ EXCEPT !.tag = s.heap[q].tag]]
          /\ t.obj = s.obj /\ t.caller = s.caller /\ t.faults = s.faults \cup F
      BY <1>1, <3>1 DEF Store
    <3>5. [s.heap[p] EXCEPT !.tag = s.heap[q].tag] \in Block
      BY <1>1, <3>2 DEF Store, Block
    <3>6. t.heap \in [Blocks -> Block]
      BY <1>1, <3>2, <3>4, <3>5 DEF Store
    <3>7. t.faults \in SUBSET Fault
      BY <1>1, <3>3, <3>4 DEF Store, Fault
    <3>8. t \in Store
      BY <1>1, <3>1, <3>4, <3>6, <3>7 DEF Store
    <3>9. \A b \in Blocks : t.heap[b].st = s.heap[b].st /\ t.heap[b].by = s.heap[b].by
      BY <1>1, <3>2, <3>4 DEF Store, Block
    <3> QED
      BY <3>3, <3>4, <3>8, <3>9
  <2> QED
    BY <2>1, <2>2, <2>3
<1> HIDE DEF t
<1>3. \A b \in t.caller : t.heap[b].st = "live"
  BY <1>1, <1>2 DEF Good, Store
<1>4. \A o \in X : Fits(t, o)
  BY <1>1, <1>2 DEF Good, Fits, Owns, Store, Object
<1>5. \A o, r \in X : Apart(t, o, r)
  BY <1>2 DEF Good, Apart, Owns
<1>6. Good(t, X)
  BY <1>2, <1>3, <1>4, <1>5 DEF Good
<1> QED
  BY <1>2, <1>6 DEF t

LEMMA ShapeGood ==
  ASSUME NEW s, Good(s, Objs), NEW o \in Objs, NEW n \in Nat, NEW w \in Nat
  PROVE  /\ Good(SetShape(s, o, n, w), Objs)
         /\ Framed(s, SetShape(s, o, n, w), o)
         /\ SetShape(s, o, n, w).heap = s.heap
         /\ SetShape(s, o, n, w).caller = s.caller
         /\ SetShape(s, o, n, w).obj[o].ptr = s.obj[o].ptr
         /\ SetShape(s, o, n, w).obj[o].dom = s.obj[o].dom
         /\ SetShape(s, o, n, w).obj[o].cap = s.obj[o].cap
PROOF
<1> DEFINE O == [s.obj[o] EXCEPT !.num = n, !.width = w]
           t == SetShape(s, o, n, w)
<1>1. s \in Store
  BY DEF Good
<1>2. /\ O \in Object /\ O.ptr = s.obj[o].ptr /\ O.dom = s.obj[o].dom
      /\ O.cap = s.obj[o].cap
  BY <1>1 DEF Store, Object
<1>3. t = [s EXCEPT !.obj[o] = O]
  BY DEF SetShape
<1> HIDE DEF O, t
<1>4. /\ t.heap = s.heap /\ t.caller = s.caller /\ t.faults = s.faults
      /\ t.obj = [s.obj EXCEPT ![o] = O]
  BY <1>1, <1>3 DEF Store
<1>5. t.obj[o] = O /\ \A q \in Objs \ {o} : t.obj[q] = s.obj[q]
  BY <1>1, <1>4 DEF Store
<1>6. t \in Store
  BY <1>1, <1>2, <1>3, <1>4 DEF Store
<1>7. \A q \in Objs : t.obj[q].ptr = s.obj[q].ptr /\ t.obj[q].dom = s.obj[q].dom
  BY <1>2, <1>5
<1>8. Good(t, Objs)
  BY <1>4, <1>6, <1>7 DEF Good, Fits, Owns, Apart
<1> QED
  BY <1>2, <1>4, <1>5, <1>8 DEF t, Framed

LEMMA CopyBytesGood ==
  ASSUME NEW s, Good(s, Objs), NEW l \in Objs, NEW r \in Objs
  PROVE  Good(CopyBytes(s, l, r), Objs) /\ CopyBytes(s, l, r).obj = s.obj
PROOF
<1>1. s.obj[l].ptr \in Blocks \cup {Null} /\ s.obj[r].ptr \in Blocks \cup {Null}
  BY DEF Good, Store, Object
<1>2. \A n : LET t == Memcpy(s, s.obj[l].dom, s.obj[l].ptr, s.obj[r].ptr, n,
                            s.obj[r].dom.id)
            IN  Good(t, Objs) /\ t.obj = s.obj
  BY <1>1, MemcpyGood
<1> QED
  BY <1>2 DEF CopyBytes

LEMMA RegrowGood ==
  ASSUME NEW s, Good(s, Objs), NEW l \in Objs, NEW n \in Nat, Room(s)
  PROVE  /\ Good(Regrow(s, l, n, TRUE).s, Objs)
         /\ Framed(s, Regrow(s, l, n, TRUE).s, l)
PROOF
<1> DEFINE f == FreeMem(s, l)
           d == s.obj[l].dom
           a == Alloc(f, d, n, TRUE)
<1>1. /\ Good(f, Objs \ {l}) /\ f.obj = s.obj /\ Room(f)
  BY FreeGood
<1>2. Sound(d)
  BY DEF Good
<1>0. d = s.obj[l].dom /\ f = FreeMem(s, l)
  OBVIOUS
<1> HIDE DEF d, f
<1>3. /\ Good(a.s, Objs \ {l}) /\ a.s.obj = f.obj /\ a.s.caller = f.caller
      /\ a.ptr \in Blocks \cup {Null}
      /\ a.ptr # Null /\ d.free # "none" =>
           /\ a.s.heap[a.ptr].st = "live" /\ a.s.heap[a.ptr].by = d.free
           /\ a.ptr \notin f.caller
           /\ \A q \in Objs \ {l} : Owns(f, q) => f.obj[q].ptr # a.ptr
      /\ a.threw => a.s = f /\ d.free = "none"
  BY <1>1, <1>2, AllocGood, Objs \ {l} \in SUBSET Objs
<1>4. Regrow(s, l, n, TRUE).s = IF a.threw THEN a.s ELSE SetMem(a.s, l, a.ptr, n, d)
  BY <1>0 DEF Regrow
<1>5. CASE a.threw
  <2>1. a.s = s
    BY <1>0, <1>3, <1>5 DEF FreeMem, Free
  <2> QED
    BY <1>4, <1>5, <2>1 DEF Framed
<1>6. CASE ~a.threw
  <2>1. Free4(a.s, a.ptr, l, d)
    BY <1>3 DEF Free4, Owns
  <2> HIDE DEF a
  <2>2. Good(SetMem(a.s, l, a.ptr, n, d), Objs)
        /\ Framed(a.s, SetMem(a.s, l, a.ptr, n, d), l)
    BY <1>2, <1>3, <2>1, PointGood
  <2> QED
    BY <1>1, <1>3, <1>4, <1>6, <2>2 DEF Framed
<1> QED
  BY <1>5, <1>6

\* Copy assignment keeps ownership straight, whether it grows, throws or copies.
LEMMA AssignGood ==
  ASSUME NEW s, Good(s, Objs), NEW l \in Objs, NEW r \in Objs,
         Room(s) \/ ~(s.obj[l].cap < s.obj[r].cap)
  PROVE  /\ Good(AssignMem(s, l, r, TRUE).s, Objs)
         /\ Framed(s, AssignMem(s, l, r, TRUE).s, l)
         /\ \/ AssignMem(s, l, r, TRUE).threw = FALSE
            \/ s.obj[l].cap < s.obj[r].cap
PROOF
<1> DEFINE n == s.obj[r].cap
           g == IF s.obj[l].dom # NoDomain /\ s.obj[l].cap < n
                THEN Regrow(s, l, n, TRUE) ELSE [s |-> s, threw |-> FALSE]
<1>1. n \in Nat
  BY DEF Good, Store, Object
<1>2. Good(g.s, Objs) /\ Framed(s, g.s, l)
  BY <1>1, RegrowGood DEF Framed
<1>3. AssignMem(s, l, r, TRUE).s = IF l = r THEN s ELSE IF g.threw THEN g.s
                                   ELSE CopyBytes(g.s, l, r)
  BY DEF AssignMem
<1>5. AssignMem(s, l, r, TRUE).threw = FALSE \/ s.obj[l].cap < n
  BY DEF AssignMem
<1> HIDE DEF g
<1>4. Good(CopyBytes(g.s, l, r), Objs) /\ CopyBytes(g.s, l, r).obj = g.s.obj
  BY <1>2, CopyBytesGood
<1> QED
  BY <1>2, <1>3, <1>4, <1>5 DEF Framed

\* What a constructor that allocates n bytes for object o in domain d leaves.
Allocated(s, a, o, n, d) ==
  /\ Good(a.s, Objs)
  /\ Framed(s, a.s, o)
  /\ a.s.caller = s.caller
  /\ \/ a.threw = TRUE /\ a.s = s
     \/ a.threw = FALSE /\ a.s.obj[o].dom = d /\ a.s.obj[o].cap = n

\* What a constructor leaves: the object, or nothing when it throws.
Built(s, a, o) ==
  /\ Good(a.s, Objs)
  /\ Framed(s, a.s, o)
  /\ a.threw = FALSE \/ a.s = s

LEMMA OwningGood ==
  ASSUME NEW s, Good(s, Objs), NEW o \in Objs, NEW n \in Nat, NEW d, Sound(d), Room(s)
  PROVE  Allocated(s, OwningMem(s, o, n, d, TRUE), o, n, d)
PROOF
<1> DEFINE a == Alloc(s, d, n, TRUE)
           t == OwningMem(s, o, n, d, TRUE)
<1>1. Good(s, Objs \ {o})
  BY DEF Good
<1>2. /\ Good(a.s, Objs \ {o}) /\ a.s.obj = s.obj /\ a.s.caller = s.caller
      /\ a.ptr \in Blocks \cup {Null}
      /\ a.ptr # Null /\ d.free # "none" =>
           /\ a.s.heap[a.ptr].st = "live" /\ a.s.heap[a.ptr].by = d.free
           /\ a.ptr \notin s.caller
           /\ \A q \in Objs \ {o} : Owns(s, q) => s.obj[q].ptr # a.ptr
  BY <1>1, AllocGood, Objs \ {o} \in SUBSET Objs
<1>3. t =
        IF a.threw THEN [s |-> s, threw |-> TRUE]
        ELSE [s |-> SetMem(a.s, o, a.ptr, n, d), threw |-> FALSE]
  BY DEF OwningMem
<1> SUFFICES Allocated(s, t, o, n, d)
  OBVIOUS
<1> HIDE DEF t
<1>4. Free4(a.s, a.ptr, o, d)
  BY <1>2 DEF Free4, Owns
<1> HIDE DEF a
<1>5. /\ Good(SetMem(a.s, o, a.ptr, n, d), Objs)
      /\ Framed(a.s, SetMem(a.s, o, a.ptr, n, d), o)
      /\ SetMem(a.s, o, a.ptr, n, d).caller = a.s.caller
  BY <1>2, <1>4, PointGood
<1>6. /\ SetMem(a.s, o, a.ptr, n, d).obj[o].dom = d
      /\ SetMem(a.s, o, a.ptr, n, d).obj[o].cap = n
  BY <1>2 DEF SetMem, Good, Store, Object
<1> QED
  <2>1. CASE a.threw
    BY <1>3, <2>1 DEF Framed, Allocated
  <2>2. CASE ~a.threw
    BY <1>2, <1>3, <1>5, <1>6, <2>2 DEF Framed, Allocated
  <2> QED
    BY <2>1, <2>2

LEMMA CopyMemGood ==
  ASSUME NEW s, Good(s, Objs), NEW o \in Objs, NEW r \in Objs, o # r,
         NEW d, Sound(d), Room(s)
  PROVE  Built(s, CopyMem(s, o, r, d, TRUE), o)
PROOF
<1> DEFINE n == s.obj[r].cap
           a == OwningMem(s, o, n, d, TRUE)
           c == CopyMem(s, o, r, d, TRUE)
           b == AssignMem(a.s, o, r, TRUE)
<1>1. n \in Nat
  BY DEF Good, Store, Object
<1>2. c = IF a.threw THEN a ELSE b
  BY DEF CopyMem
<1> HIDE DEF n
<1>3. /\ Good(a.s, Objs) /\ Framed(s, a.s, o)
      /\ \/ a.threw = TRUE /\ a.s = s
         \/ a.threw = FALSE /\ a.s.obj[o].cap = n
  <2>1. Allocated(s, a, o, n, d)
    BY <1>1, OwningGood
  <2> HIDE DEF a
  <2> QED
    BY <2>1 DEF Allocated
<1> SUFFICES Built(s, c, o)
  OBVIOUS
<1> HIDE DEF a, c
<1>4. CASE a.threw = TRUE /\ a.s = s
  BY <1>2, <1>3, <1>4 DEF Built
<1>5. CASE a.threw = FALSE /\ a.s.obj[o].cap = n
  <2>1. a.s.obj[r].cap = n
    BY <1>3 DEF Framed, n
  <2>2. ~(a.s.obj[o].cap < a.s.obj[r].cap)
    BY <1>1, <1>3, <1>5, <2>1
  <2>3. Good(b.s, Objs) /\ Framed(a.s, b.s, o) /\ b.threw = FALSE
    BY <1>3, <2>2, AssignGood
  <2> HIDE DEF b
  <2> QED
    BY <1>2, <1>3, <1>5, <2>3 DEF Framed, Built
<1> QED
  BY <1>3, <1>4, <1>5

\* Taking over another object's memory leaves one owner.
LEMMA TakeGood ==
  ASSUME NEW s, Good(s, Objs), NEW l \in Objs, NEW r \in Objs, l # r
  PROVE  LET R == s.obj[r]
             t == SetMem(SetMem(s, l, R.ptr, R.cap, R.dom), r, Null, 0, NoDomain)
         IN  /\ Good(t, Objs)
             /\ \A p \in Objs \ {l, r} : t.obj[p] = s.obj[p]
PROOF
<1> DEFINE R == s.obj[r]
           u == SetMem(s, l, R.ptr, R.cap, R.dom)
           t == SetMem(u, r, Null, 0, NoDomain)
           L == [s.obj[l] EXCEPT !.ptr = R.ptr, !.cap = R.cap, !.dom = R.dom]
           N == [s.obj[r] EXCEPT !.ptr = Null, !.cap = 0, !.dom = NoDomain]
<1>1. s \in Store
  BY DEF Good
<1>2. R \in Object /\ s.obj[l] \in Object
  BY <1>1 DEF Store
<1>3. L \in Object /\ L.ptr = R.ptr /\ L.dom = R.dom
  BY <1>2 DEF Object
<1>4. Sound(NoDomain) /\ NoDomain.free = "none"
  BY DEF Sound, NoDomain, Domain, Ids, Kinds
<1>5. N \in Object /\ N.ptr = Null
  BY <1>2, <1>4 DEF Object, Sound
<1>6. u = [s EXCEPT !.obj[l] = L]
  BY DEF SetMem
<1>7. u.obj[r] = s.obj[r]
  BY <1>1, <1>6 DEF Store
<1>8. t = [u EXCEPT !.obj[r] = N]
  BY <1>7 DEF SetMem
<1>17. N.dom = NoDomain
  BY <1>2 DEF Object
<1> SUFFICES Good(t, Objs) /\ \A p \in Objs \ {l, r} : t.obj[p] = s.obj[p]
  OBVIOUS
<1>9. R = s.obj[r]
  OBVIOUS
<1> HIDE DEF R, u, t, L, N
<1>10. /\ u.heap = s.heap /\ u.caller = s.caller /\ u.faults = s.faults
       /\ u.obj = [s.obj EXCEPT ![l] = L] /\ u \in Store
  <2>1. /\ u.heap = s.heap /\ u.caller = s.caller /\ u.faults = s.faults
        /\ u.obj = [s.obj EXCEPT ![l] = L]
    BY <1>1, <1>6 DEF Store
  <2> QED
    BY <1>1, <1>3, <1>6, <2>1 DEF Store
<1>11. /\ t.heap = s.heap /\ t.caller = s.caller /\ t.faults = s.faults
       /\ t.obj = [u.obj EXCEPT ![r] = N] /\ t \in Store
  <2>1. /\ t.heap = s.heap /\ t.caller = s.caller /\ t.faults = s.faults
        /\ t.obj = [u.obj EXCEPT ![r] = N]
    BY <1>8, <1>10 DEF Store
  <2> QED
    BY <1>5, <1>8, <1>10, <2>1 DEF Store
<1>12. /\ t.obj[l] = L /\ t.obj[r] = N
       /\ \A p \in Objs \ {l, r} : t.obj[p] = s.obj[p]
  BY <1>1, <1>10, <1>11 DEF Store
<1>13. \A p \in Objs : Sound(t.obj[p].dom)
  BY <1>3, <1>4, <1>9, <1>12, <1>17 DEF Good
<1>14. \A p \in Objs : Fits(t, p)
  BY <1>3, <1>5, <1>9, <1>11, <1>12 DEF Good, Fits, Owns
<1>15. \A p, q \in Objs : Apart(t, p, q)
  BY <1>3, <1>5, <1>9, <1>12 DEF Good, Apart, Owns
<1>16. Good(t, Objs)
  BY <1>11, <1>13, <1>14, <1>15 DEF Good
<1> QED
  BY <1>12, <1>16

-----------------------------------------------------------------------------
(***************************************************************************)
(* The inductive invariant.  OneOwner and OwnedIsLive are not inductive:   *)
(* a destructor could free what the caller was given, or a block the       *)
(* caller frees could be owned, if it were not known that the caller's     *)
(* blocks are live and apart from the objects', and that every domain an   *)
(* object holds is sound.                                                  *)
(***************************************************************************)
IInv ==
  /\ TypeOK
  /\ Good(Now, Objs)
  /\ FreedOnce
  /\ FreedByItsKind

\* A step to a good store in which objects that are not live hold nothing.
LEMMA StepGood ==
  ASSUME IInv, NEW t, Good(t, Objs), Become(t), live' \subseteq Objs,
         \A p \in Objs \ live' : t.obj[p] = NoObject
  PROVE  IInv'
PROOF
<1>1. heap' = t.heap /\ obj' = t.obj /\ caller' = t.caller /\ faults' = t.faults
  BY DEF Become
<1>2. t \in Store
  BY DEF Good
<1>3. Now' \in Store
  BY <1>1, <1>2 DEF Now, Store
<1>4. Good(Now, Objs)'
  BY <1>1, <1>3 DEF Good, Fits, Owns, Apart, Now
<1>5. TypeOK'
  BY <1>1, <1>2, <1>3 DEF TypeOK, Store
<1>6. FreedOnce' /\ FreedByItsKind'
  BY <1>1 DEF FreedOnce, FreedByItsKind, Good
<1> QED
  BY <1>4, <1>5, <1>6 DEF IInv

LEMMA NowFields ==
  Now.heap = heap /\ Now.obj = obj /\ Now.caller = caller
PROOF
BY DEF Now

\* The end of a constructor.
LEMMA ConstructedGood ==
  ASSUME IInv, NEW o \in Objs, o \notin live, NEW r, NEW n \in Nat, NEW w \in Nat,
         Built(Now, r, o), Constructed(o, r, n, w)
  PROVE  IInv'
PROOF
<1>1. \A p \in Objs \ live : Now.obj[p] = NoObject
  BY NowFields DEF IInv, TypeOK
<1>0. Good(r.s, Objs) /\ Framed(Now, r.s, o) /\ (r.threw = FALSE \/ r.s = Now)
  BY DEF Built
<1>2. CASE r.threw = FALSE
  <2>1. Become(SetShape(r.s, o, n, w)) /\ live' = live \cup {o}
    BY <1>2 DEF Constructed
  <2>2. Good(SetShape(r.s, o, n, w), Objs) /\ Framed(r.s, SetShape(r.s, o, n, w), o)
    BY <1>0, ShapeGood
  <2>3. \A p \in Objs \ live' : SetShape(r.s, o, n, w).obj[p] = NoObject
    BY <1>0, <1>1, <2>1, <2>2 DEF Framed
  <2> QED
    BY <2>1, <2>2, <2>3, StepGood DEF IInv, TypeOK
<1>3. CASE r.threw # FALSE /\ Become(r.s) /\ live' = live
  BY <1>0, <1>1, <1>3, StepGood DEF IInv, TypeOK
<1>4. CASE r.threw # FALSE /\ Become(SetShape(r.s, o, n, w)) /\ live' = live \cup {o}
  <2>2. Good(SetShape(r.s, o, n, w), Objs) /\ Framed(r.s, SetShape(r.s, o, n, w), o)
    BY <1>0, ShapeGood
  <2>3. \A p \in Objs \ live' : SetShape(r.s, o, n, w).obj[p] = NoObject
    BY <1>0, <1>1, <1>4, <2>2 DEF Framed
  <2> QED
    BY <1>4, <2>2, <2>3, StepGood DEF IInv, TypeOK
<1> QED
  BY <1>2, <1>3, <1>4 DEF Constructed

\* A step that changes one live object.
LEMMA ChangedGood ==
  ASSUME IInv, NEW o \in live, NEW t, Good(t, Objs), Framed(Now, t, o), Become(t),
         UNCHANGED live
  PROVE  IInv'
PROOF
<1>1. \A p \in Objs \ live' : t.obj[p] = NoObject
  BY NowFields DEF IInv, TypeOK, Framed
<1> QED
  BY <1>1, StepGood DEF IInv, TypeOK

(***************************************************************************)
(* What the program must respect: the allocators have memory, and the      *)
(* domains it uses are sound.                                              *)
(***************************************************************************)
Disciplined == "alloc_fails" \notin Liberties /\ \A d \in Domains : Sound(d)

LEMMA BuildSound ==
  ASSUME NEW id
  PROVE  Sound(Build(id)) /\ Sound(Nonowning("malloc")) /\ Sound(NoDomain)
PROOF
<1>1. Sound(MallocDomain)
  BY DEF Sound, MallocDomain, Domain, Ids, Kinds
<1>2. Sound(CudaDomain) /\ Sound(CudaHostDomain)
  BY DEF Sound, CudaDomain, CudaHostDomain, Domain, Ids, Kinds
<1>3. Sound(NoDomain) /\ Sound(Nonowning("malloc"))
  BY DEF Sound, NoDomain, Nonowning, Domain, Ids, Kinds
<1>4. Build(id) \in {MallocDomain, CudaDomain, CudaHostDomain, NoDomain}
  BY DEF Build
<1> QED
  BY <1>1, <1>2, <1>3, <1>4

LEMMA NonowningSound ==
  ASSUME NEW d, Sound(d)
  PROVE  Sound(Nonowning(d.id))
PROOF
BY DEF Sound, Nonowning, Domain, Ids, Kinds

LEMMA ProductInNat ==
  ASSUME NEW n \in Nat, NEW w \in Nat
  PROVE  n * w \in Nat
PROOF
OBVIOUS

LEMMA ShapesInNat ==
  /\ \A n \in Nums, w \in Widths : n \in Nat /\ w \in Nat /\ n * w \in Nat
  /\ IInv => \A o \in Objs : /\ obj[o].num \in Nat /\ obj[o].width \in Nat
                            /\ SizeInBytes(o) \in Nat
                            /\ Sound(obj[o].dom)
PROOF
<1>1. \A n \in Nums, w \in Widths : n \in Nat /\ w \in Nat /\ n * w \in Nat
  BY ShapeAssumption, ProductInNat
<1>2. ASSUME IInv, NEW o \in Objs
      PROVE  /\ obj[o].num \in Nat /\ obj[o].width \in Nat /\ SizeInBytes(o) \in Nat
             /\ Sound(obj[o].dom)
  <2>1. obj[o].num \in Nat /\ obj[o].width \in Nat /\ Sound(obj[o].dom)
    BY <1>2, NowFields DEF IInv, Good, Store, Object
  <2> QED
    BY <2>1, ProductInNat DEF SizeInBytes
<1> QED
  BY <1>1, <1>2

\* A disciplined program's allocators do not fail.
LEMMA Allocates ==
  ASSUME Disciplined, NEW ok \in BOOLEAN, MayAllocate(ok)
  PROVE  ok = TRUE /\ Room(Now)
PROOF
BY DEF Disciplined, MayAllocate, May

LEMMA AdoptBuilt ==
  ASSUME IInv, NEW o \in Objs, NEW p \in Blocks \cup {Null}, NEW n \in Nat, NEW d,
         Sound(d), Free4(Now, p, o, d)
  PROVE  Built(Now, [s |-> AdoptMem(Now, o, p, n, d), threw |-> FALSE], o)
PROOF
<1>1. Good(Now, Objs \ {o})
  BY DEF IInv, Good
<1> QED
  BY <1>1, PointGood DEF AdoptMem, Built

LEMMA OwningBuilt ==
  ASSUME IInv, NEW o \in Objs, NEW n \in Nat, NEW d, Sound(d), Room(Now)
  PROVE  Built(Now, OwningMem(Now, o, n, d, TRUE), o)
PROOF
<1>1. Allocated(Now, OwningMem(Now, o, n, d, TRUE), o, n, d)
  BY OwningGood DEF IInv
<1> QED
  BY <1>1 DEF Allocated, Built

LEMMA EmptyDataInv ==
  ASSUME IInv, Disciplined, NEW o \in Objs, NEW d \in Domains,
         NEW n \in Nums, NEW w \in Widths, EmptyData(o, d, n, w)
  PROVE  IInv'
PROOF
<1>1. Sound(d) /\ Free4(Now, Null, o, d)
  BY DEF Disciplined, Free4
<1>2. Built(Now, [s |-> AdoptMem(Now, o, Null, 0, d), threw |-> FALSE], o)
  BY <1>1, AdoptBuilt
<1> QED
  BY <1>2, ShapesInNat, ConstructedGood DEF EmptyData

LEMMA OwningDataInv ==
  ASSUME IInv, Disciplined, NEW o \in Objs, NEW d \in Domains,
         NEW n \in Nums, NEW w \in Widths, NEW ok \in BOOLEAN,
         OwningData(o, d, n, w, ok)
  PROVE  IInv'
PROOF
<1>1. ok = TRUE /\ Room(Now)
  BY Allocates DEF OwningData
<1>2. Built(Now, OwningMem(Now, o, n * w, d, TRUE), o)
  BY <1>1, ShapesInNat, OwningBuilt DEF Disciplined
<1> QED
  BY <1>1, <1>2, ShapesInNat, ConstructedGood DEF OwningData

LEMMA OwningLikeInv ==
  ASSUME IInv, Disciplined, NEW o \in Objs, NEW src \in Objs, NEW ok \in BOOLEAN,
         OwningLike(o, src, ok)
  PROVE  IInv'
PROOF
<1>1. ok = TRUE /\ Room(Now)
  BY Allocates DEF OwningLike
<1>2. Built(Now, OwningMem(Now, o, SizeInBytes(src), obj[src].dom, TRUE), o)
  BY <1>1, ShapesInNat, OwningBuilt
<1> QED
  BY <1>1, <1>2, ShapesInNat, ConstructedGood DEF OwningLike

LEMMA NonowningDataInv ==
  ASSUME IInv, Disciplined, NEW o \in Objs, NEW src \in Objs, NonowningData(o, src)
  PROVE  IInv'
PROOF
<1> DEFINE d == Nonowning(obj[src].dom.id)
           t == [Now EXCEPT !.faults = {"null_domain"}]
<1>1. CASE Build(obj[src].dom.id) = NoDomain
  <2>1. faults' = {"null_domain"} /\ UNCHANGED <<heap, obj, live, caller>>
    BY <1>1 DEF NonowningData
  <2> QED
    BY <2>1 DEF IInv, TypeOK, Good, Now, Fits, Apart, Owns, Store, FreedOnce,
                FreedByItsKind, Fault
<1>2. CASE Build(obj[src].dom.id) # NoDomain
  <2>1. Sound(d) /\ d.free = "none"
    BY ShapesInNat, NonowningSound DEF Nonowning
  <2>2. Free4(Now, obj[src].ptr, o, d)
    BY <2>1 DEF Free4
  <2>3. obj[src].ptr \in Blocks \cup {Null}
    BY NowFields DEF IInv, Good, Store, Object
  <2> HIDE DEF d
  <2>4. Built(Now, [s |-> AdoptMem(Now, o, obj[src].ptr, SizeInBytes(src), d),
                    threw |-> FALSE], o)
    BY <2>1, <2>2, <2>3, ShapesInNat, AdoptBuilt
  <2> QED
    BY <1>2, <2>4, ShapesInNat, ConstructedGood DEF NonowningData, d
<1> QED
  BY <1>1, <1>2

LEMMA ViewCallerInv ==
  ASSUME IInv, NEW o \in Objs, NEW b \in Blocks, NEW n \in Nums, NEW w \in Widths,
         ViewCaller(o, b, n, w)
  PROVE  IInv'
PROOF
<1> DEFINE d == Nonowning("malloc")
<1>1. Sound(d) /\ d.free = "none"
  BY BuildSound DEF Nonowning
<1>2. Free4(Now, b, o, d)
  BY <1>1 DEF Free4
<1> HIDE DEF d
<1>3. Built(Now, [s |-> AdoptMem(Now, o, b, n * w, d), threw |-> FALSE], o)
  BY <1>1, <1>2, ShapesInNat, AdoptBuilt
<1> QED
  BY <1>3, ShapesInNat, ConstructedGood DEF ViewCaller, d

LEMMA CopyCallerInv ==
  ASSUME IInv, Disciplined, NEW o \in Objs, NEW b \in Blocks, NEW d \in Domains,
         NEW n \in Nums, NEW w \in Widths, NEW ok \in BOOLEAN,
         CopyCaller(o, b, d, n, w, ok)
  PROVE  IInv'
PROOF
<1> DEFINE D == Build(d.id)
           a == OwningMem(Now, o, n * w, D, TRUE)
           s == Memcpy(a.s, D, a.s.obj[o].ptr, b, n * w, "malloc")
           c == IF a.threw \/ n * w = 0 THEN a ELSE [s |-> s, threw |-> FALSE]
<1>1. ok = TRUE /\ Room(Now)
  BY Allocates DEF CopyCaller
<1>2. o \notin live /\ Constructed(o, c, n, w)
  BY <1>1 DEF CopyCaller
<1>3. Sound(D)
  BY BuildSound
<1> HIDE DEF D
<1>4. Built(Now, a, o)
  BY <1>1, <1>3, ShapesInNat, OwningBuilt
<1> HIDE DEF a
<1>5. Good(a.s, Objs) /\ Framed(Now, a.s, o)
  BY <1>4 DEF Built
<1>6. a.s.obj[o].ptr \in Blocks \cup {Null}
  BY <1>5 DEF Good, Store, Object
<1>7. Good(s, Objs) /\ s.obj = a.s.obj
  BY <1>5, <1>6, MemcpyGood
<1> HIDE DEF s
<1>8. Built(Now, [s |-> s, threw |-> FALSE], o)
  BY <1>5, <1>7 DEF Built, Framed
<1>9. Built(Now, c, o)
  BY <1>4, <1>8
<1> HIDE DEF c
<1> QED
  BY <1>2, <1>9, ShapesInNat, ConstructedGood

LEMMA MoveCallerInv ==
  ASSUME IInv, Disciplined, NEW o \in Objs, NEW b \in Blocks, NEW d \in Domains,
         NEW n \in Nums, NEW w \in Widths, MoveCaller(o, b, d, n, w)
  PROVE  IInv'
PROOF
<1> DEFINE C == IF d.free = "none" THEN caller ELSE caller \ {b}
           s == [Now EXCEPT !.caller = C]
           t == AdoptMem(s, o, b, n * w, d)
<1>1. /\ o \notin live /\ b \in caller /\ d.free \in {"none", heap[b].by}
      /\ Constructed(o, [s |-> t, threw |-> FALSE], n, w)
  BY NowFields DEF MoveCaller
<1>2. Now \in Store /\ Good(Now, Objs) /\ caller \subseteq Blocks
  BY NowFields DEF IInv, Good, Store
<1> HIDE DEF C
<1>3. s.heap = heap /\ s.obj = obj /\ s.caller = C /\ s.faults = {}
  BY DEF Now
<1>4. C \subseteq caller /\ (d.free # "none" => b \notin C)
  BY DEF C
<1>5. s \in Store
  BY <1>2, <1>3, <1>4 DEF Store, Now
<1>6. \A q \in Objs : Owns(Now, q) => obj[q].ptr \notin caller
  BY <1>2, NowFields DEF Good, Fits
<1> HIDE DEF s
<1>7. Good(s, Objs)
  BY <1>2, <1>3, <1>4, <1>5, <1>6, KeepGood, NowFields DEF Good
<1>8. heap[b].st = "live"
  BY <1>1, <1>2, NowFields DEF Good
<1>9. Free4(s, b, o, d)
  BY <1>1, <1>3, <1>4, <1>6, <1>8, NowFields DEF Free4, Owns
<1>10. Good(s, Objs \ {o}) /\ Sound(d)
  BY <1>7 DEF Good, Disciplined
<1>11. Good(t, Objs) /\ Framed(s, t, o)
  BY <1>9, <1>10, ShapesInNat, PointGood DEF AdoptMem
<1> HIDE DEF t
<1>12. Built(Now, [s |-> t, threw |-> FALSE], o)
  BY <1>3, <1>11, NowFields DEF Built, Framed
<1> QED
  BY <1>1, <1>12, ShapesInNat, ConstructedGood

LEMMA CloneBuilt ==
  ASSUME IInv, Disciplined, NEW o \in Objs, NEW src \in Objs, NEW d, Sound(d),
         NEW ok \in BOOLEAN, o \notin live, src \in live, MayAllocate(ok),
         Constructed(o, CopyMem(Now, o, src, d, ok), obj[src].num, obj[src].width)
  PROVE  IInv'
PROOF
<1>1. ok = TRUE /\ Room(Now)
  BY Allocates
<1>2. Good(Now, Objs) /\ o # src
  BY DEF IInv
<1>3. Built(Now, CopyMem(Now, o, src, d, TRUE), o)
  BY <1>1, <1>2, CopyMemGood
<1> QED
  BY <1>1, <1>3, ShapesInNat, ConstructedGood

LEMMA CloneDataInv ==
  ASSUME IInv, Disciplined, NEW o \in Objs, NEW src \in Objs, NEW ok \in BOOLEAN,
         CloneData(o, src, ok)
  PROVE  IInv'
PROOF
<1> DEFINE d == IF obj[src].dom.prefix = obj[src].dom.id THEN obj[src].dom
                ELSE Build(obj[src].dom.id)
<1>1. Sound(d)
  BY ShapesInNat, BuildSound
<1> QED
  BY <1>1, CloneBuilt DEF CloneData

LEMMA CopyConstructInv ==
  ASSUME IInv, Disciplined, NEW o \in Objs, NEW src \in Objs, NEW ok \in BOOLEAN,
         CopyConstruct(o, src, ok)
  PROVE  IInv'
PROOF
<1>1. Sound(CloneDomain(obj[src].dom))
  BY ShapesInNat, BuildSound DEF CloneDomain
<1> QED
  BY <1>1, CloneBuilt DEF CopyConstruct

LEMMA MoveConstructInv ==
  ASSUME IInv, NEW o \in Objs, NEW src \in Objs, MoveConstruct(o, src)
  PROVE  IInv'
PROOF
<1> DEFINE R == Now.obj[src]
           s == SetMem(SetMem(Now, o, R.ptr, R.cap, R.dom), src, Null, 0, NoDomain)
           u == SetShape(s, src, 0, obj[src].width)
           t == SetShape(u, o, obj[src].num, obj[src].width)
<1>1. o \notin live /\ src \in live /\ o # src /\ Good(Now, Objs)
  BY DEF MoveConstruct, IInv
<1>2. Become(t) /\ live' = live \cup {o}
  BY NowFields DEF MoveConstruct, Constructed
<1>3. Good(s, Objs) /\ \A p \in Objs \ {o, src} : s.obj[p] = Now.obj[p]
  BY <1>1, TakeGood
<1> HIDE DEF s
<1>4. Good(u, Objs) /\ Framed(s, u, src)
  BY <1>3, ShapesInNat, ShapeGood
<1> HIDE DEF u
<1>5. Good(t, Objs) /\ Framed(u, t, o)
  BY <1>4, ShapesInNat, ShapeGood
<1> HIDE DEF t
<1>6. \A p \in Objs \ live' : t.obj[p] = NoObject
  BY <1>1, <1>2, <1>3, <1>4, <1>5, NowFields DEF Framed, IInv, TypeOK
<1>7. live' \subseteq Objs
  BY <1>2 DEF IInv, TypeOK
<1> QED
  BY <1>2, <1>5, <1>6, <1>7, StepGood

LEMMA CopyAssignInv ==
  ASSUME IInv, Disciplined, NEW l \in Objs, NEW r \in Objs, NEW ok \in BOOLEAN,
         CopyAssign(l, r, ok)
  PROVE  IInv'
PROOF
<1> DEFINE s == SetShape(Now, l, obj[r].num, obj[r].width)
           t == AssignMem(s, l, r, TRUE).s
<1>1. /\ l \in live /\ ok = TRUE /\ Room(Now) /\ UNCHANGED live
  BY Allocates DEF CopyAssign
<1>2. Become(t)
  <2>1. Become(AssignMem(s, l, r, ok).s)
    BY Zenon DEF CopyAssign
  <2> HIDE DEF s
  <2> QED
    BY <1>1, <2>1
<1>3. Good(s, Objs) /\ Framed(Now, s, l) /\ s.heap = Now.heap
  <2>1. Good(Now, Objs) /\ obj[r].num \in Nat /\ obj[r].width \in Nat
    BY ShapesInNat DEF IInv
  <2> QED
    BY <2>1, ShapeGood
<1> HIDE DEF s
<1>4. Room(s)
  BY <1>1, <1>3 DEF Room
<1>5. Good(t, Objs) /\ Framed(s, t, l)
  BY <1>3, <1>4, AssignGood
<1> HIDE DEF t
<1>6. Framed(Now, t, l)
  BY <1>3, <1>5 DEF Framed
<1> QED
  BY <1>1, <1>2, <1>5, <1>6, ChangedGood

LEMMA MoveAssignInv ==
  ASSUME IInv, NEW l \in Objs, NEW r \in Objs, MoveAssign(l, r)
  PROVE  IInv'
PROOF
<1> DEFINE s == SetShape(Now, l, obj[r].num, obj[r].width)
           R == s.obj[r]
           u == SetMem(SetMem(s, l, R.ptr, R.cap, R.dom), r, Null, 0, NoDomain)
           t == SetShape(u, r, 0, obj[r].width)
<1>1. l \in live /\ r \in live /\ l # r /\ live' = live /\ Become(t)
  BY DEF MoveAssign, MoveAssignMem
<1>2. Good(s, Objs) /\ Framed(Now, s, l)
  BY ShapesInNat, ShapeGood DEF IInv
<1> HIDE DEF s
<1>3. Good(u, Objs) /\ \A p \in Objs \ {l, r} : u.obj[p] = s.obj[p]
  BY <1>1, <1>2, TakeGood
<1> HIDE DEF u
<1>4. Good(t, Objs) /\ Framed(u, t, r)
  BY <1>3, ShapesInNat, ShapeGood
<1> HIDE DEF t
<1>5. \A p \in Objs \ live' : t.obj[p] = NoObject
  BY <1>1, <1>2, <1>3, <1>4, NowFields DEF Framed, IInv, TypeOK
<1> QED
  BY <1>1, <1>4, <1>5, StepGood DEF IInv, TypeOK

LEMMA DestroyInv ==
  ASSUME IInv, NEW o \in Objs, Destroy(o)
  PROVE  IInv'
PROOF
<1> DEFINE f == FreeMem(Now, o)
           t == Put(f, o, NoObject)
<1>1. o \in live /\ live' = live \ {o} /\ Become(t)
  BY DEF Destroy, Put
<1>2. Good(f, Objs \ {o}) /\ f.obj = Now.obj
  BY FreeGood DEF IInv
<1> HIDE DEF f
<1>3. Sound(NoDomain) /\ NoDomain.free = "none"
  BY BuildSound DEF NoDomain
<1>4. NoObject \in Object /\ NoObject.dom = NoDomain
  BY <1>3 DEF NoObject, Object, Sound
<1>5. Sound(NoObject.dom) /\ Free4(f, NoObject.ptr, o, NoObject.dom)
  BY <1>3, <1>4 DEF Free4
<1>6. Good(t, Objs) /\ Framed(f, t, o) /\ t.obj[o] = NoObject
  BY <1>2, <1>4, <1>5, PutGood
<1> HIDE DEF t
<1>7. \A p \in Objs \ live' : t.obj[p] = NoObject
  BY <1>1, <1>2, <1>6, NowFields DEF Framed, IInv, TypeOK
<1> QED
  BY <1>1, <1>6, <1>7, StepGood DEF IInv, TypeOK

LEMMA ReleaseInv ==
  ASSUME IInv, NEW o \in Objs, Release(o)
  PROVE  IInv'
PROOF
<1> DEFINE O == [obj[o] EXCEPT !.ptr = Null]
           s == Put(Now, o, O)
           C == IF Owns(Now, o) THEN caller \cup {obj[o].ptr} ELSE caller
           t == [s EXCEPT !.caller = C]
<1>1. Now \in Store /\ Good(Now, Objs) /\ caller \subseteq Blocks
  BY NowFields DEF IInv, Good, Store
<1>2. O \in Object /\ O.ptr = Null /\ O.dom = obj[o].dom
  BY <1>1, NowFields DEF Store, Object
<1>3. [Now EXCEPT !.obj[o].ptr = Null] = s
  BY NowFields DEF Put
<1>4. o \in live /\ UNCHANGED live /\ Become(t)
  BY <1>3, NowFields DEF Release, ReleaseMem, Put
<1> HIDE DEF O
<1>5. Sound(O.dom) /\ Free4(Now, O.ptr, o, O.dom)
  BY <1>2, ShapesInNat DEF Free4
<1>6. Good(Now, Objs \ {o})
  BY <1>1 DEF Good
<1>7. /\ Good(s, Objs) /\ Framed(Now, s, o) /\ s.obj[o] = O
      /\ s.heap = heap /\ s.caller = caller
  BY <1>2, <1>5, <1>6, PutGood, NowFields
<1> HIDE DEF s
<1>8. Owns(Now, o) => /\ obj[o].ptr \in Blocks /\ heap[obj[o].ptr].st = "live"
                      /\ \A q \in Objs \ {o} : Owns(s, q) => s.obj[q].ptr # obj[o].ptr
  BY <1>1, <1>7, NowFields DEF Good, Fits, Apart, Owns, Store, Object, Framed
<1>9. C \subseteq Blocks /\ \A b \in C : heap[b].st = "live"
  BY <1>1, <1>8, NowFields DEF Good
<1>10. \A q \in Objs : Owns(s, q) => s.obj[q].ptr \notin C
  BY <1>2, <1>7, <1>8 DEF Good, Fits, Owns
<1> HIDE DEF C
<1>11. s \in Store
  BY <1>7 DEF Good
<1>12. t.heap = s.heap /\ t.obj = s.obj /\ t.caller = C /\ t.faults = s.faults
       /\ t \in Store
  BY <1>9, <1>11 DEF Store
<1> HIDE DEF t
<1>13. Good(t, Objs)
  BY <1>7, <1>9, <1>10, <1>12, KeepGood DEF Good
<1>14. Framed(Now, t, o)
  BY <1>7, <1>12 DEF Framed
<1> QED
  BY <1>4, <1>13, <1>14, ChangedGood

LEMMA ResetInv ==
  ASSUME IInv, NEW o \in Objs, NEW p \in Blocks \cup {Null}, Reset(o, p)
  PROVE  IInv'
PROOF
<1> DEFINE C == IF obj[o].dom.free = "none" THEN caller ELSE caller \ {p}
           s == [Now EXCEPT !.caller = C]
           f == FreeMem(s, o)
           O == [obj[o] EXCEPT !.ptr = p]
           t == Put(f, o, O)
<1>1. Now \in Store /\ Good(Now, Objs) /\ caller \subseteq Blocks
  BY NowFields DEF IInv, Good, Store
<1>2. s.heap = heap /\ s.obj = obj /\ s.caller = C /\ s.faults = {}
  BY DEF Now
<1>3. /\ o \in live /\ UNCHANGED live /\ Become(ResetMem(s, o, p))
      /\ p # Null => p \in caller /\ obj[o].dom.free \in {"none", heap[p].by}
  BY NowFields DEF Reset
<1>4. C \subseteq caller /\ (obj[o].dom.free # "none" => p \notin C)
  OBVIOUS
<1> HIDE DEF C
<1>5. s \in Store
  BY <1>1, <1>2, <1>4 DEF Store, Now
<1>6. \A q \in Objs : Owns(Now, q) => obj[q].ptr \notin caller
  BY <1>1, NowFields DEF Good, Fits
<1> HIDE DEF s
<1>7. Good(s, Objs)
  BY <1>1, <1>2, <1>4, <1>5, <1>6, KeepGood, NowFields DEF Good
<1>8. p # Null => heap[p].st = "live"
  BY <1>1, <1>3, NowFields DEF Good
<1>9. Good(f, Objs \ {o}) /\ f.obj = obj /\ f.caller = C
  BY <1>2, <1>7, FreeGood
<1>10. p # Null /\ obj[o].dom.free # "none" => f.heap[p] = heap[p]
  <2>1. CASE s.obj[o].ptr = Null \/ s.obj[o].dom.free = "none"
    BY <1>2, <2>1 DEF FreeMem, Free
  <2>2. CASE s.obj[o].ptr # Null /\ s.obj[o].dom.free # "none"
    <3>1. p # s.obj[o].ptr \/ p = Null
      BY <1>2, <1>3, <1>6, <2>2, NowFields DEF Owns
    <3>2. f.heap = [s.heap EXCEPT ![s.obj[o].ptr] = FreedBlock]
      BY <1>5, <2>2 DEF FreeMem, Free, Store
    <3> QED
      BY <1>2, <1>5, <3>1, <3>2 DEF Store
  <2> QED
    BY <2>1, <2>2
<1>11. O \in Object /\ O.ptr = p /\ O.dom = obj[o].dom
  BY <1>1, NowFields DEF Store, Object
<1>12. ResetMem(s, o, p) = t
  BY <1>9 DEF ResetMem, Put
<1> HIDE DEF f, O
<1>13. \A q \in Objs \ {o} : Owns(f, q) => f.obj[q].ptr # p \/ p = Null
  BY <1>3, <1>6, <1>9, NowFields DEF Owns
<1>14. Free4(f, O.ptr, o, O.dom) /\ Sound(O.dom)
  BY <1>3, <1>4, <1>8, <1>9, <1>10, <1>11, <1>13, ShapesInNat DEF Free4
<1>15. Good(t, Objs) /\ Framed(f, t, o)
  BY <1>9, <1>11, <1>14, PutGood
<1> HIDE DEF t
<1>16. Framed(Now, t, o)
  BY <1>9, <1>15, NowFields DEF Framed
<1> QED
  BY <1>3, <1>12, <1>15, <1>16, ChangedGood

LEMMA ReshapeInv ==
  ASSUME IInv, NEW o \in Objs, NEW n \in Nums, NEW w \in Widths, Reshape(o, n, w)
  PROVE  IInv'
PROOF
<1> DEFINE t == SetShape(Now, o, n, w)
<1>1. o \in live /\ UNCHANGED live /\ Become(t)
  BY DEF Reshape
<1>2. Good(Now, Objs) /\ n \in Nat /\ w \in Nat
  BY ShapesInNat DEF IInv
<1>3. Good(t, Objs) /\ Framed(Now, t, o)
  BY <1>2, ShapeGood
<1> HIDE DEF t
<1> QED
  BY <1>1, <1>3, ChangedGood

LEMMA SetDimensionsInv ==
  ASSUME IInv, Disciplined, NEW o \in Objs, NEW n \in Nums, NEW ok \in BOOLEAN,
         SetDimensions(o, n, ok)
  PROVE  IInv'
PROOF
<1> DEFINE w == obj[o].width
           d == obj[o].dom
           size == n * w
           a == Alloc(Now, d, size, TRUE)
           m == SetMem(a.s, o, a.ptr, size, d)
           t == SetShape(m, o, n, w)
<1>1. n \in Nat /\ w \in Nat /\ size \in Nat /\ Sound(d) /\ Good(Now, Objs)
  BY ShapesInNat, ShapeAssumption, ProductInNat DEF IInv
<1>2. o \in live /\ UNCHANGED live
  BY DEF SetDimensions
<1>3. CASE ~(obj[o].cap < size)
  <2> DEFINE k == SetShape(Now, o, n, w)
  <2>1. Become(k)
    BY <1>3 DEF SetDimensions
  <2>2. Good(k, Objs) /\ Framed(Now, k, o)
    BY <1>1, ShapeGood
  <2> HIDE DEF k
  <2> QED
    BY <1>2, <2>1, <2>2, ChangedGood
<1>4. CASE obj[o].cap < size
  <2>1. MayAllocate(ok)
    BY <1>4 DEF SetDimensions
  <2>2. ok = TRUE /\ Room(Now)
    BY <2>1, Allocates
  <2>3. IF a.threw THEN Become(a.s) ELSE Become(t)
    BY <1>4, <2>2 DEF SetDimensions
  <2>4. Good(Now, Objs \ {o})
    BY <1>1 DEF Good
  <2> HIDE DEF size, d, w
  <2>5. /\ Good(a.s, Objs \ {o}) /\ a.s.obj = Now.obj /\ a.s.caller = Now.caller
        /\ a.ptr \in Blocks \cup {Null}
        /\ a.ptr # Null /\ d.free # "none" =>
             /\ a.s.heap[a.ptr].st = "live" /\ a.s.heap[a.ptr].by = d.free
             /\ a.ptr \notin Now.caller
             /\ \A q \in Objs \ {o} : Owns(Now, q) => Now.obj[q].ptr # a.ptr
        /\ a.threw => a.s = Now /\ d.free = "none"
    <3> DEFINE X == Objs \ {o}
    <3>1. /\ X \in SUBSET Objs /\ Good(Now, X) /\ Sound(d) /\ size \in Nat /\ Room(Now)
          /\ Now.obj = obj /\ Now.caller = caller
      BY <1>1, <2>2, <2>4 DEF Now
    <3> HIDE DEF X
    <3>2. /\ Good(a.s, X) /\ a.s.obj = Now.obj /\ a.s.caller = Now.caller
          /\ a.ptr \in Blocks \cup {Null}
          /\ a.ptr # Null /\ d.free # "none" =>
               /\ a.s.heap[a.ptr].st = "live" /\ a.s.heap[a.ptr].by = d.free
               /\ a.ptr \notin Now.caller
               /\ \A q \in X : Owns(Now, q) => Now.obj[q].ptr # a.ptr
          /\ a.threw => a.s = Now /\ d.free = "none"
      BY <3>1, AllocGood
    <3> QED
      BY <3>2 DEF X
  <2>6. Free4(a.s, a.ptr, o, d)
    BY <2>5 DEF Free4, Owns
  <2> HIDE DEF a
  <2>7. Good(m, Objs) /\ Framed(a.s, m, o)
    BY <1>1, <2>5, <2>6, PointGood
  <2> HIDE DEF m
  <2>8. Good(t, Objs) /\ Framed(m, t, o)
    BY <1>1, <2>7, ShapeGood
  <2> HIDE DEF t
  <2>9. CASE a.threw
    BY <1>1, <1>2, <2>3, <2>5, <2>9, ChangedGood DEF Framed
  <2>10. CASE ~a.threw
    <3>1. Framed(Now, t, o)
      BY <2>5, <2>7, <2>8 DEF Framed
    <3> QED
      BY <1>2, <2>3, <2>8, <2>10, <3>1, ChangedGood
  <2> QED
    BY <2>9, <2>10
<1> QED
  BY <1>3, <1>4

LEMMA WriteInv ==
  ASSUME IInv, NEW o \in Objs, NEW x \in Tags, Write(o, x)
  PROVE  IInv'
PROOF
<1> DEFINE p == obj[o].ptr
           t == [Now EXCEPT !.heap[p].tag = x]
<1>1. Now \in Store /\ Good(Now, Objs)
  BY DEF IInv, Good
<1>2. o \in live /\ UNCHANGED live /\ Become(t) /\ InRange(Now, p, SizeInBytes(o))
  BY DEF Write
<1>3. p \in Blocks
  BY <1>1, <1>2, NowFields DEF InRange, IsLive, Store, Object
<1>4. [heap[p] EXCEPT !.tag = x] \in Block
  BY <1>1, <1>3, NowFields DEF Store, Block
<1> HIDE DEF p
<1>5. /\ t.heap = [heap EXCEPT ![p] = [@ EXCEPT !.tag = x]]
      /\ t.obj = obj /\ t.caller = caller /\ t.faults = {}
  BY DEF Now
<1>6. t.heap \in [Blocks -> Block]
  BY <1>1, <1>3, <1>4, <1>5, NowFields DEF Store
<1>7. t \in Store
  BY <1>1, <1>5, <1>6 DEF Store, Now
<1>8. \A b \in Blocks : t.heap[b].st = heap[b].st /\ t.heap[b].by = heap[b].by
  BY <1>1, <1>3, <1>5, NowFields DEF Store, Block
<1> HIDE DEF t
<1>9. \A b \in caller : b \in Blocks /\ heap[b].st = "live"
  BY <1>1, NowFields DEF Good, Store
<1>10. \A q \in Objs : Owns(Now, q) => obj[q].ptr \in Blocks /\ obj[q].ptr \notin caller
  BY <1>1, NowFields DEF Good, Store, Object, Fits, Owns
<1>11. Good(t, Objs)
  <2>1. \A q \in Objs : Owns(Now, q) =>
          /\ t.heap[Now.obj[q].ptr].st = Now.heap[Now.obj[q].ptr].st
          /\ t.heap[Now.obj[q].ptr].by = Now.heap[Now.obj[q].ptr].by
          /\ Now.obj[q].ptr \notin t.caller
    BY <1>5, <1>7, <1>8, <1>10, NowFields
  <2>2. t.obj = Now.obj /\ "double_free" \notin t.faults /\ "wrong_free" \notin t.faults
    BY <1>5, <1>7, <1>8, <1>10, NowFields
  <2>3. \A b \in t.caller : t.heap[b].st = "live"
    BY <1>5, <1>8, <1>9
  <2> QED
    BY <1>1, <1>5, <1>7, <1>8, <1>10, <2>1, <2>2, <2>3, KeepGood
<1>12. Framed(Now, t, o)
  BY <1>5, NowFields DEF Framed
<1> QED
  BY <1>2, <1>11, <1>12, ChangedGood

LEMMA CallerAllocInv ==
  ASSUME IInv, NEW k \in CallerKinds, NEW n \in Sizes, CallerAlloc(k, n)
  PROVE  IInv'
PROOF
<1> DEFINE f == Fresh(Now)
           B == [st |-> "live", by |-> k, cap |-> n, tag |-> "junk"]
           t == [Now EXCEPT !.heap[f] = B, !.caller = @ \cup {f}]
<1>1. Now \in Store /\ Good(Now, Objs)
  BY DEF IInv, Good
<1>2. f \in Blocks /\ heap[f].st = "unused"
  BY NowFields DEF CallerAlloc, Room, Fresh
<1>3. UNCHANGED live /\ Become(t)
  BY DEF CallerAlloc
<1>4. k \in Kinds
  BY DomainAssumption DEF CallerKinds, Domain
<1>5. n \in Nat
  BY ShapesInNat DEF Sizes
<1>6. B \in Block
  BY <1>4, <1>5 DEF Block
<1>7. B.st = "live"
  OBVIOUS
<1> HIDE DEF f, B
<1>8. /\ t.heap = [heap EXCEPT ![f] = B] /\ t.obj = obj /\ t.faults = {}
      /\ t.caller = caller \cup {f}
  BY DEF Now
<1>9. t.heap \in [Blocks -> Block] /\ t.caller \subseteq Blocks
  BY <1>1, <1>2, <1>6, <1>8, NowFields DEF Store
<1>10. t \in Store
  BY <1>1, <1>8, <1>9 DEF Store, Now
<1> HIDE DEF t
<1>11. \A b \in t.caller : t.heap[b].st = "live"
  BY <1>1, <1>2, <1>7, <1>8, NowFields DEF Good, Store
<1>12. \A q \in Objs : Owns(Now, q) =>
         /\ obj[q].ptr \in Blocks /\ obj[q].ptr # f /\ obj[q].ptr \notin caller
  BY <1>1, <1>2, NowFields DEF Good, Store, Object, Fits, Owns
<1>13. \A b \in Blocks : b # f => t.heap[b] = heap[b]
  BY <1>1, <1>8, NowFields DEF Store
<1>14. Good(t, Objs)
  <2>1. \A q \in Objs : Owns(Now, q) =>
          /\ t.heap[Now.obj[q].ptr].st = Now.heap[Now.obj[q].ptr].st
          /\ t.heap[Now.obj[q].ptr].by = Now.heap[Now.obj[q].ptr].by
          /\ Now.obj[q].ptr \notin t.caller
    BY <1>8, <1>10, <1>12, <1>13, NowFields
  <2>2. t.obj = Now.obj /\ "double_free" \notin t.faults /\ "wrong_free" \notin t.faults
    BY <1>8, <1>10, <1>12, <1>13, NowFields
  <2>3. \A b \in t.caller : t.heap[b].st = "live"
    BY <1>11
  <2> QED
    BY <1>1, <1>8, <1>10, <1>12, <1>13, <2>1, <2>2, <2>3, KeepGood
<1> QED
  BY <1>1, <1>3, <1>8, <1>14, StepGood, NowFields DEF IInv, TypeOK

LEMMA CallerFreeInv ==
  ASSUME IInv, NEW b \in Blocks, CallerFree(b)
  PROVE  IInv'
PROOF
<1> DEFINE t == [Now EXCEPT !.heap[b] = FreedBlock, !.caller = @ \ {b}]
<1>1. Now \in Store /\ Good(Now, Objs)
  BY DEF IInv, Good
<1>2. b \in caller /\ UNCHANGED live /\ Become(t)
  BY DEF CallerFree
<1>3. FreedBlock \in Block
  BY DEF FreedBlock, Block
<1>4. /\ t.heap = [heap EXCEPT ![b] = FreedBlock] /\ t.obj = obj /\ t.faults = {}
      /\ t.caller = caller \ {b}
  BY DEF Now
<1>5. t.heap \in [Blocks -> Block] /\ t.caller \subseteq Blocks
  BY <1>1, <1>3, <1>4, NowFields DEF Store
<1>6. t \in Store
  BY <1>1, <1>4, <1>5 DEF Store, Now
<1> HIDE DEF t
<1>7. \A c \in Blocks : c # b => t.heap[c] = heap[c]
  BY <1>1, <1>4, NowFields DEF Store
<1>8. \A c \in t.caller : t.heap[c].st = "live"
  BY <1>1, <1>4, <1>7, NowFields DEF Good, Store
<1>9. \A q \in Objs : Owns(Now, q) =>
        /\ obj[q].ptr \in Blocks /\ obj[q].ptr # b /\ obj[q].ptr \notin caller
  BY <1>1, <1>2, NowFields DEF Good, Store, Object, Fits, Owns
<1>10. Good(t, Objs)
  <2>1. \A q \in Objs : Owns(Now, q) =>
          /\ t.heap[Now.obj[q].ptr].st = Now.heap[Now.obj[q].ptr].st
          /\ t.heap[Now.obj[q].ptr].by = Now.heap[Now.obj[q].ptr].by
          /\ Now.obj[q].ptr \notin t.caller
    BY <1>4, <1>6, <1>7, <1>9, NowFields
  <2>2. t.obj = Now.obj /\ "double_free" \notin t.faults /\ "wrong_free" \notin t.faults
    BY <1>4, <1>6, <1>7, <1>9, NowFields
  <2>3. \A c \in t.caller : t.heap[c].st = "live"
    BY <1>8
  <2> QED
    BY <1>1, <1>4, <1>6, <1>7, <1>9, <2>1, <2>2, <2>3, KeepGood
<1> QED
  BY <1>2, <1>4, <1>10, StepGood, NowFields DEF IInv, TypeOK

-----------------------------------------------------------------------------
LEMMA InitInv ==
  Init => IInv
PROOF
<1> SUFFICES ASSUME Init PROVE IInv
  OBVIOUS
<1>1. /\ heap = [b \in Blocks |-> UnusedBlock] /\ obj = [o \in Objs |-> NoObject]
      /\ live = {} /\ caller = {} /\ faults = {}
  BY DEF Init
<1>2. Sound(NoDomain) /\ NoDomain.free = "none"
  BY BuildSound DEF NoDomain
<1>3. NoObject \in Object /\ NoObject.dom = NoDomain /\ NoObject.ptr = Null
  BY <1>2 DEF NoObject, Object, Sound
<1>4. UnusedBlock \in Block
  BY DEF UnusedBlock, Block
<1>5. Now \in Store
  BY <1>1, <1>3, <1>4 DEF Now, Store
<1>6. Good(Now, Objs)
  BY <1>1, <1>2, <1>3, <1>5, NowFields DEF Good, Fits, Apart, Owns, Now
<1> QED
  BY <1>1, <1>5, <1>6 DEF IInv, TypeOK, FreedOnce, FreedByItsKind

LEMMA NextInv ==
  ASSUME IInv, Disciplined, [Next]_vars
  PROVE  IInv'
PROOF
<1>1. CASE UNCHANGED vars
  BY <1>1 DEF vars, IInv, TypeOK, Good, Now, Store, Fits, Apart, Owns, FreedOnce,
              FreedByItsKind
<1>2. ASSUME NEW o \in Objs, Construct(o) PROVE IInv'
  BY <1>2, EmptyDataInv, OwningDataInv, OwningLikeInv, NonowningDataInv,
     ViewCallerInv, CopyCallerInv, MoveCallerInv, CloneDataInv, CopyConstructInv,
     MoveConstructInv DEF Construct
<1>3. ASSUME NEW o \in Objs, Change(o) PROVE IInv'
  BY <1>3, CopyAssignInv, MoveAssignInv, DestroyInv, ReleaseInv, ResetInv,
     SetDimensionsInv, ReshapeInv, WriteInv DEF Change
<1>4. ASSUME NEW k \in CallerKinds, NEW n \in Sizes, CallerAlloc(k, n) PROVE IInv'
  BY <1>4, CallerAllocInv
<1>5. ASSUME NEW b \in Blocks, CallerFree(b) PROVE IInv'
  BY <1>5, CallerFreeInv
<1> QED
  BY <1>1, <1>2, <1>3, <1>4, <1>5 DEF Next

\* The invariant says what the runs check.
LEMMA IInvImplies ==
  ASSUME IInv
  PROVE  TypeOK /\ OneOwner /\ OwnedIsLive /\ FreedOnce /\ FreedByItsKind
PROOF
<1>1. OneOwner
  BY NowFields DEF IInv, OneOwner, Good, Fits, Apart
<1>2. OwnedIsLive
  BY NowFields DEF IInv, OwnedIsLive, Good, Fits
<1> QED
  BY <1>1, <1>2 DEF IInv

-----------------------------------------------------------------------------
\* The invariant holds in every reachable state of a disciplined program.
THEOREM Inductive ==
  ASSUME Disciplined
  PROVE  Spec => []IInv
PROOF
<1>1. IInv /\ [Next]_vars => IInv'
  BY NextInv
<1> QED
  BY <1>1, InitInv, PTL DEF Spec

\* Types: an object that is not constructed holds nothing, whichever constructor
\* threw (pressio_data's and pressio_memory's constructors).
THEOREM TypeCorrect ==
  ASSUME Disciplined
  PROVE  Spec => []TypeOK
PROOF
<1>1. IInv => TypeOK
  BY IInvImplies
<1> QED
  BY <1>1, Inductive, PTL

\* One owner per block, still allocated, by the allocator its domain frees with
\* (the constructors, assignments, release and reset of pressio_memory).
THEOREM Ownership ==
  ASSUME Disciplined
  PROVE  Spec => []OwnedOnce
PROOF
<1>1. IInv => OwnedOnce
  BY IInvImplies DEF OwnedOnce
<1> QED
  BY <1>1, Inductive, PTL

\* No block is freed twice or by another kind of deallocator (pressio_domain::free).
THEOREM FreedRight ==
  ASSUME Disciplined
  PROVE  Spec => []FreedRightly
PROOF
<1>1. IInv => FreedRightly
  BY IInvImplies DEF FreedRightly
<1> QED
  BY <1>1, Inductive, PTL

-----------------------------------------------------------------------------
(***************************************************************************)
(* A careful program.                                                      *)
(***************************************************************************)
\* A domain that allocates, copies, and frees what it allocates: all but the views', whose memcpy does
\* nothing, and the user domains made from a deleter.
Complete(d) == d \in Domain /\ d.prefix # "nonowning" /\ d.free # "none" /\ d.alloc = d.free

Careful == Liberties = {} /\ \A d \in Domains : Complete(d)

\* The domains an object of a careful program has.
Held(d) == Complete(d) \/ d = NoDomain \/ \E id \in Ids : d = Nonowning(id)

\* A pointer, its capacity and its domain are true to the heap: a block that is freed by
\* the object is as large as stated, a view of a live block no larger than it.
Fitting(s, p, n, d) ==
  /\ Held(d)
  /\ d = NoDomain => p = Null
  /\ p # Null =>
       /\ s.heap[p].st # "unused"
       /\ s.heap[p].st = "live" => n <= s.heap[p].cap
       /\ d.free # "none" => n = s.heap[p].cap

Sized(s, o) == Fitting(s, s.obj[o].ptr, s.obj[o].cap, s.obj[o].dom)

\* A store in which the objects of X own their blocks, state the truth about them, and
\* the caller and they have all the live blocks but those of B.
Neat(s, X, B) ==
  /\ Good(s, X)
  /\ s.faults = {}
  /\ \A o \in X : Sized(s, o)
  /\ \A b \in Blocks \ B : s.heap[b].st = "live" =>
       b \in s.caller \/ \E o \in X : Owns(s, o) /\ s.obj[o].ptr = b

\* The shape of an object with a buffer is within its capacity.
Shaped(s, o) == s.obj[o].ptr # Null => s.obj[o].num * s.obj[o].width <= s.obj[o].cap

(***************************************************************************)
(* The inductive invariant.                                                *)
(***************************************************************************)
CInv ==
  /\ TypeOK
  /\ Neat(Now, Objs, {})
  /\ \A o \in Objs : Shaped(Now, o)
  /\ faults \subseteq {"null_domain"}

LEMMA CarefulDisciplined == ASSUME Careful PROVE Disciplined
<1>1. \A d \in Domains : Sound(d)
  BY DEF Careful, Complete, Sound
<1> QED
  BY <1>1 DEF Careful, Disciplined

LEMMA CInvIInv == CInv => IInv
BY NowFields DEF CInv, Neat, IInv, FreedOnce, FreedByItsKind

LEMMA BuildHeld ==
  ASSUME NEW id \in Ids
  PROVE  /\ Build(id) = NoDomain \/ Complete(Build(id))
         /\ Build(id) # NoDomain => Build(id).id = id
         /\ Held(Nonowning(id)) /\ Nonowning(id).free = "none" /\ Nonowning(id) # NoDomain
         /\ Held(NoDomain) /\ NoDomain.free = "none"
<1>1. Complete(MallocDomain) /\ MallocDomain.id = "malloc"
  BY DEF Complete, MallocDomain, Domain, Ids, Kinds
<1>2. Complete(CudaDomain) /\ CudaDomain.id = "cudamalloc"
  BY DEF Complete, CudaDomain, Domain, Ids, Kinds
<1>3. Complete(CudaHostDomain) /\ CudaHostDomain.id = "cudamallochost"
  BY DEF Complete, CudaHostDomain, Domain, Ids, Kinds
<1>4. \/ id = "malloc" /\ Build(id) = MallocDomain
      \/ id = "cudamalloc" /\ Build(id) = CudaDomain
      \/ id = "cudamallochost" /\ Build(id) = CudaHostDomain
      \/ Build(id) = NoDomain
  BY DEF Build
<1>5. Nonowning(id).free = "none" /\ Nonowning(id).prefix = "nonowning"
      /\ NoDomain.free = "none" /\ NoDomain.prefix = "none"
  BY DEF Nonowning, NoDomain
<1> QED
  BY <1>1, <1>2, <1>3, <1>4, <1>5 DEF Held

\* What is held either allocates what it frees, or frees nothing.
LEMMA HeldIs ==
  ASSUME NEW d, Held(d)
  PROVE  /\ Sound(d) /\ d \in Domain
         /\ Complete(d) <=> d.free # "none"
         /\ \/ Complete(d)
            \/ d = NoDomain
            \/ d.prefix = "nonowning" /\ d.alloc = "none" /\ d.fail = "throw"
<1>1. CASE Complete(d)
  BY <1>1 DEF Complete, Sound
<1>2. CASE d = NoDomain
  BY <1>2, BuildSound DEF Complete, Sound, NoDomain
<1>3. CASE \E id \in Ids : d = Nonowning(id)
  BY <1>3 DEF Nonowning, Sound, Domain, Kinds, Complete
<1> QED
  BY <1>1, <1>2, <1>3 DEF Held

LEMMA SetMemFields ==
  ASSUME NEW s \in Store, NEW o \in Objs, NEW p \in Blocks \cup {Null}, NEW n \in Nat, NEW d \in Domain
  PROVE  LET t == SetMem(s, o, p, n, d)
         IN  /\ t \in Store /\ t.heap = s.heap /\ t.caller = s.caller /\ t.faults = s.faults
             /\ t.obj[o].ptr = p /\ t.obj[o].cap = n /\ t.obj[o].dom = d
             /\ t.obj[o].num = s.obj[o].num /\ t.obj[o].width = s.obj[o].width
             /\ Framed(s, t, o)
<1> DEFINE O == [s.obj[o] EXCEPT !.ptr = p, !.cap = n, !.dom = d]
           t == SetMem(s, o, p, n, d)
<1>1. s.obj[o] \in Object
  BY DEF Store
<1>2. /\ O \in Object /\ O.ptr = p /\ O.cap = n /\ O.dom = d
      /\ O.num = s.obj[o].num /\ O.width = s.obj[o].width
  BY <1>1 DEF Object
<1>3. t = [s EXCEPT !.obj[o] = O]
  BY DEF SetMem
<1> HIDE DEF O, t
<1>4. /\ t.heap = s.heap /\ t.caller = s.caller /\ t.faults = s.faults
      /\ t.obj = [s.obj EXCEPT ![o] = O]
  BY <1>3 DEF Store
<1>5. t.obj[o] = O /\ Framed(s, t, o)
  BY <1>4 DEF Store, Framed
<1>6. t \in Store
  BY <1>2, <1>3, <1>4 DEF Store
<1> QED
  BY <1>2, <1>4, <1>5, <1>6 DEF t

LEMMA ShapeFields ==
  ASSUME NEW s \in Store, NEW o \in Objs, NEW n \in Nat, NEW w \in Nat
  PROVE  LET t == SetShape(s, o, n, w)
         IN  /\ t \in Store /\ t.heap = s.heap /\ t.caller = s.caller /\ t.faults = s.faults
             /\ t.obj[o].ptr = s.obj[o].ptr /\ t.obj[o].cap = s.obj[o].cap /\ t.obj[o].dom = s.obj[o].dom
             /\ t.obj[o].num = n /\ t.obj[o].width = w
             /\ Framed(s, t, o)
<1> DEFINE O == [s.obj[o] EXCEPT !.num = n, !.width = w]
           t == SetShape(s, o, n, w)
<1>1. s.obj[o] \in Object
  BY DEF Store
<1>2. /\ O \in Object /\ O.num = n /\ O.width = w
      /\ O.ptr = s.obj[o].ptr /\ O.cap = s.obj[o].cap /\ O.dom = s.obj[o].dom
  BY <1>1 DEF Object
<1>3. t = [s EXCEPT !.obj[o] = O]
  BY DEF SetShape
<1> HIDE DEF O, t
<1>4. /\ t.heap = s.heap /\ t.caller = s.caller /\ t.faults = s.faults
      /\ t.obj = [s.obj EXCEPT ![o] = O]
  BY <1>3 DEF Store
<1>5. t.obj[o] = O /\ Framed(s, t, o)
  BY <1>4 DEF Store, Framed
<1>6. t \in Store
  BY <1>2, <1>3, <1>4 DEF Store
<1> QED
  BY <1>2, <1>4, <1>5, <1>6 DEF t

\* What an object points to is judged by its block.
LEMMA SizedKept ==
  ASSUME NEW s, NEW t, NEW o, Sized(s, o), t.heap = s.heap,
         t.obj[o].ptr = s.obj[o].ptr, t.obj[o].cap = s.obj[o].cap, t.obj[o].dom = s.obj[o].dom
  PROVE  Sized(t, o)
BY DEF Sized, Fitting

\* A shape is no concern of the store's.
LEMMA ShapeNeat ==
  ASSUME NEW s, Neat(s, Objs, {}), NEW o \in Objs, NEW n \in Nat, NEW w \in Nat
  PROVE  Neat(SetShape(s, o, n, w), Objs, {})
<1> DEFINE t == SetShape(s, o, n, w)
<1>1. /\ t.heap = s.heap /\ t.caller = s.caller /\ t.faults = s.faults
      /\ t.obj[o].ptr = s.obj[o].ptr /\ t.obj[o].cap = s.obj[o].cap /\ t.obj[o].dom = s.obj[o].dom
      /\ Framed(s, t, o)
  BY ShapeFields DEF Neat, Good
<1>2. Good(t, Objs)
  BY ShapeGood DEF Neat
<1> HIDE DEF t
<1>3. \A q \in Objs : /\ t.obj[q].ptr = s.obj[q].ptr /\ t.obj[q].cap = s.obj[q].cap
                      /\ t.obj[q].dom = s.obj[q].dom
  BY <1>1 DEF Framed
<1>4. \A q \in Objs : Sized(t, q)
  <2>1. \A q \in Objs : Sized(s, q)
    BY DEF Neat
  <2> QED
    BY <1>1, <1>3, <2>1, SizedKept
<1>5. Neat(t, Objs, {})
  BY <1>1, <1>2, <1>3, <1>4 DEF Neat, Owns
<1> QED
  BY <1>5 DEF t

LEMMA ReshapedNeat ==
  ASSUME NEW s, Neat(s, Objs, {}), NEW o \in Objs, NEW n \in Nat, NEW w \in Nat
  PROVE  LET t == SetShape(s, o, n, w)
         IN  /\ Neat(t, Objs, {}) /\ t.heap = s.heap /\ t.caller = s.caller /\ Framed(s, t, o)
             /\ t.obj[o].ptr = s.obj[o].ptr /\ t.obj[o].cap = s.obj[o].cap /\ t.obj[o].dom = s.obj[o].dom
             /\ t.obj[o].num = n /\ t.obj[o].width = w
<1>1. s \in Store
  BY DEF Neat, Good
<1> QED
  BY <1>1, ShapeNeat, ShapeFields

\* Giving object o, the only one unaccounted for, a buffer: the block no one answers for if
\* the domain frees, nobody's or somebody else's if it does not.
LEMMA PutNeat ==
  ASSUME NEW s, NEW o \in Objs, NEW B, Neat(s, Objs \ {o}, B),
         NEW O \in Object, Fitting(s, O.ptr, O.cap, O.dom), Free4(s, O.ptr, o, O.dom),
         B = {} \/ (B = {O.ptr} /\ O.dom.free # "none")
  PROVE  LET t == Put(s, o, O)
         IN  /\ Neat(t, Objs, {}) /\ Framed(s, t, o) /\ t.obj[o] = O
             /\ t.heap = s.heap /\ t.caller = s.caller
<1> DEFINE t == Put(s, o, O)
<1>1. Sound(O.dom)
  BY HeldIs DEF Fitting
<1>2. s \in Store
  BY DEF Neat, Good
<1>3. /\ Good(t, Objs) /\ Framed(s, t, o) /\ t.obj[o] = O
      /\ t.heap = s.heap /\ t.caller = s.caller
  BY <1>1, PutGood DEF Neat
<1>4. t.faults = s.faults
  BY <1>2 DEF Put, Store
<1> HIDE DEF t
<1>5. Sized(t, o)
  BY <1>3 DEF Sized, Fitting
<1>6. \A q \in Objs \ {o} : Sized(t, q)
  BY <1>3 DEF Neat, Sized, Fitting, Framed
<1>7. ASSUME NEW b \in Blocks, t.heap[b].st = "live"
      PROVE  b \in t.caller \/ \E q \in Objs : Owns(t, q) /\ t.obj[q].ptr = b
  <2>1. CASE b \in B
    BY <1>3, <2>1, NullAssumption DEF Owns
  <2>2. CASE b \notin B
    BY <1>3, <1>7, <2>2 DEF Neat, Owns, Framed
  <2> QED
    BY <2>1, <2>2
<1>8. Neat(t, Objs, {})
  BY <1>3, <1>4, <1>5, <1>6, <1>7 DEF Neat
<1> QED
  BY <1>3, <1>8 DEF t

LEMMA PointNeat ==
  ASSUME NEW s, NEW o \in Objs, NEW B, Neat(s, Objs \ {o}, B),
         NEW p \in Blocks \cup {Null}, NEW n \in Nat, NEW d, Fitting(s, p, n, d), Free4(s, p, o, d),
         B = {} \/ (B = {p} /\ d.free # "none")
  PROVE  Neat(SetMem(s, o, p, n, d), Objs, {})
<1> DEFINE O == [s.obj[o] EXCEPT !.ptr = p, !.cap = n, !.dom = d]
<1>1. d \in Domain /\ s.obj[o] \in Object
  BY HeldIs DEF Fitting, Neat, Good, Store
<1>2. O \in Object /\ O.ptr = p /\ O.cap = n /\ O.dom = d
  BY <1>1 DEF Object
<1>3. SetMem(s, o, p, n, d) = Put(s, o, O)
  BY DEF SetMem, Put
<1> HIDE DEF O
<1> QED
  BY <1>2, <1>3, PutNeat

\* Freeing what object o has leaves it the only one unaccounted for.
LEMMA FreeNeat ==
  ASSUME NEW s, NEW B, Neat(s, Objs, B), NEW o \in Objs
  PROVE  LET f == FreeMem(s, o)
         IN  /\ Neat(f, Objs \ {o}, B) /\ f.obj = s.obj /\ f.caller = s.caller
             /\ Room(s) => Room(f)
             /\ \A b \in Blocks : f.heap[b] = s.heap[b] \/ (Owns(s, o) /\ b = s.obj[o].ptr)
<1> DEFINE p == s.obj[o].ptr
           d == s.obj[o].dom
           f == FreeMem(s, o)
<1>1. s \in Store /\ Sized(s, o) /\ Fits(s, o)
  BY DEF Neat, Good
<1>2. Good(f, Objs \ {o}) /\ f.obj = s.obj /\ f.caller = s.caller /\ (Room(s) => Room(f))
  BY FreeGood DEF Neat
<1>3. CASE ~Owns(s, o)
  <2>1. f = s
    BY <1>3 DEF FreeMem, Free, Owns
  <2>2. Neat(s, Objs \ {o}, B)
    BY <1>2, <1>3, <2>1 DEF Neat
  <2> QED
    BY <1>2, <2>1, <2>2
<1>4. CASE Owns(s, o)
  <2>1. p \in Blocks /\ p # Null /\ d.free # "none"
    BY <1>1, <1>4 DEF Owns, Store, Object
  <2>2. FreeFaults(s, d, p, s.obj[o].cap) = {}
    BY <1>1, <1>4, <2>1 DEF FreeFaults, Fits, Sized, Fitting
  <2>3. f = [s EXCEPT !.heap[p] = FreedBlock, !.faults = @ \cup {}]
    BY <2>1, <2>2 DEF FreeMem, Free
  <2> HIDE DEF f, p
  <2>4. f.heap = [s.heap EXCEPT ![p] = FreedBlock] /\ f.faults = {}
    BY <1>1, <2>3 DEF Store, Neat
  <2>5. /\ \A b \in Blocks : b # p => f.heap[b] = s.heap[b]
        /\ f.heap[p].st = "freed"
    BY <1>1, <2>1, <2>4 DEF Store, FreedBlock
  <2>6. \A q \in Objs \ {o} : Owns(s, q) => s.obj[q].ptr # p
    BY <1>4 DEF Neat, Good, Apart, p
  <2>7. \A q \in Objs \ {o} : Sized(f, q)
    <3> SUFFICES ASSUME NEW q \in Objs \ {o} PROVE Sized(f, q)
      OBVIOUS
    <3>1. Sized(s, q) /\ s.obj[q].ptr \in Blocks \cup {Null} /\ f.obj[q] = s.obj[q]
      BY <1>1, <1>2 DEF Neat, Store, Object
    <3>2. CASE s.obj[q].ptr = p
      BY <2>5, <2>6, <3>1, <3>2 DEF Sized, Fitting, Owns
    <3>3. CASE s.obj[q].ptr # p
      BY <2>5, <3>1, <3>3 DEF Sized, Fitting
    <3> QED
      BY <3>2, <3>3
  <2>8. ASSUME NEW b \in Blocks \ B, f.heap[b].st = "live"
        PROVE  b \in f.caller \/ \E q \in Objs \ {o} : Owns(f, q) /\ f.obj[q].ptr = b
    <3>1. b # p /\ s.heap[b].st = "live"
      BY <2>5, <2>8
    <3>2. b \in s.caller \/ \E q \in Objs : Owns(s, q) /\ s.obj[q].ptr = b
      BY <3>1 DEF Neat
    <3> QED
      BY <1>2, <3>1, <3>2 DEF Owns, p
  <2>9. Neat(f, Objs \ {o}, B)
    BY <1>2, <2>4, <2>7, <2>8 DEF Neat
  <2> QED
    BY <1>2, <1>4, <2>5, <2>9 DEF f, p
<1> QED
  BY <1>3, <1>4

\* What allocating n bytes for object o in domain d leaves: a new block of that size.
Filled(s, t, o, n, d) ==
  /\ Neat(t, Objs, {})
  /\ Framed(s, t, o) /\ t.caller = s.caller
  /\ t.obj[o].cap = n /\ t.obj[o].dom = d
  /\ t.obj[o].num = s.obj[o].num /\ t.obj[o].width = s.obj[o].width
  /\ t.obj[o].ptr \in Blocks
  /\ s.heap[t.obj[o].ptr].st = "unused"
  /\ t.heap[t.obj[o].ptr].st = "live" /\ t.heap[t.obj[o].ptr].cap = n
  /\ \A b \in Blocks : s.heap[b].st # "unused" => t.heap[b] = s.heap[b]

LEMMA AllocNeat ==
  ASSUME NEW s, NEW o \in Objs, Neat(s, Objs \ {o}, {}), NEW n \in Nat, NEW d, Complete(d), Room(s)
  PROVE  LET a == Alloc(s, d, n, TRUE)
         IN  a.threw = FALSE /\ Filled(s, SetMem(a.s, o, a.ptr, n, d), o, n, d)
<1> DEFINE X == Objs \ {o}
           a == Alloc(s, d, n, TRUE)
           p == Fresh(s)
           B == [st |-> "live", by |-> d.alloc, cap |-> n, tag |-> "junk"]
           t == SetMem(a.s, o, a.ptr, n, d)
<1>1. d.alloc # "none" /\ Sound(d) /\ Held(d) /\ d \in Domain /\ d # NoDomain /\ d.free # "none"
  BY DEF Complete, Sound, Held, NoDomain
<1>2. s \in Store /\ Good(s, X) /\ X \in SUBSET Objs
  BY DEF Neat, Good
<1>3. p \in Blocks /\ s.heap[p].st = "unused"
  BY DEF Room, Fresh
<1>4. a = [s |-> [s EXCEPT !.heap[p] = B], ptr |-> p, threw |-> FALSE]
  BY <1>1 DEF Alloc
<1>5. /\ Good(a.s, X) /\ a.s.obj = s.obj /\ a.s.caller = s.caller
      /\ a.ptr # Null /\ d.free # "none" =>
           /\ a.s.heap[a.ptr].st = "live" /\ a.s.heap[a.ptr].by = d.free
           /\ a.ptr \notin s.caller
           /\ \A q \in X : Owns(s, q) => s.obj[q].ptr # a.ptr
  <2> HIDE DEF X
  <2> QED
    BY <1>1, <1>2, AllocGood
<1>6. B.st = "live" /\ B.cap = n
  OBVIOUS
<1> HIDE DEF a, p, B
<1>7. /\ a.s.heap = [s.heap EXCEPT ![p] = B] /\ a.s.faults = s.faults
      /\ a.ptr = p /\ a.threw = FALSE
  BY <1>2, <1>4 DEF Store
<1>8. a.s.heap[p] = B /\ \A b \in Blocks : b # p => a.s.heap[b] = s.heap[b]
  BY <1>2, <1>3, <1>7 DEF Store
<1>9. p # Null
  BY <1>3, NullAssumption
<1>10. \A q \in X : Sized(a.s, q)
  <2> SUFFICES ASSUME NEW q \in X PROVE Sized(a.s, q)
    OBVIOUS
  <2>1. Sized(s, q) /\ s.obj[q].ptr \in Blocks \cup {Null} /\ a.s.obj[q] = s.obj[q]
    BY <1>2, <1>5 DEF Neat, Store, Object
  <2>2. s.obj[q].ptr # p
    BY <1>3, <1>9, <2>1 DEF Sized, Fitting
  <2> QED
    BY <1>8, <2>1, <2>2 DEF Sized, Fitting
<1>11. Neat(a.s, X, {p})
  <2>1. a.s.faults = {}
    BY <1>7 DEF Neat
  <2>2. ASSUME NEW b \in Blocks \ {p}, a.s.heap[b].st = "live"
        PROVE  b \in a.s.caller \/ \E q \in X : Owns(a.s, q) /\ a.s.obj[q].ptr = b
    BY <1>5, <1>8, <2>2 DEF Neat, Owns
  <2> QED
    BY <1>5, <1>10, <2>1, <2>2 DEF Neat
<1>12. Fitting(a.s, p, n, d)
  BY <1>1, <1>6, <1>8 DEF Fitting
<1>13. Free4(a.s, p, o, d)
  BY <1>5, <1>7, <1>9 DEF Free4, Owns
<1>14. Neat(t, Objs, {})
  BY <1>1, <1>3, <1>7, <1>11, <1>12, <1>13, PointNeat
<1>15. /\ t.heap = a.s.heap /\ t.caller = s.caller
       /\ t.obj[o].ptr = p /\ t.obj[o].cap = n /\ t.obj[o].dom = d
       /\ t.obj[o].num = s.obj[o].num /\ t.obj[o].width = s.obj[o].width
       /\ Framed(a.s, t, o)
  BY <1>1, <1>3, <1>5, <1>7, SetMemFields DEF Good
<1> HIDE DEF t
<1>16. Filled(s, t, o, n, d)
  BY <1>3, <1>5, <1>6, <1>8, <1>14, <1>15 DEF Filled, Framed
<1> QED
  BY <1>7, <1>16 DEF t, a

\* A block with other contents is the same block to those who own it.
LEMMA TagNeat ==
  ASSUME NEW s, Neat(s, Objs, {}), NEW p \in Blocks, NEW x \in Tags \cup {"junk"}
  PROVE  LET t == [s EXCEPT !.heap[p].tag = x]
         IN  Neat(t, Objs, {}) /\ t.obj = s.obj /\ t.caller = s.caller
<1> DEFINE t == [s EXCEPT !.heap[p].tag = x]
<1>1. s \in Store /\ s.heap[p] \in Block
  BY DEF Neat, Good, Store
<1>2. [s.heap[p] EXCEPT !.tag = x] \in Block
  BY <1>1 DEF Block
<1>3. t = [s EXCEPT !.heap[p] = [@ EXCEPT !.tag = x]]
  OBVIOUS
<1> HIDE DEF t
<1>4. /\ t.heap = [s.heap EXCEPT ![p] = [@ EXCEPT !.tag = x]]
      /\ t.obj = s.obj /\ t.caller = s.caller /\ t.faults = s.faults
  BY <1>1, <1>3 DEF Store
<1>5. t \in Store
  BY <1>1, <1>2, <1>3, <1>4 DEF Store
<1>6. \A b \in Blocks : /\ t.heap[b].st = s.heap[b].st /\ t.heap[b].by = s.heap[b].by
                        /\ t.heap[b].cap = s.heap[b].cap
  BY <1>1, <1>4 DEF Store, Block
<1>7. \A q \in Objs : s.obj[q].ptr \in Blocks \cup {Null}
  BY <1>1 DEF Store, Object
<1>8. Good(t, Objs)
  <2>1. \A q \in Objs : Owns(s, q) =>
          /\ t.heap[s.obj[q].ptr].st = s.heap[s.obj[q].ptr].st
          /\ t.heap[s.obj[q].ptr].by = s.heap[s.obj[q].ptr].by
          /\ s.obj[q].ptr \notin t.caller
    BY <1>4, <1>6, <1>7 DEF Neat, Good, Fits, Owns
  <2>2. \A b \in t.caller : t.heap[b].st = "live"
    BY <1>1, <1>4, <1>6 DEF Neat, Good, Store
  <2>3. "double_free" \notin t.faults /\ "wrong_free" \notin t.faults /\ Good(s, Objs)
    BY <1>4 DEF Neat
  <2> QED
    BY <1>4, <1>5, <2>1, <2>2, <2>3, KeepGood
<1>9. \A q \in Objs : Sized(t, q)
  BY <1>4, <1>6, <1>7 DEF Neat, Sized, Fitting
<1>10. Neat(t, Objs, {})
  BY <1>4, <1>6, <1>8, <1>9 DEF Neat, Owns
<1> QED
  BY <1>4, <1>10 DEF t

\* A copy within both buffers and one domain is no fault.
LEMMA MemcpyNeat ==
  ASSUME NEW s, Neat(s, Objs, {}), NEW d, NEW p, NEW q, NEW n, NEW id,
         p \in Blocks \cup {Null}, q \in Blocks \cup {Null},
         d.prefix # "nonowning" => InRange(s, p, n) /\ InRange(s, q, n) /\ d.id = id
  PROVE  LET t == Memcpy(s, d, p, q, n, id)
         IN  Neat(t, Objs, {}) /\ t.obj = s.obj /\ t.caller = s.caller
<1> DEFINE t == Memcpy(s, d, p, q, n, id)
<1>1. CASE d.prefix = "nonowning"
  BY <1>1 DEF Memcpy
<1>2. CASE d.prefix # "nonowning"
  <2>1. p \in Blocks /\ q \in Blocks /\ s \in Store
    BY <1>2 DEF InRange, IsLive, Neat, Good
  <2>2. s.heap[q].tag \in Tags \cup {"junk"}
    BY <2>1 DEF Store, Block
  <2>3. t = [s EXCEPT !.heap[p].tag = s.heap[q].tag, !.faults = @ \cup {}]
    BY <1>2 DEF Memcpy
  <2> DEFINE u == [s EXCEPT !.heap[p].tag = s.heap[q].tag]
  <2>4. Neat(u, Objs, {}) /\ u.obj = s.obj /\ u.caller = s.caller
    BY <2>1, <2>2, TagNeat
  <2> HIDE DEF t
  <2>5. t = u
    BY <2>1, <2>3 DEF Store
  <2> QED
    BY <2>4, <2>5 DEF t
<1> QED
  BY <1>1, <1>2

\* What an object must be to be copied from, or over.
Usable(s, o) ==
  /\ s.obj[o].ptr = Null => s.obj[o].cap = 0
  /\ s.obj[o].ptr # Null => s.heap[s.obj[o].ptr].st = "live" /\ s.obj[o].cap <= s.heap[s.obj[o].ptr].cap

\* The copy is in range when the left side holds all of the right one.
LEMMA CopyBytesNeat ==
  ASSUME NEW s, Neat(s, Objs, {}), NEW l \in Objs, NEW r \in Objs, Usable(s, l), Usable(s, r),
         s.obj[l].dom # NoDomain =>
           s.obj[r].cap <= s.obj[l].cap /\ s.obj[l].dom.id = s.obj[r].dom.id
  PROVE  LET t == CopyBytes(s, l, r)
         IN  Neat(t, Objs, {}) /\ t.obj = s.obj /\ t.caller = s.caller
<1> DEFINE L == s.obj[l]
           R == s.obj[r]
           n == IF R.cap <= L.cap THEN R.cap ELSE L.cap
           t == CopyBytes(s, l, r)
<1>1. /\ s \in Store /\ L \in Object /\ R \in Object /\ L.cap \in Nat /\ R.cap \in Nat
      /\ L.ptr \in Blocks \cup {Null} /\ R.ptr \in Blocks \cup {Null}
      /\ \A b \in Blocks : s.heap[b].cap \in Nat
  BY DEF Neat, Good, Store, Object, Block
<1>2. t = IF n = 0 THEN s ELSE Memcpy(s, L.dom, L.ptr, R.ptr, n, R.dom.id)
  BY DEF CopyBytes
<1>3. CASE n = 0
  BY <1>2, <1>3
<1>4. CASE n # 0
  <2>1. L.cap # 0 /\ R.cap # 0 /\ n <= L.cap /\ n <= R.cap /\ n \in Nat
    BY <1>1, <1>4
  <2>2. L.ptr # Null /\ R.ptr # Null
    BY <2>1 DEF Usable
  <2>3. L.dom # NoDomain
    BY <2>2 DEF Neat, Sized, Fitting
  <2> HIDE DEF n
  <2>4. InRange(s, L.ptr, n) /\ InRange(s, R.ptr, n)
    BY <1>1, <2>1, <2>2 DEF Usable, InRange, IsLive
  <2>5. LET u == Memcpy(s, L.dom, L.ptr, R.ptr, n, R.dom.id)
        IN  Neat(u, Objs, {}) /\ u.obj = s.obj /\ u.caller = s.caller
    BY <1>1, <2>3, <2>4, MemcpyNeat
  <2> QED
    BY <1>2, <1>4, <2>5
<1> QED
  BY <1>3, <1>4

\* The left side's growth, when the right side is not a view of it.
LEMMA RegrowNeat ==
  ASSUME NEW s, Neat(s, Objs, {}), NEW l \in Objs, NEW n \in Nat, Room(s), Complete(s.obj[l].dom)
  PROVE  LET g == Regrow(s, l, n, TRUE)
         IN  /\ g.threw = FALSE
             /\ Filled(FreeMem(s, l), g.s, l, n, s.obj[l].dom)
<1> DEFINE f == FreeMem(s, l)
           d == s.obj[l].dom
           a == Alloc(f, d, n, TRUE)
           g == Regrow(s, l, n, TRUE)
<1>1. Neat(f, Objs \ {l}, {}) /\ Room(f)
  BY FreeNeat
<1>2. g = [s |-> IF a.threw THEN a.s ELSE SetMem(a.s, l, a.ptr, n, d), threw |-> a.threw]
  BY DEF Regrow
<1> HIDE DEF f, d
<1>3. a.threw = FALSE /\ Filled(f, SetMem(a.s, l, a.ptr, n, d), l, n, d)
  BY <1>1, AllocNeat DEF d
<1> HIDE DEF a, g
<1>4. g.s = SetMem(a.s, l, a.ptr, n, d) /\ g.threw = FALSE
  BY <1>2, <1>3
<1> QED
  BY <1>3, <1>4 DEF f, d, g

\* What is left of object l when r is assigned to it: a buffer that holds what r has.
Taken(s, t, l, r) ==
  /\ Neat(t, Objs, {})
  /\ Framed(s, t, l) /\ t.caller = s.caller
  /\ t.obj[l].num = s.obj[l].num /\ t.obj[l].width = s.obj[l].width
  /\ t.obj[l].ptr # Null => s.obj[r].cap <= t.obj[l].cap

LEMMA AssignNeat ==
  ASSUME NEW s, Neat(s, Objs, {}), NEW l \in Objs, NEW r \in Objs, l # r,
         Usable(s, l), Usable(s, r), Room(s) \/ ~(s.obj[l].cap < s.obj[r].cap),
         s.obj[l].dom # NoDomain => s.obj[l].dom.id = s.obj[r].dom.id,
         s.obj[l].dom.prefix = "nonowning" /\ ~Complete(s.obj[l].dom) => ~(s.obj[l].cap < s.obj[r].cap)
  PROVE  LET t == AssignMem(s, l, r, TRUE)
         IN  t.threw = FALSE /\ Taken(s, t.s, l, r)
<1> DEFINE L == s.obj[l]
           R == s.obj[r]
           d == L.dom
           n == R.cap
           g == IF d # NoDomain /\ L.cap < n THEN Regrow(s, l, n, TRUE) ELSE [s |-> s, threw |-> FALSE]
           t == AssignMem(s, l, r, TRUE)
<1>1. /\ s \in Store /\ L \in Object /\ R \in Object /\ L.cap \in Nat /\ n \in Nat
      /\ L.ptr \in Blocks \cup {Null} /\ R.ptr \in Blocks \cup {Null}
      /\ \A b \in Blocks : s.heap[b].cap \in Nat
  BY DEF Neat, Good, Store, Object, Block
<1>2. Sized(s, l) /\ Sized(s, r)
  BY DEF Neat
<1>3. t = IF g.threw THEN g ELSE [s |-> CopyBytes(g.s, l, r), threw |-> FALSE]
  BY DEF AssignMem
<1>4. CASE ~(d # NoDomain /\ L.cap < n)
  <2>1. t = [s |-> CopyBytes(s, l, r), threw |-> FALSE]
    BY <1>3, <1>4
  <2>2. d # NoDomain => n <= L.cap
    BY <1>1, <1>4
  <2>3. LET u == CopyBytes(s, l, r) IN Neat(u, Objs, {}) /\ u.obj = s.obj /\ u.caller = s.caller
    BY <2>2, CopyBytesNeat
  <2>4. L.ptr # Null => d # NoDomain
    BY <1>2 DEF Sized, Fitting
  <2> HIDE DEF t
  <2>5. t.threw = FALSE /\ Taken(s, t.s, l, r)
    BY <2>1, <2>2, <2>3, <2>4 DEF Taken, Framed
  <2> QED
    BY <2>5 DEF t
<1>5. CASE d # NoDomain /\ L.cap < n
  <2> DEFINE u == Regrow(s, l, n, TRUE).s
             f == FreeMem(s, l)
  <2>1. Complete(d)
    BY <1>2, <1>5, HeldIs DEF Sized, Fitting
  <2>2. Regrow(s, l, n, TRUE).threw = FALSE /\ Filled(f, u, l, n, d)
    BY <1>1, <1>5, <2>1, RegrowNeat
  <2>3. t = [s |-> CopyBytes(u, l, r), threw |-> FALSE]
    BY <1>3, <1>5, <2>2
  <2>4. /\ f.obj = s.obj /\ f.caller = s.caller
        /\ \A b \in Blocks : f.heap[b] = s.heap[b] \/ (Owns(s, l) /\ b = L.ptr)
    BY FreeNeat
  <2> HIDE DEF u, f
  <2>5. /\ Neat(u, Objs, {}) /\ u.caller = s.caller
        /\ u.obj[l].cap = n /\ u.obj[l].dom = d
        /\ u.obj[l].num = L.num /\ u.obj[l].width = L.width
        /\ u.obj[l].ptr \in Blocks
        /\ u.heap[u.obj[l].ptr].st = "live" /\ u.heap[u.obj[l].ptr].cap = n
        /\ Framed(s, u, l) /\ u.obj[r] = R
        /\ \A b \in Blocks : f.heap[b].st # "unused" => u.heap[b] = f.heap[b]
    BY <2>2, <2>4 DEF Filled, Framed
  <2>6. R.ptr # Null /\ s.heap[R.ptr].st = "live" /\ n <= s.heap[R.ptr].cap
    BY <1>1, <1>5 DEF Usable
  <2>7. R.ptr \in Blocks /\ u.heap[R.ptr] = s.heap[R.ptr]
    <3>1. ~(Owns(s, l) /\ R.ptr = L.ptr)
      <4>1. Owns(s, l) => L.cap = s.heap[L.ptr].cap
        BY <1>2 DEF Sized, Fitting, Owns
      <4>2. L.cap # s.heap[R.ptr].cap
        BY <1>1, <1>5, <2>6
      <4> QED
        BY <4>1, <4>2
    <3> QED
      BY <1>1, <2>4, <2>5, <2>6, <3>1
  <2>8. Usable(u, l)
    BY <1>1, <2>5, NullAssumption DEF Usable
  <2>9. Usable(u, r)
    BY <2>5, <2>6, <2>7 DEF Usable
  <2>10. LET v == CopyBytes(u, l, r) IN Neat(v, Objs, {}) /\ v.obj = u.obj /\ v.caller = u.caller
    <3>1. u.obj[r].cap <= u.obj[l].cap /\ u.obj[l].dom.id = u.obj[r].dom.id
      BY <1>1, <1>5, <2>5
    <3> QED
      BY <2>5, <2>8, <2>9, <3>1, CopyBytesNeat
  <2> HIDE DEF t
  <2>11. t.threw = FALSE /\ Taken(s, t.s, l, r)
    BY <1>1, <2>3, <2>5, <2>10 DEF Taken, Framed
  <2> QED
    BY <2>11 DEF t
<1> QED
  BY <1>4, <1>5

\* A constructor that copies fits its buffer to the source's.
LEMMA CopyMemNeat ==
  ASSUME NEW s, NEW o \in Objs, Neat(s, Objs, {}), Neat(s, Objs \ {o}, {}), NEW r \in Objs, o # r,
         NEW d, Complete(d), Room(s), Usable(s, r), d.id = s.obj[r].dom.id
  PROVE  LET t == CopyMem(s, o, r, d, TRUE)
         IN  t.threw = FALSE /\ Taken(s, t.s, o, r)
<1> DEFINE n == s.obj[r].cap
           a == Alloc(s, d, n, TRUE)
           u == SetMem(a.s, o, a.ptr, n, d)
           t == CopyMem(s, o, r, d, TRUE)
<1>1. n \in Nat /\ s \in Store /\ s.obj[r].ptr \in Blocks \cup {Null}
  BY DEF Neat, Good, Store, Object
<1>2. a.threw = FALSE /\ Filled(s, u, o, n, d)
  BY <1>1, AllocNeat
<1>3. t = AssignMem(u, o, r, TRUE)
  BY <1>2 DEF CopyMem, OwningMem
<1> HIDE DEF a, u, t
<1>4. /\ Neat(u, Objs, {}) /\ Framed(s, u, o) /\ u.caller = s.caller
      /\ u.obj[o].cap = n /\ u.obj[o].dom = d /\ u.obj[r] = s.obj[r]
      /\ u.obj[o].num = s.obj[o].num /\ u.obj[o].width = s.obj[o].width
  BY <1>2 DEF Filled, Framed
<1>5. Usable(u, o)
  BY <1>1, <1>2, NullAssumption DEF Filled, Usable
<1>6. Usable(u, r)
  <2>1. s.obj[r].ptr # Null => u.heap[s.obj[r].ptr] = s.heap[s.obj[r].ptr]
    BY <1>1, <1>2 DEF Filled, Usable
  <2> QED
    BY <1>4, <2>1 DEF Usable
<1>7. t.threw = FALSE /\ Taken(u, t.s, o, r)
  <2>1. ~(u.obj[o].cap < u.obj[r].cap)
    BY <1>1, <1>4
  <2> QED
    BY <1>3, <1>4, <1>5, <1>6, <2>1, AssignNeat
<1>8. Taken(s, t.s, o, r)
  BY <1>4, <1>7 DEF Taken, Framed
<1> QED
  BY <1>7, <1>8 DEF t

\* Taking over another object's memory loses none, if there was none to lose.
LEMMA TakeNeat ==
  ASSUME NEW s, Neat(s, Objs, {}), NEW l \in Objs, NEW r \in Objs, l # r, ~Owns(s, l)
  PROVE  LET t == MoveAssignMem(s, l, r)
         IN  /\ Neat(t, Objs, {})
             /\ \A p \in Objs \ {l, r} : t.obj[p] = s.obj[p]
             /\ t.obj[l].ptr = s.obj[r].ptr /\ t.obj[l].cap = s.obj[r].cap
             /\ t.obj[l].num = s.obj[l].num /\ t.obj[l].width = s.obj[l].width
             /\ t.obj[r].ptr = Null
<1> DEFINE R == s.obj[r]
           u == SetMem(s, l, R.ptr, R.cap, R.dom)
           t == SetMem(u, r, Null, 0, NoDomain)
<1>1. /\ s \in Store /\ R.ptr \in Blocks \cup {Null} /\ R.cap \in Nat /\ R.dom \in Domain
      /\ NoDomain \in Domain /\ NoDomain.free = "none"
  BY BuildSound DEF Neat, Good, Store, Object, Sound, NoDomain
<1>2. /\ u \in Store /\ u.heap = s.heap /\ u.caller = s.caller /\ u.faults = s.faults
      /\ u.obj[l].ptr = R.ptr /\ u.obj[l].cap = R.cap /\ u.obj[l].dom = R.dom
      /\ u.obj[l].num = s.obj[l].num /\ u.obj[l].width = s.obj[l].width
      /\ Framed(s, u, l)
  BY <1>1, SetMemFields
<1>3. Good(t, Objs) /\ \A p \in Objs \ {l, r} : t.obj[p] = s.obj[p]
  BY TakeGood DEF Neat
<1> HIDE DEF u
<1>4. /\ t.heap = s.heap /\ t.caller = s.caller /\ t.faults = s.faults
      /\ t.obj[r].ptr = Null /\ t.obj[r].cap = 0 /\ t.obj[r].dom = NoDomain
      /\ Framed(u, t, r)
  <2> DEFINE p == Null
             n == 0
             d == NoDomain
  <2>1. u \in Store /\ p \in Blocks \cup {Null} /\ n \in Nat /\ d \in Domain
    BY <1>1, <1>2
  <2> HIDE DEF p, n, d
  <2>2. LET v == SetMem(u, r, p, n, d)
        IN  /\ v.heap = u.heap /\ v.caller = u.caller /\ v.faults = u.faults
            /\ v.obj[r].ptr = p /\ v.obj[r].cap = n /\ v.obj[r].dom = d
            /\ Framed(u, v, r)
    BY <2>1, SetMemFields
  <2> QED
    BY <1>2, <2>2 DEF p, n, d
<1> HIDE DEF t
<1>5. t.obj[l] = u.obj[l]
  BY <1>4 DEF Framed
<1>6. Sized(t, r)
  BY <1>4 DEF Sized, Fitting, Held
<1>7. \A p \in Objs \ {r} : Sized(t, p)
  <2>1. Sized(s, r) /\ \A p \in Objs \ {l, r} : Sized(s, p)
    BY DEF Neat
  <2>2. t.heap = s.heap
    BY <1>2, <1>4
  <2>3. Sized(t, l)
    BY <1>2, <1>5, <2>1, <2>2 DEF Sized, Fitting
  <2>4. ASSUME NEW p \in Objs \ {l, r} PROVE Sized(t, p)
    <3>1. t.obj[p] = s.obj[p] /\ Sized(s, p)
      BY <1>3, <2>1
    <3> QED
      BY <2>2, <3>1, SizedKept
  <2> QED
    BY <2>3, <2>4
<1>8. ASSUME NEW b \in Blocks, t.heap[b].st = "live"
      PROVE  b \in t.caller \/ \E p \in Objs : Owns(t, p) /\ t.obj[p].ptr = b
  <2>1. b \in s.caller \/ \E p \in Objs : Owns(s, p) /\ s.obj[p].ptr = b
    BY <1>4, <1>8 DEF Neat
  <2>2. Owns(s, r) => Owns(t, l) /\ t.obj[l].ptr = R.ptr
    BY <1>2, <1>5 DEF Owns
  <2>3. \A p \in Objs \ {l, r} : Owns(s, p) => Owns(t, p) /\ t.obj[p].ptr = s.obj[p].ptr
    BY <1>3 DEF Owns
  <2> QED
    BY <1>4, <2>1, <2>2, <2>3
<1>9. Neat(t, Objs, {})
  BY <1>3, <1>4, <1>6, <1>7, <1>8 DEF Neat
<1> QED
  BY <1>2, <1>3, <1>4, <1>5, <1>9 DEF t, u, MoveAssignMem

-----------------------------------------------------------------------------
(***************************************************************************)
(* The steps.                                                              *)
(***************************************************************************)
LEMMA StepNeat ==
  ASSUME CInv, NEW t, Neat(t, Objs, {}), Become(t), live' \subseteq Objs,
         \A p \in Objs \ live' : t.obj[p] = NoObject,
         \A p \in Objs : Shaped(t, p)
  PROVE  CInv'
<1>1. heap' = t.heap /\ obj' = t.obj /\ caller' = t.caller /\ faults' = {}
  BY DEF Become, Neat
<1>2. IInv'
  BY CInvIInv, StepGood DEF Neat
<1>3. Now'.heap = t.heap /\ Now'.obj = t.obj /\ Now'.caller = t.caller /\ Now'.faults = {}
  BY <1>1 DEF Now
<1>4. Neat(Now, Objs, {})'
  <2>1. Good(Now, Objs)'
    BY <1>2 DEF IInv
  <2>2. ASSUME NEW p \in Objs PROVE Sized(Now, p)'
    <3>1. Sized(t, p)
      BY DEF Neat
    <3> QED
      BY <1>3, <3>1 DEF Sized, Fitting
  <2>3. \A b \in Blocks : t.heap[b].st = "live" =>
          b \in t.caller \/ \E p \in Objs : Owns(t, p) /\ t.obj[p].ptr = b
    BY DEF Neat
  <2>4. \A p \in Objs : Owns(Now, p)' <=> Owns(t, p)
    BY <1>3 DEF Owns
  <2> QED
    BY <1>3, <2>1, <2>2, <2>3, <2>4 DEF Neat
<1>5. (\A p \in Objs : Shaped(Now, p))'
  BY <1>3 DEF Shaped
<1> QED
  BY <1>1, <1>2, <1>4, <1>5 DEF CInv, IInv

\* An object that has no buffer to free counts for nothing.
LEMMA WithoutNeat ==
  ASSUME NEW s, Neat(s, Objs, {}), NEW o \in Objs, ~Owns(s, o)
  PROVE  Neat(s, Objs \ {o}, {})
BY DEF Neat, Good

LEMMA NotLive ==
  ASSUME CInv, NEW o \in Objs, o \notin live
  PROVE  Now.obj[o] = NoObject /\ ~Owns(Now, o) /\ Neat(Now, Objs \ {o}, {})
<1>1. Now.obj[o] = NoObject
  BY NowFields DEF CInv, TypeOK
<1>2. ~Owns(Now, o)
  BY <1>1 DEF Owns, NoObject
<1> QED
  BY <1>1, <1>2, WithoutNeat DEF CInv

\* The end of a constructor.
LEMMA ConstructedNeat ==
  ASSUME CInv, NEW o \in Objs, o \notin live, NEW t, NEW n \in Nat, NEW w \in Nat,
         Neat(t, Objs, {}), Framed(Now, t, o), t.obj[o].ptr # Null => n * w <= t.obj[o].cap,
         Constructed(o, [s |-> t, threw |-> FALSE], n, w)
  PROVE  CInv'
<1> DEFINE u == SetShape(t, o, n, w)
<1>1. Become(u) /\ live' = live \cup {o}
  BY DEF Constructed
<1>2. Neat(u, Objs, {})
  BY ShapeNeat
<1>3. /\ u.obj[o].ptr = t.obj[o].ptr /\ u.obj[o].cap = t.obj[o].cap
      /\ u.obj[o].num = n /\ u.obj[o].width = w /\ Framed(t, u, o)
  BY ShapeFields DEF Neat, Good
<1> HIDE DEF u
<1>4. \A p \in Objs \ live' : u.obj[p] = NoObject
  BY <1>1, <1>3, NotLive DEF Framed
<1>5. \A p \in Objs : Shaped(u, p)
  BY <1>3 DEF CInv, Shaped, Framed
<1>6. live' \subseteq Objs
  BY <1>1 DEF CInv, TypeOK
<1> QED
  BY <1>1, <1>2, <1>4, <1>5, <1>6, StepNeat

\* A step that changes one live object.
LEMMA ChangedNeat ==
  ASSUME CInv, NEW o \in live, NEW t, Neat(t, Objs, {}), Framed(Now, t, o), Shaped(t, o),
         Become(t), UNCHANGED live
  PROVE  CInv'
<1>1. live' \subseteq Objs /\ \A p \in Objs \ live' : t.obj[p] = NoObject
  BY NowFields DEF CInv, TypeOK, Framed
<1>2. \A p \in Objs : Shaped(t, p)
  BY DEF CInv, Shaped, Framed
<1> QED
  BY <1>1, <1>2, StepNeat

LEMMA CShapes ==
  /\ \A n \in Nums, w \in Widths : n \in Nat /\ w \in Nat /\ n * w \in Nat
  /\ CInv => \A o \in Objs :
       /\ obj[o].num \in Nat /\ obj[o].width \in Nat /\ SizeInBytes(o) \in Nat
       /\ obj[o].ptr \in Blocks \cup {Null} /\ obj[o].cap \in Nat
       /\ Held(obj[o].dom)
       /\ obj[o].ptr # Null => /\ SizeInBytes(o) <= obj[o].cap
                               /\ heap[obj[o].ptr].st # "unused"
                               /\ heap[obj[o].ptr].cap \in Nat
                               /\ heap[obj[o].ptr].st = "live" => obj[o].cap <= heap[obj[o].ptr].cap
<1>1. ASSUME CInv, NEW o \in Objs
      PROVE  /\ obj[o].ptr \in Blocks \cup {Null} /\ obj[o].cap \in Nat
             /\ Held(obj[o].dom)
             /\ obj[o].ptr # Null => /\ SizeInBytes(o) <= obj[o].cap
                                     /\ heap[obj[o].ptr].st # "unused"
                                     /\ heap[obj[o].ptr].cap \in Nat
                                     /\ heap[obj[o].ptr].st = "live" => obj[o].cap <= heap[obj[o].ptr].cap
  <2>1. Now \in Store /\ Sized(Now, o) /\ Shaped(Now, o)
    BY <1>1 DEF CInv, Neat, Good
  <2>2. obj[o] \in Object /\ \A b \in Blocks : heap[b] \in Block
    BY <2>1, NowFields DEF Store
  <2> QED
    BY <2>1, <2>2, NowFields DEF Object, Block, Sized, Fitting, Shaped, SizeInBytes
<1> QED
  BY <1>1, ShapesInNat, CInvIInv

\* A careful program may do nothing of what it should not.
LEMMA CarefulMay == ASSUME Careful, NEW l PROVE ~May(l)
BY DEF Careful, May

LEMMA CarefulAllocates ==
  ASSUME Careful, NEW ok \in BOOLEAN, MayAllocate(ok)
  PROVE  ok = TRUE /\ Room(Now)
BY CarefulMay DEF MayAllocate

\* A view, or an object without a buffer.
LEMMA AdoptNeat ==
  ASSUME CInv, NEW o \in Objs, ~Owns(Now, o), NEW p \in Blocks \cup {Null}, NEW n \in Nat, NEW d,
         Fitting(Now, p, n, d), d.free = "none" \/ p = Null
  PROVE  LET t == AdoptMem(Now, o, p, n, d)
         IN  /\ Neat(t, Objs, {}) /\ Framed(Now, t, o)
             /\ t.obj[o].ptr = p /\ t.obj[o].cap = n
<1>1. Neat(Now, Objs \ {o}, {}) /\ Now \in Store /\ d \in Domain
  BY WithoutNeat, HeldIs DEF CInv, Neat, Good, Fitting
<1>2. Free4(Now, p, o, d)
  BY DEF Free4
<1> QED
  BY <1>1, <1>2, PointNeat, SetMemFields DEF AdoptMem

\* A buffer of n bytes in a domain that allocates.
LEMMA OwningNeat ==
  ASSUME CInv, NEW o \in Objs, ~Owns(Now, o), NEW n \in Nat, NEW d, Complete(d), Room(Now)
  PROVE  LET a == OwningMem(Now, o, n, d, TRUE)
         IN  a = [s |-> a.s, threw |-> FALSE] /\ Filled(Now, a.s, o, n, d)
<1> DEFINE c == Alloc(Now, d, n, TRUE)
           a == OwningMem(Now, o, n, d, TRUE)
<1>1. Neat(Now, Objs \ {o}, {})
  BY WithoutNeat DEF CInv
<1>2. c.threw = FALSE /\ Filled(Now, SetMem(c.s, o, c.ptr, n, d), o, n, d)
  BY <1>1, AllocNeat
<1>3. a = [s |-> SetMem(c.s, o, c.ptr, n, d), threw |-> FALSE]
  BY <1>2 DEF OwningMem
<1> HIDE DEF a, c
<1>4. a = [s |-> a.s, threw |-> FALSE] /\ Filled(Now, a.s, o, n, d)
  BY <1>2, <1>3
<1> QED
  BY <1>4 DEF a

\* In a domain that cannot, the constructor throws.
LEMMA OwningThrows ==
  ASSUME NEW o, NEW n, NEW d, d.alloc = "none", d.fail = "throw"
  PROVE  OwningMem(Now, o, n, d, TRUE) = [s |-> Now, threw |-> TRUE]
BY DEF OwningMem, Alloc

\* Nothing but the faults changes.
LEMMA SameNeat ==
  ASSUME CInv, UNCHANGED <<heap, obj, live, caller>>, faults' \subseteq {"null_domain"}
  PROVE  CInv'
<1>1. Now' = Now
  BY DEF Now
<1>2. Neat(Now, Objs, {})' /\ (\A o \in Objs : Shaped(Now, o))'
  <2>1. Good(Now, Objs)'
    BY <1>1 DEF CInv, Neat, Good, Sound, Fits, Apart, Owns
  <2>2. (\A o \in Objs : Sized(Now, o))'
    BY <1>1 DEF CInv, Neat, Sized, Fitting, Held, Complete
  <2>3. (\A o \in Objs : Shaped(Now, o))'
    BY <1>1 DEF CInv, Shaped
  <2>4. (\A b \in Blocks : Now.heap[b].st = "live" =>
           b \in Now.caller \/ \E o \in Objs : Owns(Now, o) /\ Now.obj[o].ptr = b)'
    BY <1>1 DEF CInv, Neat, Owns
  <2>5. Now'.faults = {}
    BY DEF Now
  <2> QED
    BY <2>1, <2>2, <2>3, <2>4, <2>5 DEF Neat
<1>3. TypeOK'
  BY <1>1 DEF CInv, TypeOK, Fault
<1> QED
  BY <1>2, <1>3 DEF CInv

LEMMA EmptyDataNeat ==
  ASSUME CInv, Careful, NEW o \in Objs, NEW d \in Domains, NEW n \in Nat, NEW w \in Nat,
         EmptyData(o, d, n, w)
  PROVE  CInv'
<1> DEFINE p == Null
           m == 0
           t == AdoptMem(Now, o, p, m, d)
<1>1. o \notin live /\ Constructed(o, [s |-> t, threw |-> FALSE], n, w)
  BY DEF EmptyData
<1>2. p = Null /\ m \in Nat /\ Fitting(Now, p, m, d)
  BY DEF Careful, Held, Fitting
<1> HIDE DEF p, m
<1>3. ~Owns(Now, o) /\ p \in Blocks \cup {Null}
  BY <1>1, <1>2, NotLive
<1>4. Neat(t, Objs, {}) /\ Framed(Now, t, o) /\ t.obj[o].ptr = p
  BY <1>2, <1>3, AdoptNeat
<1> HIDE DEF t
<1> QED
  BY <1>1, <1>2, <1>4, ConstructedNeat

\* Whatever the domain, the constructor of a buffer succeeds or leaves nothing.
LEMMA BufferNeat ==
  ASSUME CInv, NEW o \in Objs, o \notin live, NEW d, Held(d), d # NoDomain, NEW m \in Nat, Room(Now),
         NEW n \in Nat, NEW w \in Nat, n * w <= m, Constructed(o, OwningMem(Now, o, m, d, TRUE), n, w)
  PROVE  CInv'
<1>1. CASE Complete(d)
  <2> DEFINE a == OwningMem(Now, o, m, d, TRUE)
  <2>1. a = [s |-> a.s, threw |-> FALSE] /\ Filled(Now, a.s, o, m, d)
    BY <1>1, NotLive, OwningNeat
  <2> HIDE DEF a
  <2>2. Constructed(o, [s |-> a.s, threw |-> FALSE], n, w)
    BY <2>1 DEF a
  <2>3. Neat(a.s, Objs, {}) /\ Framed(Now, a.s, o) /\ a.s.obj[o].cap = m
    BY <2>1 DEF Filled
  <2> QED
    BY <2>2, <2>3, ConstructedNeat
<1>2. CASE ~Complete(d)
  <2> DEFINE a == OwningMem(Now, o, m, d, TRUE)
  <2>1. a = [s |-> Now, threw |-> TRUE] /\ Constructed(o, a, n, w)
    BY <1>2, HeldIs, OwningThrows
  <2> HIDE DEF a
  <2>2. Become(Now) /\ UNCHANGED live
    BY <2>1 DEF Constructed
  <2> QED
    BY <2>2, SameNeat DEF Become, Now
<1> QED
  BY <1>1, <1>2

LEMMA OwningDataNeat ==
  ASSUME CInv, Careful, NEW o \in Objs, NEW d \in Domains, NEW n \in Nat, NEW w \in Nat,
         NEW ok \in BOOLEAN, OwningData(o, d, n, w, ok)
  PROVE  CInv'
<1>1. ok = TRUE /\ Room(Now) /\ o \notin live
  BY CarefulAllocates DEF OwningData
<1>2. Held(d) /\ d # NoDomain
  BY DEF Careful, Complete, Held, NoDomain
<1>3. n * w \in Nat /\ n * w <= n * w
  <2>1. n * w \in Nat
    BY ProductInNat
  <2> QED
    BY <2>1
<1>4. Constructed(o, OwningMem(Now, o, n * w, d, TRUE), n, w)
  BY <1>1 DEF OwningData
<1> QED
  BY <1>1, <1>2, <1>3, <1>4, BufferNeat

LEMMA OwningLikeNeat ==
  ASSUME CInv, Careful, NEW o \in Objs, NEW src \in Objs, NEW ok \in BOOLEAN,
         OwningLike(o, src, ok)
  PROVE  CInv'
<1>1. ok = TRUE /\ Room(Now) /\ o \notin live
  BY CarefulAllocates DEF OwningLike
<1>2. Held(obj[src].dom) /\ obj[src].dom # NoDomain
  BY CShapes DEF OwningLike, HasDomain
<1>3. /\ SizeInBytes(src) \in Nat /\ obj[src].num \in Nat /\ obj[src].width \in Nat
      /\ obj[src].num * obj[src].width <= SizeInBytes(src)
  BY CShapes DEF SizeInBytes
<1>4. Constructed(o, OwningMem(Now, o, SizeInBytes(src), obj[src].dom, TRUE),
                  obj[src].num, obj[src].width)
  BY <1>1 DEF OwningLike
<1> QED
  BY <1>1, <1>2, <1>3, <1>4, BufferNeat

\* A view of what another object has, when its domain allocates or not.
LEMMA NonowningDataNeat ==
  ASSUME CInv, NEW o \in Objs, NEW src \in Objs, NonowningData(o, src)
  PROVE  CInv'
<1> DEFINE id == obj[src].dom.id
           d == Nonowning(id)
           p == obj[src].ptr
           m == SizeInBytes(src)
           t == AdoptMem(Now, o, p, m, d)
<1>1. CASE Build(id) = NoDomain
  BY <1>1, SameNeat DEF NonowningData
<1>2. CASE Build(id) # NoDomain
  <2>1. /\ id \in Ids /\ p \in Blocks \cup {Null} /\ m \in Nat
    BY CShapes, HeldIs DEF Domain
  <2>2. o \notin live /\ Constructed(o, [s |-> t, threw |-> FALSE], obj[src].num, obj[src].width)
    BY <1>2 DEF NonowningData
  <2>3. p # Null => /\ heap[p].st # "unused"
                    /\ heap[p].st = "live" => m <= heap[p].cap
    BY CShapes
  <2>4. Fitting(Now, p, m, d) /\ d.free = "none"
    BY <2>1, <2>3, BuildHeld, NowFields DEF Fitting
  <2>5. ~Owns(Now, o)
    BY <2>2, NotLive
  <2>7. obj[src].num \in Nat /\ obj[src].width \in Nat /\ obj[src].num * obj[src].width <= m
    BY CShapes DEF SizeInBytes
  <2> HIDE DEF id, d, p, m
  <2>6. Neat(t, Objs, {}) /\ Framed(Now, t, o) /\ t.obj[o].cap = m
    BY <2>1, <2>4, <2>5, AdoptNeat
  <2> HIDE DEF t
  <2> QED
    BY <2>2, <2>6, <2>7, ConstructedNeat
<1> QED
  BY <1>1, <1>2

\* The caller's blocks are live.
LEMMA CallersLive ==
  ASSUME CInv, NEW b \in caller
  PROVE  b \in Blocks /\ heap[b].st = "live" /\ heap[b].cap \in Nat
BY NowFields DEF CInv, Neat, Good, Store, Block

LEMMA ViewCallerNeat ==
  ASSUME CInv, NEW o \in Objs, NEW b \in Blocks, NEW n \in Nums, NEW w \in Widths,
         ViewCaller(o, b, n, w)
  PROVE  CInv'
<1> DEFINE d == Nonowning("malloc")
           m == n * w
           t == AdoptMem(Now, o, b, m, d)
<1>1. /\ o \notin live /\ b \in caller /\ m <= heap[b].cap
      /\ Constructed(o, [s |-> t, threw |-> FALSE], n, w)
  BY DEF ViewCaller
<1>2. n \in Nat /\ w \in Nat /\ m \in Nat /\ n * w = m
  BY CShapes
<1>3. Held(d) /\ d.free = "none" /\ d # NoDomain
  BY BuildHeld, "malloc" \in Ids DEF Ids
<1> HIDE DEF d, m
<1>4. Fitting(Now, b, m, d) /\ ~Owns(Now, o)
  BY <1>1, <1>3, CallersLive, NotLive, NowFields DEF Fitting
<1>5. Neat(t, Objs, {}) /\ Framed(Now, t, o) /\ t.obj[o].cap = m
  BY <1>2, <1>3, <1>4, AdoptNeat
<1> HIDE DEF t
<1>6. n * w <= t.obj[o].cap
  BY <1>2, <1>5
<1> QED
  BY <1>1, <1>2, <1>5, <1>6, ConstructedNeat

LEMMA CopyCallerNeat ==
  ASSUME CInv, Careful, NEW o \in Objs, NEW b \in Blocks, NEW d \in Domains,
         NEW n \in Nums, NEW w \in Widths, NEW ok \in BOOLEAN, CopyCaller(o, b, d, n, w, ok)
  PROVE  CInv'
<1> DEFINE D == Build(d.id)
           m == n * w
           a == OwningMem(Now, o, m, D, TRUE)
           s == Memcpy(a.s, D, a.s.obj[o].ptr, b, m, "malloc")
           c == IF a.threw \/ m = 0 THEN a ELSE [s |-> s, threw |-> FALSE]
<1>1. ok = TRUE /\ Room(Now) /\ o \notin live /\ b \in caller /\ m <= heap[b].cap
      /\ D # NoDomain /\ d.id = "malloc"
  BY CarefulAllocates, CarefulMay DEF CopyCaller
<1>2. Constructed(o, c, n, w)
  BY <1>1 DEF CopyCaller
<1>3. n \in Nat /\ w \in Nat /\ m \in Nat /\ n * w = m
  BY CShapes
<1>4. Complete(D) /\ D.id = "malloc"
  BY <1>1, BuildHeld DEF Careful, Complete, Domain
<1> HIDE DEF D, m
<1>5. a = [s |-> a.s, threw |-> FALSE] /\ Filled(Now, a.s, o, m, D)
  BY <1>1, <1>3, <1>4, NotLive, OwningNeat
<1> HIDE DEF a
<1>6. /\ Neat(a.s, Objs, {}) /\ Framed(Now, a.s, o) /\ a.s.obj[o].cap = m
      /\ a.s.obj[o].ptr \in Blocks
      /\ a.s.heap[a.s.obj[o].ptr].st = "live" /\ a.s.heap[a.s.obj[o].ptr].cap = m
      /\ a.s.heap[b] = heap[b]
  BY <1>1, <1>5, CallersLive, NowFields DEF Filled
<1>7. InRange(a.s, a.s.obj[o].ptr, m) /\ InRange(a.s, b, m)
  BY <1>1, <1>3, <1>6, CallersLive, NullAssumption DEF InRange, IsLive
<1>8. Neat(s, Objs, {}) /\ s.obj = a.s.obj
  BY <1>4, <1>6, <1>7, MemcpyNeat
<1> HIDE DEF s
<1>9. CASE m = 0
  <2>1. Constructed(o, [s |-> a.s, threw |-> FALSE], n, w)
    BY <1>2, <1>5, <1>9
  <2> QED
    BY <1>1, <1>3, <1>6, <2>1, ConstructedNeat
<1>10. CASE m # 0
  <2>1. Constructed(o, [s |-> s, threw |-> FALSE], n, w)
    BY <1>2, <1>5, <1>10
  <2>2. Framed(Now, s, o) /\ s.obj[o].cap = m
    BY <1>6, <1>8 DEF Framed
  <2> QED
    BY <1>1, <1>3, <1>8, <2>1, <2>2, ConstructedNeat
<1> QED
  BY <1>9, <1>10

\* The caller gives up a block, which is nobody's for the moment.
LEMMA HandedOver ==
  ASSUME CInv, NEW b \in caller
  PROVE  LET s == [Now EXCEPT !.caller = caller \ {b}]
         IN  /\ Neat(s, Objs, {b})
             /\ s.heap = heap /\ s.obj = obj /\ s.caller = caller \ {b}
             /\ \A q \in Objs : Owns(s, q) => obj[q].ptr # b
<1> DEFINE s == [Now EXCEPT !.caller = caller \ {b}]
<1>1. Now \in Store /\ Good(Now, Objs) /\ caller \subseteq Blocks
  BY NowFields DEF CInv, Neat, Good, Store
<1>2. s.heap = heap /\ s.obj = obj /\ s.caller = caller \ {b} /\ s.faults = {}
  BY DEF Now
<1>3. s \in Store
  BY <1>1, <1>2 DEF Store, Now
<1>4. \A q \in Objs : Owns(Now, q) => obj[q].ptr \notin caller
  BY <1>1, NowFields DEF Good, Fits
<1> HIDE DEF s
<1>5. Good(s, Objs)
  BY <1>1, <1>2, <1>3, <1>4, KeepGood, NowFields DEF Good
<1>6. \A q \in Objs : Sized(s, q)
  BY <1>2, NowFields DEF CInv, Neat, Sized, Fitting
<1>7. Neat(s, Objs, {b})
  BY <1>2, <1>5, <1>6, NowFields DEF CInv, Neat, Owns
<1> QED
  BY <1>2, <1>4, <1>7, NowFields DEF Owns, s

LEMMA MoveCallerNeat ==
  ASSUME CInv, Careful, NEW o \in Objs, NEW b \in Blocks, NEW d \in Domains,
         NEW n \in Nums, NEW w \in Widths, MoveCaller(o, b, d, n, w)
  PROVE  CInv'
<1> DEFINE s == [Now EXCEPT !.caller = caller \ {b}]
           m == n * w
           t == AdoptMem(s, o, b, m, d)
<1>1. Complete(d) /\ Held(d) /\ d # NoDomain /\ d.free # "none" /\ d \in Domain
  BY DEF Careful, Complete, Held, NoDomain
<1>2. /\ o \notin live /\ b \in caller /\ d.free = heap[b].by /\ m = heap[b].cap
      /\ Constructed(o, [s |-> t, threw |-> FALSE], n, w)
  BY <1>1, NowFields DEF MoveCaller
<1>3. n \in Nat /\ w \in Nat /\ m \in Nat /\ n * w = m
  BY CShapes
<1>4. /\ Neat(s, Objs, {b})
      /\ s.heap = heap /\ s.obj = obj /\ s.caller = caller \ {b}
      /\ \A q \in Objs : Owns(s, q) => obj[q].ptr # b
  BY <1>2, HandedOver
<1> HIDE DEF s, m
<1>5. Neat(s, Objs \ {o}, {b})
  <2>1. ~Owns(Now, o)
    BY <1>2, NotLive
  <2> QED
    BY <1>4, <2>1, NowFields DEF Neat, Good, Owns
<1>6. heap[b].st = "live" /\ b # Null
  BY <1>2, CallersLive, NullAssumption
<1>7. Fitting(s, b, m, d)
  BY <1>1, <1>2, <1>3, <1>4, <1>6 DEF Fitting
<1>8. Free4(s, b, o, d)
  BY <1>2, <1>4, <1>6 DEF Free4
<1>9. Neat(t, Objs, {})
  BY <1>1, <1>3, <1>5, <1>7, <1>8, PointNeat DEF AdoptMem
<1>10. t.obj[o].cap = m /\ Framed(s, t, o)
  BY <1>1, <1>3, <1>4, SetMemFields DEF AdoptMem, Neat, Good
<1> HIDE DEF t
<1>11. Framed(Now, t, o)
  BY <1>4, <1>10, NowFields DEF Framed
<1> QED
  BY <1>2, <1>3, <1>9, <1>10, <1>11, ConstructedNeat

\* What a careful program copies from can be copied, all of it.
LEMMA SourceUsable ==
  ASSUME CInv, Careful, NEW r \in Objs, CopySource(r)
  PROVE  Usable(Now, r) /\ SizeInBytes(r) <= obj[r].cap /\ obj[r].dom # NoDomain
<1>1. HasDomain(r) /\ NotDangling(r) /\ Coherent(r)
  BY CarefulMay DEF CopySource
<1>2. ~(SizeInBytes(r) > obj[r].cap)
  BY CarefulMay DEF CopySource
<1>3. SizeInBytes(r) <= obj[r].cap
  BY <1>2, CShapes
<1> QED
  BY <1>1, <1>3, NowFields DEF HasDomain, NotDangling, Coherent, Usable

LEMMA CloneNeat ==
  ASSUME CInv, Careful, NEW o \in Objs, NEW src \in Objs, o \notin live, src \in live,
         CopySource(src), NEW d, Complete(d), d.id = obj[src].dom.id,
         NEW ok \in BOOLEAN, MayAllocate(ok),
         Constructed(o, CopyMem(Now, o, src, d, ok), obj[src].num, obj[src].width)
  PROVE  CInv'
<1> DEFINE c == CopyMem(Now, o, src, d, TRUE)
<1>1. ok = TRUE /\ Room(Now) /\ o # src
  BY CarefulAllocates
<1>2. Usable(Now, src) /\ SizeInBytes(src) <= obj[src].cap
  BY SourceUsable
<1>3. c.threw = FALSE /\ Taken(Now, c.s, o, src)
  <2>1. Neat(Now, Objs, {}) /\ Neat(Now, Objs \ {o}, {}) /\ d.id = Now.obj[src].dom.id
    BY NotLive, NowFields DEF CInv
  <2> QED
    BY <1>1, <1>2, <2>1, CopyMemNeat
<1>4. Constructed(o, c, obj[src].num, obj[src].width)
  BY <1>1
<1> HIDE DEF c
<1>5. Constructed(o, [s |-> c.s, threw |-> FALSE], obj[src].num, obj[src].width)
  BY <1>3, <1>4 DEF Constructed
<1>6. /\ Neat(c.s, Objs, {}) /\ Framed(Now, c.s, o)
      /\ c.s.obj[o].ptr # Null => obj[src].cap <= c.s.obj[o].cap
  BY <1>3, NowFields DEF Taken
<1>7. /\ obj[src].num \in Nat /\ obj[src].width \in Nat /\ SizeInBytes(src) \in Nat
      /\ SizeInBytes(src) = obj[src].num * obj[src].width
      /\ obj[src].cap \in Nat /\ c.s.obj[o].cap \in Nat
  BY <1>6, CShapes DEF Neat, Good, Store, Object, SizeInBytes
<1>8. c.s.obj[o].ptr # Null => obj[src].num * obj[src].width <= c.s.obj[o].cap
  BY <1>2, <1>6, <1>7
<1> QED
  BY <1>5, <1>6, <1>7, <1>8, ConstructedNeat

\* The domain of a clone is the source's, or the one of its id, and allocates.
LEMMA CloneDomainComplete ==
  ASSUME NEW d, Held(d), d # NoDomain
  PROVE  /\ LET e == IF d.prefix = d.id THEN d ELSE Build(d.id)
            IN  e # NoDomain => Complete(e) /\ e.id = d.id
         /\ CloneDomain(d) # NoDomain => Complete(CloneDomain(d)) /\ CloneDomain(d).id = d.id
<1>1. d.id \in Ids /\ d \in Domain
  BY HeldIs DEF Domain
<1>2. Build(d.id) # NoDomain => Complete(Build(d.id)) /\ Build(d.id).id = d.id
  BY <1>1, BuildHeld
<1>3. ~Complete(d) => d.prefix = "nonowning"
  BY HeldIs
<1>4. "nonowning" \notin Ids
  BY DEF Ids
<1> QED
  BY <1>1, <1>2, <1>3, <1>4 DEF CloneDomain

LEMMA CloneDataNeat ==
  ASSUME CInv, Careful, NEW o \in Objs, NEW src \in Objs, NEW ok \in BOOLEAN,
         CloneData(o, src, ok)
  PROVE  CInv'
<1> DEFINE d == obj[src].dom
           e == IF d.prefix = d.id THEN d ELSE Build(d.id)
<1>1. /\ o \notin live /\ src \in live /\ CopySource(src) /\ e # NoDomain /\ MayAllocate(ok)
      /\ Constructed(o, CopyMem(Now, o, src, e, ok), obj[src].num, obj[src].width)
  BY DEF CloneData
<1>2. Held(d) /\ d # NoDomain
  BY <1>1, CShapes, SourceUsable
<1>3. Complete(e) /\ e.id = d.id
  BY <1>1, <1>2, CloneDomainComplete
<1> HIDE DEF e
<1> QED
  BY <1>1, <1>3, CloneNeat

LEMMA CopyConstructNeat ==
  ASSUME CInv, Careful, NEW o \in Objs, NEW src \in Objs, NEW ok \in BOOLEAN,
         CopyConstruct(o, src, ok)
  PROVE  CInv'
<1> DEFINE d == obj[src].dom
           e == CloneDomain(d)
<1>1. /\ o \notin live /\ src \in live /\ CopySource(src) /\ e # NoDomain /\ MayAllocate(ok)
      /\ Constructed(o, CopyMem(Now, o, src, e, ok), obj[src].num, obj[src].width)
  BY DEF CopyConstruct
<1>2. Held(d) /\ d # NoDomain
  BY <1>1, CShapes, SourceUsable
<1>3. Complete(e) /\ e.id = d.id
  BY <1>1, <1>2, CloneDomainComplete
<1> HIDE DEF e
<1> QED
  BY <1>1, <1>3, CloneNeat

\* The shape of an object, changed at the start of a step.
LEMMA ReshapedNow ==
  ASSUME CInv, NEW o \in Objs, NEW n \in Nat, NEW w \in Nat
  PROVE  LET t == SetShape(Now, o, n, w)
         IN  /\ Neat(t, Objs, {}) /\ t.heap = heap /\ t.caller = caller /\ Framed(Now, t, o)
             /\ t.obj[o].ptr = obj[o].ptr /\ t.obj[o].cap = obj[o].cap /\ t.obj[o].dom = obj[o].dom
             /\ t.obj[o].num = n /\ t.obj[o].width = w
<1> DEFINE s == Now
<1>1. Neat(s, Objs, {}) /\ s.heap = heap /\ s.caller = caller /\ s.obj = obj
  BY NowFields DEF CInv
<1> HIDE DEF s
<1>2. LET t == SetShape(s, o, n, w)
      IN  /\ Neat(t, Objs, {}) /\ t.heap = heap /\ t.caller = caller /\ Framed(s, t, o)
          /\ t.obj[o].ptr = obj[o].ptr /\ t.obj[o].cap = obj[o].cap /\ t.obj[o].dom = obj[o].dom
          /\ t.obj[o].num = n /\ t.obj[o].width = w
  BY <1>1, ReshapedNeat
<1> QED
  BY <1>2 DEF s

LEMMA MoveConstructNeat ==
  ASSUME CInv, NEW o \in Objs, NEW src \in Objs, MoveConstruct(o, src)
  PROVE  CInv'
<1> DEFINE R == Now.obj[src]
           s == MoveAssignMem(Now, o, src)
           u == SetShape(s, src, 0, obj[src].width)
<1>1. /\ o \notin live /\ src \in live /\ o # src
      /\ Constructed(o, [s |-> u, threw |-> FALSE], obj[src].num, obj[src].width)
  BY NowFields DEF MoveConstruct, MoveAssignMem
<1>0. obj[src].num \in Nat /\ obj[src].width \in Nat
  BY CShapes
<1>2. obj[src].ptr # Null => obj[src].num * obj[src].width <= obj[src].cap
  BY CShapes DEF SizeInBytes
<1>3. /\ Neat(s, Objs, {})
      /\ \A p \in Objs \ {o, src} : s.obj[p] = Now.obj[p]
      /\ s.obj[o].ptr = R.ptr /\ s.obj[o].cap = R.cap
      /\ s.obj[src].ptr = Null
  <2>1. Neat(Now, Objs, {}) /\ ~Owns(Now, o) /\ o # src
    BY <1>1, NotLive DEF CInv
  <2> QED
    BY <2>1, TakeNeat
<1> HIDE DEF s
<1>4. Neat(u, Objs, {}) /\ Framed(s, u, src) /\ u.obj[src].ptr = Null
  <2> DEFINE n == 0
             w == obj[src].width
  <2>1. n \in Nat /\ w \in Nat /\ Neat(s, Objs, {})
    BY <1>0, <1>3
  <2> HIDE DEF n, w
  <2>2. LET v == SetShape(s, src, n, w)
        IN  Neat(v, Objs, {}) /\ Framed(s, v, src) /\ v.obj[src].ptr = s.obj[src].ptr
    BY <2>1, ReshapedNeat
  <2> QED
    BY <1>3, <2>2 DEF n, w, u
<1> HIDE DEF u
<1> DEFINE t == SetShape(u, o, obj[src].num, obj[src].width)
<1>5. /\ Neat(t, Objs, {}) /\ Framed(u, t, o)
      /\ t.obj[o].ptr = u.obj[o].ptr /\ t.obj[o].cap = u.obj[o].cap
      /\ t.obj[o].num = obj[src].num /\ t.obj[o].width = obj[src].width
  <2> DEFINE n == obj[src].num
             w == obj[src].width
  <2>1. n \in Nat /\ w \in Nat /\ Neat(u, Objs, {})
    BY <1>0, <1>4
  <2> HIDE DEF n, w
  <2>2. LET v == SetShape(u, o, n, w)
        IN  /\ Neat(v, Objs, {}) /\ Framed(u, v, o)
            /\ v.obj[o].ptr = u.obj[o].ptr /\ v.obj[o].cap = u.obj[o].cap
            /\ v.obj[o].num = n /\ v.obj[o].width = w
    BY <2>1, ReshapedNeat
  <2> QED
    BY <2>2 DEF n, w
<1>6. Become(t) /\ live' = live \cup {o}
  BY <1>1 DEF Constructed
<1> HIDE DEF t
<1>7. \A p \in Objs \ {o, src} : t.obj[p] = Now.obj[p]
  BY <1>3, <1>4, <1>5 DEF Framed
<1>8. Shaped(t, o) /\ Shaped(t, src)
  BY <1>1, <1>2, <1>3, <1>4, <1>5, NowFields DEF Framed, Shaped
<1>9. \A p \in Objs : Shaped(t, p)
  BY <1>7, <1>8 DEF CInv, Shaped
<1>10. live' \subseteq Objs /\ \A p \in Objs \ live' : t.obj[p] = NoObject
  BY <1>1, <1>6, <1>7, NowFields DEF CInv, TypeOK
<1> QED
  BY <1>5, <1>6, <1>9, <1>10, StepNeat

\* The two sides of an assignment once the shape has been assigned.
LEMMA AssignSides ==
  ASSUME CInv, Careful, NEW l \in Objs, NEW r \in Objs, NEW ok \in BOOLEAN, CopyAssign(l, r, ok)
  PROVE  LET s == SetShape(Now, l, obj[r].num, obj[r].width)
         IN  /\ Become(AssignMem(s, l, r, TRUE).s)
             /\ Neat(s, Objs, {}) /\ s.heap = heap /\ Framed(Now, s, l)
             /\ s.obj[l].ptr = obj[l].ptr /\ s.obj[l].cap = obj[l].cap /\ s.obj[l].dom = obj[l].dom
             /\ s.obj[l].num = obj[r].num /\ s.obj[l].width = obj[r].width
             /\ l # r => s.obj[r] = obj[r] /\ Usable(s, l) /\ Usable(s, r) /\ Room(s)
<1> DEFINE n == obj[r].num
           w == obj[r].width
           s == SetShape(Now, l, n, w)
<1>1. /\ ok = TRUE /\ Room(Now) /\ CopySource(r) /\ NotDangling(l) /\ Coherent(l)
  BY CarefulAllocates, CarefulMay DEF CopyAssign
<1>2. Become(AssignMem(s, l, r, TRUE).s)
  <2>1. Become(AssignMem(s, l, r, ok).s)
    BY Zenon DEF CopyAssign
  <2> HIDE DEF s
  <2> QED
    BY <1>1, <2>1
<1>3. /\ Neat(s, Objs, {}) /\ s.heap = heap /\ Framed(Now, s, l)
      /\ s.obj[l].ptr = obj[l].ptr /\ s.obj[l].cap = obj[l].cap /\ s.obj[l].dom = obj[l].dom
      /\ s.obj[l].num = n /\ s.obj[l].width = w
  <2>1. n \in Nat /\ w \in Nat
    BY CShapes
  <2> HIDE DEF n, w
  <2> QED
    BY <2>1, ReshapedNow
<1> HIDE DEF s
<1>4. ASSUME l # r PROVE s.obj[r] = obj[r] /\ Usable(s, l) /\ Usable(s, r) /\ Room(s)
  <2>1. s.obj[r] = obj[r]
    BY <1>3, <1>4, NowFields DEF Framed
  <2>2. Usable(s, l)
    BY <1>1, <1>3 DEF NotDangling, Coherent, Usable
  <2>3. Usable(s, r)
    BY <1>1, <1>3, <2>1, SourceUsable, NowFields DEF Usable
  <2>4. Room(s)
    BY <1>1, <1>3, NowFields DEF Room
  <2> QED
    BY <2>1, <2>2, <2>3, <2>4
<1> QED
  BY <1>2, <1>3, <1>4 DEF s

LEMMA CopyAssignNeat ==
  ASSUME CInv, Careful, NEW l \in Objs, NEW r \in Objs, NEW ok \in BOOLEAN,
         CopyAssign(l, r, ok)
  PROVE  CInv'
<1> DEFINE s == SetShape(Now, l, obj[r].num, obj[r].width)
           t == AssignMem(s, l, r, TRUE).s
<1>1. /\ l \in live /\ UNCHANGED live /\ CopySource(r)
      /\ HasDomain(l) => obj[l].dom.id = obj[r].dom.id
      /\ obj[l].dom.prefix = "nonowning" => ~(obj[l].cap < obj[r].cap)
  BY CarefulMay DEF CopyAssign
<1>2. /\ Become(t) /\ Neat(s, Objs, {}) /\ Framed(Now, s, l)
      /\ s.obj[l].ptr = obj[l].ptr /\ s.obj[l].cap = obj[l].cap /\ s.obj[l].dom = obj[l].dom
      /\ s.obj[l].num = obj[r].num /\ s.obj[l].width = obj[r].width
      /\ l # r => s.obj[r] = obj[r] /\ Usable(s, l) /\ Usable(s, r) /\ Room(s)
  BY AssignSides
<1>3. /\ obj[r].num \in Nat /\ obj[r].width \in Nat /\ SizeInBytes(r) \in Nat
      /\ SizeInBytes(r) = obj[r].num * obj[r].width /\ obj[r].cap \in Nat
  BY CShapes DEF SizeInBytes
<1>4. Usable(Now, r) /\ SizeInBytes(r) <= obj[r].cap
  BY <1>1, SourceUsable
<1> HIDE DEF s
<1>5. CASE l = r
  <2>1. t = s
    BY <1>5 DEF AssignMem
  <2>2. Shaped(s, l)
    BY <1>2, <1>3, <1>4, <1>5 DEF Shaped
  <2> HIDE DEF t
  <2> QED
    BY <1>1, <1>2, <2>1, <2>2, ChangedNeat
<1>6. CASE l # r
  <2>1. Taken(s, t, l, r)
    <3>1. s.obj[l].dom # NoDomain => s.obj[l].dom.id = s.obj[r].dom.id
      BY <1>1, <1>2, <1>6 DEF HasDomain
    <3>2. s.obj[l].dom.prefix = "nonowning" => ~(s.obj[l].cap < s.obj[r].cap)
      BY <1>1, <1>2, <1>6
    <3> QED
      BY <1>2, <1>6, <3>1, <3>2, AssignNeat
  <2> HIDE DEF t
  <2>2. /\ Neat(t, Objs, {}) /\ Framed(s, t, l)
        /\ t.obj[l].num = obj[r].num /\ t.obj[l].width = obj[r].width
        /\ t.obj[l].ptr # Null => obj[r].cap <= t.obj[l].cap
        /\ t.obj[l].cap \in Nat
    BY <1>2, <1>6, <2>1 DEF Taken, Neat, Good, Store, Object
  <2>3. Shaped(t, l)
    <3>1. t.obj[l].ptr # Null => SizeInBytes(r) <= t.obj[l].cap
      BY <1>3, <1>4, <2>2
    <3> QED
      BY <1>3, <2>2, <3>1 DEF Shaped
  <2>4. Framed(Now, t, l)
    BY <1>2, <2>2 DEF Framed
  <2> QED
    BY <1>1, <1>2, <2>2, <2>3, <2>4, ChangedNeat
<1> QED
  BY <1>5, <1>6

LEMMA MoveAssignNeat ==
  ASSUME CInv, Careful, NEW l \in Objs, NEW r \in Objs, MoveAssign(l, r)
  PROVE  CInv'
<1> DEFINE s == SetShape(Now, l, obj[r].num, obj[r].width)
           u == MoveAssignMem(s, l, r)
           t == SetShape(u, r, 0, obj[r].width)
<1>1. l \in live /\ r \in live /\ l # r /\ live' = live /\ Become(t) /\ ~Owns(Now, l)
  BY CarefulMay DEF MoveAssign
<1>2. /\ Neat(s, Objs, {}) /\ s.heap = heap /\ Framed(Now, s, l)
      /\ s.obj[l].ptr = obj[l].ptr /\ s.obj[l].dom = obj[l].dom
      /\ s.obj[l].num = obj[r].num /\ s.obj[l].width = obj[r].width
  <2> DEFINE n == obj[r].num
             w == obj[r].width
  <2>1. n \in Nat /\ w \in Nat /\ CInv
    BY CShapes
  <2> HIDE DEF n, w
  <2>2. LET v == SetShape(Now, l, n, w)
        IN  /\ Neat(v, Objs, {}) /\ v.heap = heap /\ Framed(Now, v, l)
            /\ v.obj[l].ptr = obj[l].ptr /\ v.obj[l].dom = obj[l].dom
            /\ v.obj[l].num = n /\ v.obj[l].width = w
    BY <2>1, ReshapedNow
  <2> QED
    BY <2>2 DEF n, w
<1>3. s.obj[r] = obj[r] /\ ~Owns(s, l)
  BY <1>1, <1>2, NowFields DEF Framed, Owns
<1> HIDE DEF s
<1>4. /\ Neat(u, Objs, {})
      /\ \A p \in Objs \ {l, r} : u.obj[p] = s.obj[p]
      /\ u.obj[l].ptr = obj[r].ptr /\ u.obj[l].cap = obj[r].cap
      /\ u.obj[l].num = obj[r].num /\ u.obj[l].width = obj[r].width
      /\ u.obj[r].ptr = Null
  <2>1. Neat(s, Objs, {}) /\ ~Owns(s, l) /\ l # r
    BY <1>1, <1>2, <1>3
  <2>2. /\ Neat(u, Objs, {})
        /\ \A p \in Objs \ {l, r} : u.obj[p] = s.obj[p]
        /\ u.obj[l].ptr = s.obj[r].ptr /\ u.obj[l].cap = s.obj[r].cap
        /\ u.obj[l].num = s.obj[l].num /\ u.obj[l].width = s.obj[l].width
        /\ u.obj[r].ptr = Null
    BY <2>1, TakeNeat
  <2> HIDE DEF u
  <2> QED
    BY <1>2, <1>3, <2>2
<1> HIDE DEF u
<1>5. Neat(t, Objs, {}) /\ Framed(u, t, r) /\ t.obj[r].ptr = Null
  <2> DEFINE n == 0
             w == obj[r].width
  <2>1. n \in Nat /\ w \in Nat /\ Neat(u, Objs, {})
    BY <1>4, CShapes
  <2> HIDE DEF n, w
  <2>2. LET v == SetShape(u, r, n, w)
        IN  Neat(v, Objs, {}) /\ Framed(u, v, r) /\ v.obj[r].ptr = u.obj[r].ptr
    BY <2>1, ReshapedNeat
  <2> QED
    BY <1>4, <2>2 DEF n, w
<1> HIDE DEF t
<1>6. \A p \in Objs \ {l, r} : t.obj[p] = Now.obj[p]
  BY <1>2, <1>4, <1>5 DEF Framed
<1>7. obj[r].ptr # Null => obj[r].num * obj[r].width <= obj[r].cap
  BY CShapes DEF SizeInBytes
<1>8. Shaped(t, l) /\ Shaped(t, r)
  BY <1>1, <1>4, <1>5, <1>7 DEF Framed, Shaped
<1>9. \A p \in Objs : Shaped(t, p)
  BY <1>6, <1>8 DEF CInv, Shaped
<1>10. live' \subseteq Objs /\ \A p \in Objs \ live' : t.obj[p] = NoObject
  BY <1>1, <1>6, NowFields DEF CInv, TypeOK
<1> QED
  BY <1>1, <1>5, <1>9, <1>10, StepNeat

\* What a destroyed object leaves.
LEMMA NoObjectFits ==
  ASSUME NEW s, NEW o
  PROVE  /\ NoObject \in Object
         /\ Fitting(s, NoObject.ptr, NoObject.cap, NoObject.dom)
         /\ Free4(s, NoObject.ptr, o, NoObject.dom)
         /\ s.obj[o] = NoObject => Shaped(s, o)
<1>1. NoDomain \in Domain
  BY BuildSound DEF Sound
<1>2. NoObject \in Object /\ NoObject.ptr = Null /\ NoObject.dom = NoDomain
  BY <1>1 DEF NoObject, Object
<1> QED
  BY <1>2 DEF Fitting, Held, Free4, Shaped

LEMMA DestroyNeat ==
  ASSUME CInv, NEW o \in Objs, Destroy(o)
  PROVE  CInv'
<1> DEFINE f == FreeMem(Now, o)
           t == Put(f, o, NoObject)
<1>1. o \in live /\ live' = live \ {o} /\ Become(t)
  BY DEF Destroy, Put
<1>2. Neat(f, Objs \ {o}, {}) /\ f.obj = Now.obj
  BY FreeNeat DEF CInv
<1> HIDE DEF f
<1>3. Neat(t, Objs, {}) /\ Framed(f, t, o) /\ t.obj[o] = NoObject
  <2> DEFINE O == NoObject
  <2>1. O \in Object /\ Fitting(f, O.ptr, O.cap, O.dom) /\ Free4(f, O.ptr, o, O.dom)
    BY NoObjectFits
  <2> HIDE DEF O
  <2>2. LET v == Put(f, o, O) IN Neat(v, Objs, {}) /\ Framed(f, v, o) /\ v.obj[o] = O
    BY <1>2, <2>1, PutNeat
  <2> QED
    BY <2>2 DEF O
<1> HIDE DEF t
<1>4. Shaped(t, o) /\ \A p \in Objs \ {o} : Shaped(t, p)
  BY <1>2, <1>3, NoObjectFits DEF CInv, Shaped, Framed
<1>5. live' \subseteq Objs /\ \A p \in Objs \ live' : t.obj[p] = NoObject
  BY <1>1, <1>2, <1>3, NowFields DEF CInv, TypeOK, Framed
<1> QED
  BY <1>1, <1>3, <1>4, <1>5, StepNeat

LEMMA ReleaseNeat ==
  ASSUME CInv, Careful, NEW o \in Objs, Release(o)
  PROVE  CInv'
<1> DEFINE O == [obj[o] EXCEPT !.ptr = Null]
           s == Put(Now, o, O)
           t == [s EXCEPT !.caller = caller]
<1>1. ~Owns(Now, o) /\ o \in live /\ UNCHANGED live
  BY CarefulMay DEF Release
<1>2. Become(t)
  BY <1>1, NowFields DEF Release, ReleaseMem, Put
<1>3. O \in Object /\ O.ptr = Null /\ Held(O.dom)
  <2>1. obj[o] \in Object
    BY NowFields DEF CInv, Neat, Good, Store
  <2> QED
    BY <2>1, CShapes DEF Object
<1> HIDE DEF O
<1>4. Fitting(Now, O.ptr, O.cap, O.dom) /\ Free4(Now, O.ptr, o, O.dom)
  BY <1>3 DEF Fitting, Free4
<1>5. Neat(Now, Objs \ {o}, {})
  BY <1>1, WithoutNeat DEF CInv
<1>6. /\ Neat(s, Objs, {}) /\ Framed(Now, s, o) /\ s.obj[o] = O
      /\ s.heap = heap /\ s.caller = caller
  BY <1>3, <1>4, <1>5, PutNeat, NowFields
<1> HIDE DEF s
<1>7. t.heap = s.heap /\ t.obj = s.obj /\ t.caller = s.caller /\ t.faults = s.faults
  BY <1>6 DEF Neat, Good, Store
<1> HIDE DEF t
<1>8. Become(s)
  BY <1>2, <1>7 DEF Become
<1>9. Shaped(s, o)
  BY <1>3, <1>6 DEF Shaped
<1> QED
  BY <1>1, <1>6, <1>8, <1>9, ChangedNeat

LEMMA ResetNeat ==
  ASSUME CInv, Careful, NEW o \in Objs, NEW p \in Blocks \cup {Null}, Reset(o, p)
  PROVE  CInv'
<1> DEFINE d == obj[o].dom
           C == IF d.free = "none" THEN caller ELSE caller \ {p}
           s == [Now EXCEPT !.caller = C]
           f == FreeMem(s, o)
           O == [obj[o] EXCEPT !.ptr = p]
           t == Put(f, o, O)
<1>1. /\ o \in live /\ UNCHANGED live /\ d # NoDomain
      /\ p # Null /\ p \in caller /\ d.free \in {"none", heap[p].by}
      /\ heap[p].cap = obj[o].cap /\ SizeInBytes(o) <= obj[o].cap
  BY CarefulMay DEF Reset, HasDomain
<1>2. Become(ResetMem(s, o, p))
  BY NowFields DEF Reset
<1>3. Now \in Store /\ Neat(Now, Objs, {}) /\ Held(d) /\ obj[o].cap \in Nat
  BY CShapes DEF CInv, Neat, Good
<1>4. p \in Blocks /\ heap[p].st = "live"
  BY <1>1, CallersLive
<1>5. O \in Object /\ O.ptr = p /\ O.dom = d /\ O.cap = obj[o].cap
      /\ O.num = obj[o].num /\ O.width = obj[o].width
  BY <1>3, NowFields DEF Store, Object
<1> HIDE DEF O
<1>6. /\ \E B : Neat(f, Objs \ {o}, B) /\ (B = {} \/ (B = {p} /\ d.free # "none"))
      /\ f.heap[p] = heap[p] /\ f.obj = obj
      /\ Free4(f, p, o, d)
  <2>1. CASE d.free = "none"
    <3>1. s = Now
      BY <1>3, <2>1 DEF Now
    <3> HIDE DEF s
    <3>2. f = Now
      BY <2>1, <3>1, NowFields DEF FreeMem, Free
    <3>3. Neat(Now, Objs \ {o}, {})
      BY <1>3, <2>1, WithoutNeat, NowFields DEF Owns
    <3> QED
      BY <2>1, <3>2, <3>3, NowFields DEF Free4
  <2>2. CASE d.free # "none"
    <3>1. C = caller \ {p}
      BY <2>2
    <3>2. /\ Neat(s, Objs, {p})
          /\ s.heap = heap /\ s.obj = obj /\ s.caller = caller \ {p}
          /\ \A q \in Objs : Owns(s, q) => obj[q].ptr # p
      BY <1>1, <3>1, HandedOver
    <3> HIDE DEF s
    <3>3. /\ Neat(f, Objs \ {o}, {p}) /\ f.obj = s.obj /\ f.caller = s.caller
          /\ \A b \in Blocks : f.heap[b] = s.heap[b] \/ (Owns(s, o) /\ b = s.obj[o].ptr)
      <4> DEFINE B == {p}
      <4>1. Neat(s, Objs, B)
        BY <3>2
      <4> HIDE DEF B
      <4>2. /\ Neat(f, Objs \ {o}, B) /\ f.obj = s.obj /\ f.caller = s.caller
            /\ \A b \in Blocks : f.heap[b] = s.heap[b] \/ (Owns(s, o) /\ b = s.obj[o].ptr)
        BY <4>1, FreeNeat
      <4> QED
        BY <4>2 DEF B
    <3> HIDE DEF f
    <3>4. f.heap[p] = heap[p]
      BY <1>4, <3>2, <3>3
    <3>5. Free4(f, p, o, d)
      BY <1>1, <1>4, <2>2, <3>2, <3>3, <3>4 DEF Free4, Owns
    <3> QED
      BY <2>2, <3>2, <3>3, <3>4, <3>5
  <2> QED
    BY <2>1, <2>2
<1>7. ResetMem(s, o, p) = t
  BY <1>6 DEF ResetMem, Put, O
<1> HIDE DEF f, s, C
<1>8. Fitting(f, p, O.cap, d)
  BY <1>1, <1>3, <1>4, <1>5, <1>6 DEF Fitting
<1>9. Neat(t, Objs, {}) /\ Framed(f, t, o) /\ t.obj[o] = O
  <2>1. PICK B : Neat(f, Objs \ {o}, B) /\ (B = {} \/ (B = {p} /\ d.free # "none"))
    BY <1>6
  <2> HIDE DEF d
  <2> QED
    BY <1>5, <1>6, <1>8, <2>1, PutNeat
<1> HIDE DEF t
<1>10. Framed(Now, t, o) /\ Shaped(t, o)
  BY <1>1, <1>5, <1>6, <1>9, NowFields DEF Framed, Shaped, SizeInBytes
<1> QED
  BY <1>1, <1>2, <1>7, <1>9, <1>10, ChangedNeat

LEMMA ReshapeStepNeat ==
  ASSUME CInv, Careful, NEW o \in Objs, NEW n \in Nums, NEW w \in Widths, Reshape(o, n, w)
  PROVE  CInv'
<1> DEFINE t == SetShape(Now, o, n, w)
           m == n * w
<1>1. o \in live /\ UNCHANGED live /\ Become(t) /\ ~(m > obj[o].cap)
  BY CarefulMay DEF Reshape
<1>2. n \in Nat /\ w \in Nat /\ m \in Nat /\ obj[o].cap \in Nat
  BY CShapes
<1>3. /\ Neat(t, Objs, {}) /\ Framed(Now, t, o)
      /\ t.obj[o].cap = obj[o].cap /\ t.obj[o].num = n /\ t.obj[o].width = w
  <2> HIDE DEF m
  <2> QED
    BY <1>2, ReshapedNow
<1>4. m <= obj[o].cap
  <2> HIDE DEF m
  <2> QED
    BY <1>1, <1>2
<1> HIDE DEF t
<1>5. Shaped(t, o)
  BY <1>3, <1>4 DEF Shaped
<1> QED
  BY <1>1, <1>3, <1>5, ChangedNeat

LEMMA SetDimensionsNeat ==
  ASSUME CInv, Careful, NEW o \in Objs, NEW n \in Nums, NEW ok \in BOOLEAN,
         SetDimensions(o, n, ok)
  PROVE  CInv'
<1> DEFINE w == obj[o].width
           d == obj[o].dom
           size == n * w
           a == Alloc(Now, d, size, TRUE)
           u == SetMem(a.s, o, a.ptr, size, d)
           t == SetShape(u, o, n, w)
<1>1. n \in Nat /\ w \in Nat /\ size \in Nat /\ n * w = size /\ Held(d) /\ obj[o].cap \in Nat
  BY CShapes, ShapeAssumption, ProductInNat
<1>2. o \in live /\ UNCHANGED live
  BY DEF SetDimensions
<1>3. CASE ~(obj[o].cap < size)
  <2> DEFINE k == SetShape(Now, o, n, w)
  <2>1. Become(k)
    BY <1>3 DEF SetDimensions
  <2> HIDE DEF size, w
  <2>2. /\ Neat(k, Objs, {}) /\ Framed(Now, k, o)
        /\ k.obj[o].cap = obj[o].cap /\ k.obj[o].num = n /\ k.obj[o].width = w
    BY <1>1, ReshapedNow
  <2>3. size <= obj[o].cap
    BY <1>1, <1>3
  <2> HIDE DEF k
  <2>4. Shaped(k, o)
    BY <1>1, <2>2, <2>3 DEF Shaped
  <2> QED
    BY <1>2, <2>1, <2>2, <2>4, ChangedNeat
<1>4. CASE obj[o].cap < size
  <2>1. MayAllocate(ok) /\ d # NoDomain /\ ~Owns(Now, o)
    BY <1>4, CarefulMay DEF SetDimensions, HasDomain
  <2>2. ok = TRUE /\ Room(Now)
    BY <2>1, CarefulAllocates
  <2>3. IF a.threw THEN Become(a.s) ELSE Become(t)
    BY <1>4, <2>2 DEF SetDimensions
  <2>4. Neat(Now, Objs \ {o}, {})
    BY <2>1, WithoutNeat DEF CInv
  <2>5. CASE ~Complete(d)
    <3>1. d.alloc = "none" /\ d.fail = "throw"
      BY <1>1, <2>1, <2>5, HeldIs
    <3>2. a.threw = TRUE /\ a.s = Now
      BY <3>1 DEF Alloc
    <3> HIDE DEF a
    <3>3. Become(Now)
      BY <2>3, <3>2
    <3> QED
      BY <1>2, <3>3, SameNeat DEF Become, Now
  <2>6. CASE Complete(d)
    <3> HIDE DEF size, d, w
    <3>1. a.threw = FALSE /\ Filled(Now, u, o, size, d)
      BY <1>1, <2>2, <2>4, <2>6, AllocNeat
    <3> HIDE DEF a, u
    <3>2. Neat(u, Objs, {}) /\ Framed(Now, u, o) /\ u.obj[o].cap = size
      BY <3>1 DEF Filled
    <3>3. /\ Neat(t, Objs, {}) /\ Framed(u, t, o)
          /\ t.obj[o].cap = u.obj[o].cap /\ t.obj[o].num = n /\ t.obj[o].width = w
      <4>1. n \in Nat /\ w \in Nat /\ Neat(u, Objs, {})
        BY <1>1, <3>2
      <4> QED
        BY <4>1, ReshapedNeat
    <3> HIDE DEF t
    <3>4. Framed(Now, t, o)
      BY <3>2, <3>3 DEF Framed
    <3>5. Shaped(t, o)
      BY <1>1, <3>2, <3>3 DEF Shaped
    <3> QED
      BY <1>2, <2>3, <3>1, <3>3, <3>4, <3>5, ChangedNeat
  <2> QED
    BY <2>5, <2>6
<1> QED
  BY <1>3, <1>4

LEMMA WriteNeat ==
  ASSUME CInv, NEW o \in Objs, NEW x \in Tags, Write(o, x)
  PROVE  CInv'
<1> DEFINE p == obj[o].ptr
           s == Now
           t == [s EXCEPT !.heap[p].tag = x]
<1>1. o \in live /\ UNCHANGED live /\ Become(t) /\ p # Null
  BY DEF Write, InRange, IsLive
<1>2. p \in Blocks /\ x \in Tags \cup {"junk"} /\ Neat(s, Objs, {})
  BY <1>1, CShapes DEF CInv
<1> HIDE DEF p, s
<1>3. Neat(t, Objs, {}) /\ t.obj = s.obj
  BY <1>2, TagNeat
<1> HIDE DEF t
<1>4. Framed(Now, t, o) /\ Shaped(t, o)
  BY <1>3 DEF Framed, Shaped, CInv, s
<1> QED
  BY <1>1, <1>3, <1>4, ChangedNeat

\* What the caller does with a block no object owns is nothing to the objects.
LEMMA CallersNeat ==
  ASSUME CInv, IInv', obj' = obj, faults' = {}, NEW f \in Blocks,
         \A b \in Blocks : b # f => heap'[b] = heap[b],
         \A q \in Objs : obj[q].ptr = f =>
           obj[q].dom.free = "none" /\ heap'[f].st \notin {"live", "unused"},
         \A b \in Blocks : b \in caller /\ b # f => b \in caller',
         heap'[f].st = "live" => f \in caller'
  PROVE  CInv'
<1>1. /\ Now'.heap = heap' /\ Now'.obj = obj /\ Now'.caller = caller' /\ Now'.faults = {}
  BY DEF Now
<1>2. Good(Now, Objs)' /\ TypeOK'
  BY DEF IInv
<1>3. ASSUME NEW q \in Objs PROVE Sized(Now, q)'
  <2>1. Sized(Now, q) /\ obj[q].ptr \in Blocks \cup {Null}
    BY CShapes DEF CInv, Neat
  <2>2. CASE obj[q].ptr = f
    BY <1>1, <2>1, <2>2, NowFields DEF Sized, Fitting
  <2>3. CASE obj[q].ptr # f
    BY <1>1, <2>1, <2>3, NowFields DEF Sized, Fitting
  <2> QED
    BY <2>2, <2>3
<1>4. ASSUME NEW b \in Blocks, heap'[b].st = "live"
      PROVE  b \in caller' \/ \E q \in Objs : Owns(Now, q)' /\ obj[q].ptr = b
  <2>1. CASE b = f
    BY <1>4, <2>1
  <2>2. CASE b # f
    <3>1. heap[b].st = "live"
      BY <1>4, <2>2
    <3>2. b \in caller \/ \E q \in Objs : Owns(Now, q) /\ obj[q].ptr = b
      BY <3>1, NowFields DEF CInv, Neat
    <3> QED
      BY <1>1, <2>2, <3>2, NowFields DEF Owns
  <2> QED
    BY <2>1, <2>2
<1>5. Neat(Now, Objs, {})'
  BY <1>1, <1>2, <1>3, <1>4 DEF Neat
<1>6. (\A q \in Objs : Shaped(Now, q))'
  BY <1>1, NowFields DEF CInv, Shaped
<1> QED
  BY <1>2, <1>5, <1>6 DEF CInv

LEMMA CallerAllocNeat ==
  ASSUME CInv, NEW k \in CallerKinds, NEW n \in Sizes, CallerAlloc(k, n)
  PROVE  CInv'
<1> DEFINE f == Fresh(Now)
           B == [st |-> "live", by |-> k, cap |-> n, tag |-> "junk"]
<1>1. IInv'
  BY CInvIInv, CallerAllocInv
<1>2. f \in Blocks /\ heap[f].st = "unused"
  BY NowFields DEF CallerAlloc, Room, Fresh
<1> HIDE DEF f
<1>3. /\ heap' = [heap EXCEPT ![f] = B] /\ obj' = obj /\ faults' = {}
      /\ caller' = caller \cup {f}
  BY NowFields DEF CallerAlloc, Become, f, Now
<1> HIDE DEF B
<1>4. \A b \in Blocks : b # f => heap'[b] = heap[b]
  BY <1>3, NowFields DEF CInv, Neat, Good, Store
<1>5. \A q \in Objs : obj[q].ptr # f
  BY <1>2, CShapes, NullAssumption
<1> QED
  BY <1>1, <1>2, <1>3, <1>4, <1>5, CallersNeat

LEMMA CallerFreeNeat ==
  ASSUME CInv, NEW b \in Blocks, CallerFree(b)
  PROVE  CInv'
<1>1. IInv'
  BY CInvIInv, CallerFreeInv
<1>2. /\ heap' = [heap EXCEPT ![b] = FreedBlock] /\ obj' = obj /\ faults' = {}
      /\ caller' = caller \ {b} /\ b \in caller
  BY NowFields DEF CallerFree, Become, Now
<1>3. (\A c \in Blocks : c # b => heap'[c] = heap[c]) /\ heap'[b] = FreedBlock
  BY <1>2, NowFields DEF CInv, Neat, Good, Store
<1>4. heap'[b].st = "freed"
  BY <1>3 DEF FreedBlock
<1>5. \A q \in Objs : obj[q].ptr = b => obj[q].dom.free = "none"
  BY <1>2, NullAssumption, NowFields DEF CInv, Neat, Good, Fits, Owns
<1> QED
  BY <1>1, <1>2, <1>3, <1>4, <1>5, CallersNeat

LEMMA ConstructNeat ==
  ASSUME CInv, Careful, NEW o \in Objs, Construct(o)
  PROVE  CInv'
<1>1. \A n \in Nums, w \in Widths : n \in Nat /\ w \in Nat
  BY ShapeAssumption
<1> QED
  BY <1>1, EmptyDataNeat, OwningDataNeat, OwningLikeNeat, NonowningDataNeat, ViewCallerNeat,
     CopyCallerNeat, MoveCallerNeat, CloneDataNeat, CopyConstructNeat, MoveConstructNeat DEF Construct

LEMMA ChangeNeat ==
  ASSUME CInv, Careful, NEW o \in Objs, Change(o)
  PROVE  CInv'
BY CopyAssignNeat, MoveAssignNeat, DestroyNeat, ReleaseNeat, ResetNeat, SetDimensionsNeat,
   ReshapeStepNeat, WriteNeat DEF Change

-----------------------------------------------------------------------------
(***************************************************************************)
(* The domain manager.                                                     *)
(***************************************************************************)

\* A send between buffers that both hold it changes contents, or throws.
LEMMA SendNeat ==
  ASSUME NEW s, Neat(s, Objs, {}), NEW dst \in Objs, NEW src \in Objs, NEW out,
         InRange(s, s.obj[dst].ptr, s.obj[dst].num * s.obj[dst].width),
         InRange(s, s.obj[src].ptr, s.obj[dst].num * s.obj[dst].width)
  PROVE  LET m == Send(s, dst, src, out)
         IN  /\ m.threw \in BOOLEAN
             /\ m = [s |-> m.s, threw |-> TRUE] \/ m = [s |-> m.s, threw |-> FALSE]
             /\ m.threw => m.s = s
             /\ Neat(m.s, Objs, {}) /\ m.s.obj = s.obj /\ m.s.caller = s.caller
<1> DEFINE p == s.obj[dst].ptr
           q == s.obj[src].ptr
           x == IF out = "sent" THEN s.heap[q].tag ELSE "junk"
           t == [s EXCEPT !.heap[p].tag = x]
           m == Send(s, dst, src, out)
<1>1. /\ s \in Store /\ p \in Blocks \cup {Null} /\ q \in Blocks \cup {Null} /\ p # Null /\ q # Null
  BY DEF Neat, Good, Store, Object, InRange, IsLive
<1>2. p \in Blocks /\ q \in Blocks /\ s.heap[q].tag \in Tags \cup {"junk"}
  BY <1>1 DEF Store, Block
<1>3. x \in Tags \cup {"junk"}
  BY <1>2
<1>4. \/ m = [s |-> s, threw |-> TRUE]
      \/ m = [threw |-> FALSE, s |-> t]
  BY DEF Send
<1> HIDE DEF x, p, m
<1>5. Neat(t, Objs, {}) /\ t.obj = s.obj /\ t.caller = s.caller
  BY <1>2, <1>3, TagNeat
<1> HIDE DEF t
<1>6. CASE m = [s |-> s, threw |-> TRUE]
  BY <1>6 DEF m
<1>7. CASE m = [threw |-> FALSE, s |-> t]
  BY <1>5, <1>7 DEF m
<1> QED
  BY <1>4, <1>6, <1>7

\* What the manager is given, if it has data, can be read.
LEMMA GivenInRange ==
  ASSUME CInv, NEW src \in Objs, Given(src), HasData(src)
  PROVE  /\ InRange(Now, obj[src].ptr, SizeInBytes(src))
         /\ obj[src].ptr \in Blocks /\ heap[obj[src].ptr].st = "live"
<1>1. /\ obj[src].ptr # Null /\ heap[obj[src].ptr].st = "live"
      /\ SizeInBytes(src) <= obj[src].cap
  BY DEF Given, HasData, NotDangling
<1>2. /\ obj[src].ptr \in Blocks /\ SizeInBytes(src) \in Nat /\ obj[src].cap \in Nat
      /\ heap[obj[src].ptr].cap \in Nat /\ obj[src].cap <= heap[obj[src].ptr].cap
  BY <1>1, CShapes
<1> QED
  BY <1>1, <1>2, NowFields DEF InRange, IsLive

\* A new buffer, with the shape of the source, takes the send.
LEMMA FilledInRange ==
  ASSUME CInv, NEW o \in Objs, NEW src \in Objs, o # src, Given(src), HasData(src), NEW d, NEW s,
         Filled(Now, s, o, SizeInBytes(src), d)
  PROVE  LET v == SetShape(s, o, obj[src].num, obj[src].width)
         IN  /\ Neat(v, Objs, {}) /\ Framed(Now, v, o)
             /\ v.obj[o].cap = SizeInBytes(src)
             /\ v.obj[o].num = obj[src].num /\ v.obj[o].width = obj[src].width
             /\ InRange(v, v.obj[o].ptr, SizeInBytes(src))
             /\ InRange(v, v.obj[src].ptr, SizeInBytes(src))
<1> DEFINE n == obj[src].num
           w == obj[src].width
           m == SizeInBytes(src)
           v == SetShape(s, o, n, w)
<1>1. n \in Nat /\ w \in Nat /\ m \in Nat
  BY CShapes
<1>2. /\ InRange(Now, obj[src].ptr, m) /\ obj[src].ptr \in Blocks
      /\ heap[obj[src].ptr].st = "live"
  BY GivenInRange
<1> HIDE DEF n, w, m
<1>3. /\ Neat(s, Objs, {}) /\ Framed(Now, s, o) /\ s.obj[o].cap = m
      /\ s.obj[o].ptr \in Blocks
      /\ s.heap[s.obj[o].ptr].st = "live" /\ s.heap[s.obj[o].ptr].cap = m
      /\ s.heap[obj[src].ptr] = heap[obj[src].ptr]
  BY <1>2, NowFields DEF Filled, m
<1>4. /\ Neat(v, Objs, {}) /\ v.heap = s.heap /\ Framed(s, v, o)
      /\ v.obj[o].ptr = s.obj[o].ptr /\ v.obj[o].cap = s.obj[o].cap
      /\ v.obj[o].num = n /\ v.obj[o].width = w
  <2>1. n \in Nat /\ w \in Nat /\ Neat(s, Objs, {})
    BY <1>1, <1>3
  <2> QED
    BY <2>1, ReshapedNeat
<1> HIDE DEF v
<1>5. Framed(Now, v, o) /\ v.obj[src] = obj[src]
  BY <1>3, <1>4, NowFields DEF Framed
<1>6. InRange(v, v.obj[o].ptr, m)
  BY <1>1, <1>3, <1>4, NullAssumption DEF InRange, IsLive
<1>7. InRange(v, v.obj[src].ptr, m)
  BY <1>2, <1>3, <1>4, <1>5, NowFields DEF InRange, IsLive
<1> QED
  BY <1>3, <1>4, <1>5, <1>6, <1>7 DEF v, n, w, m

LEMMA SentToNeat ==
  ASSUME CInv, Careful, NEW o \in Objs, NEW src \in Objs, o \notin live, Given(src), HasData(src),
         NEW d \in Domains, NEW ok \in BOOLEAN, NEW out, SentTo(o, src, d, ok, out)
  PROVE  CInv'
<1> DEFINE n == obj[src].num
           w == obj[src].width
           size == SizeInBytes(src)
           a == OwningMem(Now, o, size, d, TRUE)
           v == SetShape(a.s, o, n, w)
           m == Send(v, o, src, out)
           z == [FreeMem(a.s, o) EXCEPT !.obj[o] = NoObject]
           r == IF a.threw THEN a ELSE IF m.threw THEN [s |-> z, threw |-> TRUE] ELSE m
<1>1. ok = TRUE /\ Room(Now) /\ o # src
  BY CarefulAllocates DEF SentTo, Given
<1>2. Constructed(o, r, n, w)
  BY <1>1 DEF SentTo
<1>3. n \in Nat /\ w \in Nat /\ size \in Nat /\ size = n * w /\ Complete(d)
  BY CShapes DEF SizeInBytes, Careful
<1>4. a = [s |-> a.s, threw |-> FALSE] /\ Filled(Now, a.s, o, size, d)
  <2> HIDE DEF size
  <2> QED
    BY <1>1, <1>3, NotLive, OwningNeat
<1> HIDE DEF a
<1>5. /\ Neat(v, Objs, {}) /\ Framed(Now, v, o) /\ v.obj[o].cap = size
      /\ v.obj[o].num = n /\ v.obj[o].width = w
      /\ InRange(v, v.obj[o].ptr, size) /\ InRange(v, v.obj[src].ptr, size)
  <2>1. o # src /\ Given(src) /\ HasData(src) /\ Filled(Now, a.s, o, SizeInBytes(src), d)
    BY <1>1, <1>4
  <2> QED
    BY <2>1, FilledInRange
<1> HIDE DEF v, size
<1>6. /\ m = [s |-> m.s, threw |-> TRUE] \/ m = [s |-> m.s, threw |-> FALSE]
      /\ Neat(m.s, Objs, {}) /\ m.s.obj = v.obj
  <2>1. /\ InRange(v, v.obj[o].ptr, v.obj[o].num * v.obj[o].width)
        /\ InRange(v, v.obj[src].ptr, v.obj[o].num * v.obj[o].width)
    BY <1>3, <1>5
  <2> QED
    BY <1>5, <2>1, SendNeat
<1> HIDE DEF m, n, w
<1>7. CASE m = [s |-> m.s, threw |-> FALSE]
  <2>1. r = [s |-> m.s, threw |-> FALSE]
    BY <1>4, <1>7
  <2>2. Framed(Now, m.s, o) /\ m.s.obj[o].cap = size
    BY <1>5, <1>6 DEF Framed
  <2>3. n * w <= m.s.obj[o].cap
    BY <1>3, <2>2
  <2> HIDE DEF r
  <2> QED
    BY <1>2, <1>3, <1>6, <2>1, <2>2, <2>3, ConstructedNeat
<1>8. CASE m = [s |-> m.s, threw |-> TRUE]
  <2>1. r = [s |-> z, threw |-> TRUE]
    BY <1>4, <1>8
  <2> HIDE DEF r
  <2>2. Become(z) /\ UNCHANGED live
    BY <1>2, <2>1 DEF Constructed
  <2> DEFINE f == FreeMem(a.s, o)
             O == NoObject
             t == Put(f, o, O)
  <2>3. z = t
    BY DEF Put
  <2>4. Neat(f, Objs \ {o}, {}) /\ f.obj = a.s.obj
    BY <1>4, FreeNeat DEF Filled
  <2>5. O = NoObject /\ O \in Object /\ Fitting(f, O.ptr, O.cap, O.dom) /\ Free4(f, O.ptr, o, O.dom)
    BY NoObjectFits
  <2> HIDE DEF z, f, O
  <2>6. Neat(t, Objs, {}) /\ Framed(f, t, o) /\ t.obj[o] = O
    BY <2>4, <2>5, PutNeat
  <2> HIDE DEF t
  <2>7. Framed(Now, t, o)
    BY <1>4, <2>4, <2>6 DEF Filled, Framed
  <2>8. \A p \in Objs : Shaped(t, p)
    BY <2>5, <2>6, <2>7, NoObjectFits DEF CInv, Shaped, Framed
  <2>9. live' \subseteq Objs /\ \A p \in Objs \ live' : t.obj[p] = NoObject
    BY <2>2, <2>5, <2>6, <2>7, NowFields DEF CInv, TypeOK, Framed
  <2> QED
    BY <2>2, <2>3, <2>6, <2>8, <2>9, StepNeat
<1> QED
  BY <1>6, <1>7, <1>8

LEMMA ReadableNeat ==
  ASSUME CInv, Careful, NEW o \in Objs, NEW d \in Domains, NEW src \in Objs, NEW ok \in BOOLEAN, NEW out,
         Readable(o, d, src, ok, out)
  PROVE  CInv'
<1>1. o \notin live /\ Given(src)
  BY DEF Readable
<1>2. CASE Accessible(d, obj[src].dom)
  <2>1. NonowningData(o, src)
    BY <1>2 DEF Readable
  <2> QED
    BY <2>1, NonowningDataNeat
<1>3. CASE ~Accessible(d, obj[src].dom) /\ HasData(src)
  <2>1. SentTo(o, src, d, ok, out)
    BY <1>3 DEF Readable
  <2> QED
    BY <1>1, <1>3, <2>1, SentToNeat
<1>4. CASE ~Accessible(d, obj[src].dom) /\ ~HasData(src)
  <2>1. EmptyData(o, d, obj[src].num, obj[src].width)
    BY <1>4 DEF Readable
  <2>2. obj[src].num \in Nat /\ obj[src].width \in Nat
    BY CShapes
  <2> QED
    BY <2>1, <2>2, EmptyDataNeat
<1> QED
  BY <1>2, <1>3, <1>4

LEMMA CopyToNeat ==
  ASSUME CInv, Careful, NEW o \in Objs, NEW d \in Domains, NEW src \in Objs, NEW ok \in BOOLEAN, NEW out,
         CopyTo(o, d, src, ok, out)
  PROVE  CInv'
<1>1. o \notin live /\ Given(src) /\ HasData(src) /\ o # src
  BY DEF CopyTo, Given
<1>2. CASE ~Accessible(d, obj[src].dom)
  <2>1. SentTo(o, src, d, ok, out)
    BY <1>2 DEF CopyTo
  <2> QED
    BY <1>1, <2>1, SentToNeat
<1>3. CASE Accessible(d, obj[src].dom)
  <2> DEFINE n == obj[src].num
             w == obj[src].width
             size == SizeInBytes(src)
             a == OwningMem(Now, o, size, d, TRUE)
             c == AssignMem(a.s, o, src, TRUE)
             r == IF a.threw THEN a ELSE c
  <2>1. CopySource(src) /\ MayAllocate(ok)
    BY <1>3 DEF CopyTo
  <2>2. ok = TRUE /\ Room(Now)
    BY <2>1, CarefulAllocates
  <2>3. /\ obj[src].cap > size => Room(a.s)
        /\ obj[src].dom.id = d.id
        /\ Constructed(o, r, n, w)
    BY <1>3, <2>2, CarefulMay DEF CopyTo
  <2>4. n \in Nat /\ w \in Nat /\ size \in Nat /\ size = n * w /\ obj[src].cap \in Nat /\ Complete(d)
    BY CShapes DEF SizeInBytes, Careful
  <2>5. Usable(Now, src) /\ size <= obj[src].cap
    BY <2>1, SourceUsable
  <2>6. obj[src].ptr \in Blocks /\ heap[obj[src].ptr].st = "live"
    BY <1>1, GivenInRange
  <2> HIDE DEF size, n, w
  <2>7. a = [s |-> a.s, threw |-> FALSE] /\ Filled(Now, a.s, o, size, d)
    BY <1>1, <2>2, <2>4, NotLive, OwningNeat
  <2> HIDE DEF a
  <2>8. /\ Neat(a.s, Objs, {}) /\ Framed(Now, a.s, o) /\ a.s.obj[src] = obj[src]
        /\ a.s.obj[o].cap = size /\ a.s.obj[o].dom = d
        /\ a.s.obj[o].ptr \in Blocks
        /\ a.s.heap[a.s.obj[o].ptr].st = "live" /\ a.s.heap[a.s.obj[o].ptr].cap = size
        /\ a.s.heap[obj[src].ptr] = heap[obj[src].ptr]
    BY <1>1, <2>6, <2>7, NowFields DEF Filled, Framed
  <2>9. Usable(a.s, o)
    BY <2>4, <2>8, NullAssumption DEF Usable
  <2>10. Usable(a.s, src)
    BY <2>5, <2>6, <2>8, NullAssumption, NowFields DEF Usable
  <2>11. c.threw = FALSE /\ Taken(a.s, c.s, o, src)
    <3>1. Room(a.s) \/ ~(a.s.obj[o].cap < a.s.obj[src].cap)
      BY <2>3, <2>4, <2>8
    <3>2. a.s.obj[o].dom.id = a.s.obj[src].dom.id /\ Complete(a.s.obj[o].dom)
      BY <2>3, <2>4, <2>8
    <3> QED
      BY <1>1, <2>8, <2>9, <2>10, <3>1, <3>2, AssignNeat
  <2>12. r = c
    BY <2>7
  <2> HIDE DEF r, c
  <2>13. Constructed(o, [s |-> c.s, threw |-> FALSE], n, w)
    BY <2>3, <2>11, <2>12 DEF Constructed
  <2>14. /\ Neat(c.s, Objs, {}) /\ Framed(Now, c.s, o)
         /\ c.s.obj[o].ptr # Null => obj[src].cap <= c.s.obj[o].cap
         /\ c.s.obj[o].cap \in Nat
    BY <2>8, <2>11 DEF Taken, Framed, Neat, Good, Store, Object
  <2>15. c.s.obj[o].ptr # Null => size <= c.s.obj[o].cap
    BY <2>4, <2>5, <2>14
  <2>16. c.s.obj[o].ptr # Null => n * w <= c.s.obj[o].cap
    BY <2>4, <2>15
  <2> QED
    BY <1>1, <2>4, <2>13, <2>14, <2>16, ConstructedNeat
<1> QED
  BY <1>2, <1>3

LEMMA WriteableNeat ==
  ASSUME CInv, Careful, NEW o \in Objs, NEW d \in Domains, NEW src \in Objs, NEW ok \in BOOLEAN,
         Writeable(o, d, src, ok)
  PROVE  CInv'
<1>1. OwningData(o, d, obj[src].num, obj[src].width, ok)
  BY DEF Writeable
<1>2. obj[src].num \in Nat /\ obj[src].width \in Nat
  BY CShapes
<1> QED
  BY <1>1, <1>2, OwningDataNeat

LEMMA HandedNeat ==
  ASSUME CInv, NEW o \in Objs, NEW d \in Domains, NEW src \in Objs, Handed(o, d, src)
  PROVE  CInv'
BY MoveConstructNeat DEF Handed

\* A destination that becomes a view, or empty, takes the shape of the source.
LEMMA BecomesViewNeat ==
  ASSUME CInv, NEW o \in live, NEW p \in Blocks \cup {Null}, NEW m \in Nat, NEW d,
         ~Owns(Now, o), Fitting(Now, p, m, d), d.free = "none" \/ p = Null,
         NEW n \in Nat, NEW w \in Nat, p # Null => n * w <= m,
         UNCHANGED live, Become(SetShape(AdoptMem(Now, o, p, m, d), o, n, w))
  PROVE  CInv'
<1> DEFINE u == AdoptMem(Now, o, p, m, d)
           t == SetShape(u, o, n, w)
<1>1. o \in Objs
  BY DEF CInv, TypeOK
<1>2. Neat(u, Objs, {}) /\ Framed(Now, u, o) /\ u.obj[o].ptr = p /\ u.obj[o].cap = m
  <2> HIDE DEF u
  <2>1. LET x == AdoptMem(Now, o, p, m, d)
        IN  Neat(x, Objs, {}) /\ Framed(Now, x, o) /\ x.obj[o].ptr = p /\ x.obj[o].cap = m
    BY <1>1, AdoptNeat
  <2> QED
    BY <2>1 DEF u
<1> HIDE DEF u
<1>3. /\ Neat(t, Objs, {}) /\ Framed(u, t, o)
      /\ t.obj[o].ptr = u.obj[o].ptr /\ t.obj[o].cap = u.obj[o].cap
      /\ t.obj[o].num = n /\ t.obj[o].width = w
  BY <1>1, <1>2, ReshapedNeat
<1>4. Become(t)
  BY DEF u
<1> HIDE DEF t
<1>5. Framed(Now, t, o) /\ Shaped(t, o)
  BY <1>2, <1>3 DEF Framed, Shaped
<1> QED
  BY <1>3, <1>4, <1>5, ChangedNeat

\* A destination that is sent to, in a buffer it has or is given.
LEMMA ReceivesNeat ==
  ASSUME CInv, NEW o \in live, NEW s, Neat(s, Objs, {}), Framed(Now, s, o), Shaped(s, o),
         NEW src \in Objs, NEW out,
         InRange(s, s.obj[o].ptr, s.obj[o].num * s.obj[o].width),
         InRange(s, s.obj[src].ptr, s.obj[o].num * s.obj[o].width),
         UNCHANGED live, Become(Send(s, o, src, out).s)
  PROVE  CInv'
<1> DEFINE m == Send(s, o, src, out)
<1>1. o \in Objs
  BY DEF CInv, TypeOK
<1>2. Neat(m.s, Objs, {}) /\ m.s.obj = s.obj
  BY <1>1, SendNeat
<1>3. Become(m.s)
  OBVIOUS
<1> HIDE DEF m
<1>4. Framed(Now, m.s, o) /\ Shaped(m.s, o)
  BY <1>2 DEF Framed, Shaped
<1> QED
  BY <1>2, <1>3, <1>4, ChangedNeat

LEMMA ReadableIntoNeat ==
  ASSUME CInv, Careful, NEW o \in Objs, NEW src \in Objs, NEW ok \in BOOLEAN, NEW out,
         ReadableInto(o, src, ok, out)
  PROVE  CInv'
<1> DEFINE n == obj[src].num
           w == obj[src].width
           size == SizeInBytes(src)
           d == obj[o].dom
           id == obj[src].dom.id
<1>1. /\ o \in live /\ o # src /\ Given(src) /\ HasDomain(o) /\ NotDangling(o)
      /\ UNCHANGED live
      /\ obj[o].ptr # Null => SizeInBytes(o) <= obj[o].cap
  BY DEF ReadableInto
<1>2. /\ n \in Nat /\ w \in Nat /\ size \in Nat /\ size = n * w /\ obj[src].ptr \in Blocks \cup {Null}
      /\ Held(d) /\ d # NoDomain
  BY <1>1, CShapes DEF SizeInBytes, HasDomain
<1>3. CASE Accessible(d, obj[src].dom)
  <2> DEFINE v == Nonowning(id)
             p == obj[src].ptr
  <2>1. ~Owns(Now, o) /\ Become(SetShape(AdoptMem(Now, o, p, size, v), o, n, w))
    BY <1>3, CarefulMay DEF ReadableInto
  <2>2. id \in Ids
    BY CShapes, HeldIs DEF Domain
  <2>3. p # Null => /\ heap[p].st # "unused"
                    /\ heap[p].st = "live" => size <= heap[p].cap
    BY CShapes
  <2>4. Fitting(Now, p, size, v) /\ v.free = "none"
    BY <2>2, <2>3, BuildHeld, NowFields DEF Fitting
  <2>5. n * w <= size
    BY <1>2
  <2>6. p \in Blocks \cup {Null}
    BY <1>2
  <2> HIDE DEF n, w, size, v, p
  <2> QED
    BY <1>1, <1>2, <2>1, <2>4, <2>5, <2>6, BecomesViewNeat
<1>4. CASE ~Accessible(d, obj[src].dom) /\ ~HasData(src)
  <2> DEFINE p == Null
             m == 0
  <2>1. ~Owns(Now, o) /\ Become(SetShape(AdoptMem(Now, o, p, m, d), o, n, w))
    BY <1>4, CarefulMay DEF ReadableInto
  <2>2. p = Null /\ p \in Blocks \cup {Null} /\ m \in Nat /\ Fitting(Now, p, m, d)
    BY <1>2 DEF Fitting
  <2>3. n \in Nat /\ w \in Nat
    BY <1>2
  <2> HIDE DEF n, w, size, d, p, m
  <2> QED
    BY <1>1, <2>1, <2>2, <2>3, BecomesViewNeat
<1>5. CASE ~Accessible(d, obj[src].dom) /\ HasData(src) /\ HasData(o)
  <2>1. SizeInBytes(o) = size /\ Become(Send(Now, o, src, out).s)
    BY <1>5, CarefulMay DEF ReadableInto
  <2>2. InRange(Now, Now.obj[src].ptr, size)
    BY <1>1, <1>5, GivenInRange, NowFields
  <2>3. InRange(Now, Now.obj[o].ptr, SizeInBytes(o))
    <3>1. Given(o)
      BY <1>1, <1>5 DEF Given, HasData
    <3> QED
      BY <1>5, <3>1, GivenInRange, NowFields
  <2>4. Now.obj[o].num * Now.obj[o].width = size
    BY <2>1, NowFields DEF SizeInBytes
  <2>5. Neat(Now, Objs, {}) /\ Framed(Now, Now, o) /\ Shaped(Now, o)
    BY DEF CInv, Framed
  <2> HIDE DEF size
  <2>6. /\ InRange(Now, Now.obj[o].ptr, Now.obj[o].num * Now.obj[o].width)
        /\ InRange(Now, Now.obj[src].ptr, Now.obj[o].num * Now.obj[o].width)
    BY <2>1, <2>2, <2>3, <2>4
  <2> QED
    BY <1>1, <2>1, <2>5, <2>6, ReceivesNeat
<1>6. CASE ~Accessible(d, obj[src].dom) /\ HasData(src) /\ ~HasData(o)
  <2> DEFINE a == OwningMem(Now, o, size, d, TRUE)
             v == SetShape(a.s, o, n, w)
  <2>1. ~Owns(Now, o) /\ MayAllocate(ok)
    BY <1>6, CarefulMay DEF ReadableInto
  <2>2. ok = TRUE /\ Room(Now)
    BY <2>1, CarefulAllocates
  <2>3. Become(IF a.threw THEN a.s ELSE Send(v, o, src, out).s)
    BY <1>6, <2>2 DEF ReadableInto
  <2>4. CASE ~Complete(d)
    <3>1. a = [s |-> Now, threw |-> TRUE]
      BY <1>2, <2>4, HeldIs, OwningThrows
    <3> HIDE DEF a
    <3>2. Become(Now)
      BY <2>3, <3>1
    <3> QED
      BY <1>1, <3>2, SameNeat DEF Become, Now
  <2>5. CASE Complete(d)
    <3>1. a = [s |-> a.s, threw |-> FALSE] /\ Filled(Now, a.s, o, size, d)
      <4> HIDE DEF size, d
      <4> QED
        BY <1>2, <2>1, <2>2, <2>5, OwningNeat
    <3> HIDE DEF a
    <3>2. /\ Neat(v, Objs, {}) /\ Framed(Now, v, o) /\ v.obj[o].cap = size
          /\ v.obj[o].num = n /\ v.obj[o].width = w
          /\ InRange(v, v.obj[o].ptr, size) /\ InRange(v, v.obj[src].ptr, size)
      <4>1. o \in Objs /\ o # src /\ Given(src) /\ HasData(src) /\ Filled(Now, a.s, o, SizeInBytes(src), d)
        BY <1>1, <1>6, <3>1 DEF CInv, TypeOK
      <4> HIDE DEF d
      <4> QED
        BY <4>1, FilledInRange
    <3> HIDE DEF v, size
    <3>3. Become(Send(v, o, src, out).s)
      BY <2>3, <3>1
    <3>4. v.obj[o].num * v.obj[o].width = size
      BY <1>2, <3>2
    <3>5. /\ InRange(v, v.obj[o].ptr, v.obj[o].num * v.obj[o].width)
          /\ InRange(v, v.obj[src].ptr, v.obj[o].num * v.obj[o].width)
      BY <3>2, <3>4
    <3>6. Shaped(v, o)
      BY <1>2, <3>2, <3>4 DEF Shaped
    <3> QED
      BY <1>1, <3>2, <3>3, <3>5, <3>6, ReceivesNeat
  <2> QED
    BY <2>4, <2>5
<1> QED
  BY <1>3, <1>4, <1>5, <1>6

LEMMA ManageNeat ==
  ASSUME CInv, Careful, NEW o \in Objs, NEW src \in Objs, Manage(o, src)
  PROVE  CInv'
BY ReadableNeat, CopyToNeat, ReadableIntoNeat, WriteableNeat, HandedNeat DEF Manage

-----------------------------------------------------------------------------
(***************************************************************************)
(* What arrives.                                                           *)
(***************************************************************************)
\* Whether object o of a store has data, and what they are.
Has(s, o) == s.obj[o].ptr # Null /\ s.obj[o].num * s.obj[o].width > 0
Tag(s, o) == s.heap[s.obj[o].ptr].tag
Holds(s, o) == IF Has(s, o) THEN Tag(s, o) ELSE "junk"

\* Object o of t is of the shape and contents of object p of s.
Alike(s, p, t, o) ==
  /\ t.obj[o].num = s.obj[p].num /\ t.obj[o].width = s.obj[p].width
  /\ Has(t, o) <=> Has(s, p)
  /\ Has(s, p) => Tag(t, o) = Tag(s, p)

\* What a step does to contents.
LEMMA HeldNow ==
  ASSUME NEW o, NEW t, Become(t)
  PROVE  /\ HasData(o) <=> Has(Now, o)
         /\ Contents(o) = Holds(Now, o)
         /\ HasData(o)' <=> Has(t, o)
         /\ Contents(o)' = Holds(t, o)
<1>1. heap' = t.heap /\ obj' = t.obj
  BY DEF Become
<1> QED
  BY <1>1, NowFields DEF HasData, SizeInBytes, Contents, Has, Holds, Tag

\* What is alike in the store it becomes, is alike in the objects.
LEMMA AlikeData ==
  ASSUME NEW o, NEW p, NEW t, Become(t), Alike(Now, p, t, o)
  PROVE  /\ obj'[o].num = obj[p].num /\ obj'[o].width = obj[p].width
         /\ HasData(o)' = HasData(p) /\ Contents(o)' = Contents(p)
<1>1. /\ HasData(p) <=> Has(Now, p)
      /\ Contents(p) = Holds(Now, p)
  BY HeldNow
<1>2. /\ HasData(o)' <=> Has(t, o)
      /\ Contents(o)' = Holds(t, o)
  BY HeldNow
<1>3. obj' = t.obj
  BY DEF Become
<1>4. HasData(o)' <=> HasData(p)
  BY <1>1, <1>2 DEF Alike
<1> QED
  BY <1>1, <1>2, <1>3, <1>4, NowFields DEF Alike, Holds, HasData

\* The copy that ends an assignment leaves the left side with what the right side has.
LEMMA CopyBytesTag ==
  ASSUME NEW s, Neat(s, Objs, {}), NEW l \in Objs, NEW r \in Objs, Usable(s, l), Usable(s, r),
         s.obj[l].dom.prefix # "nonowning", s.obj[r].cap <= s.obj[l].cap, s.obj[r].cap # 0
  PROVE  LET t == CopyBytes(s, l, r)
         IN  t.obj = s.obj /\ Tag(t, l) = Tag(s, r) /\ Tag(t, r) = Tag(s, r) /\ s.obj[l].ptr # Null
<1> DEFINE L == s.obj[l]
           R == s.obj[r]
           t == CopyBytes(s, l, r)
           x == IF L.dom.id # R.dom.id THEN {"copy_domain"} ELSE {}
<1>1. /\ s \in Store /\ L.cap \in Nat /\ R.cap \in Nat
      /\ L.ptr \in Blocks \cup {Null} /\ R.ptr \in Blocks \cup {Null}
      /\ \A b \in Blocks : s.heap[b] \in Block /\ s.heap[b].cap \in Nat
  BY DEF Neat, Good, Store, Object, Block
<1>2. L.ptr # Null /\ R.ptr # Null
  BY <1>1 DEF Usable
<1>3. InRange(s, L.ptr, R.cap) /\ InRange(s, R.ptr, R.cap)
  BY <1>1, <1>2 DEF Usable, InRange, IsLive
<1>4. t = Memcpy(s, L.dom, L.ptr, R.ptr, R.cap, R.dom.id)
  BY DEF CopyBytes
<1>5. t = [s EXCEPT !.heap[L.ptr].tag = s.heap[R.ptr].tag, !.faults = @ \cup x]
  BY <1>3, <1>4 DEF Memcpy
<1> HIDE DEF t, x
<1>6. t.obj = s.obj /\ t.heap = [s.heap EXCEPT ![L.ptr].tag = s.heap[R.ptr].tag]
  BY <1>1, <1>5 DEF Store
<1>7. /\ t.heap[L.ptr].tag = s.heap[R.ptr].tag
      /\ t.heap[R.ptr].tag = s.heap[R.ptr].tag
  BY <1>1, <1>2, <1>6 DEF Store, Block
<1> QED
  BY <1>2, <1>6, <1>7 DEF t, Tag

\* What is assigned holds what the right side does, which keeps it.
LEMMA AssignTag ==
  ASSUME NEW s, Neat(s, Objs, {}), NEW l \in Objs, NEW r \in Objs, l # r,
         Usable(s, l), Usable(s, r), Room(s) \/ ~(s.obj[l].cap < s.obj[r].cap),
         Complete(s.obj[l].dom), s.obj[r].cap # 0
  PROVE  LET t == AssignMem(s, l, r, TRUE).s
         IN  /\ t.obj[l].ptr # Null /\ t.obj[l].dom = s.obj[l].dom
             /\ Tag(t, l) = Tag(s, r) /\ Tag(t, r) = Tag(s, r)
<1> DEFINE L == s.obj[l]
           R == s.obj[r]
           d == L.dom
           n == R.cap
           g == IF d # NoDomain /\ L.cap < n THEN Regrow(s, l, n, TRUE) ELSE [s |-> s, threw |-> FALSE]
           a == AssignMem(s, l, r, TRUE)
           t == a.s
<1>1. /\ s \in Store /\ L.cap \in Nat /\ n \in Nat
      /\ L.ptr \in Blocks \cup {Null} /\ R.ptr \in Blocks \cup {Null}
      /\ \A b \in Blocks : s.heap[b].cap \in Nat
  BY DEF Neat, Good, Store, Object, Block
<1>2. Sized(s, l) /\ d # NoDomain /\ d.prefix # "nonowning"
  BY DEF Neat, Complete, NoDomain
<1>3. a = IF g.threw THEN g ELSE [s |-> CopyBytes(g.s, l, r), threw |-> FALSE]
  BY DEF AssignMem
<1>4. CASE ~(L.cap < n)
  <2>1. a = [s |-> CopyBytes(s, l, r), threw |-> FALSE]
    BY <1>3, <1>4
  <2>2. n <= L.cap
    BY <1>1, <1>4
  <2>3. LET v == CopyBytes(s, l, r)
        IN  v.obj = s.obj /\ Tag(v, l) = Tag(s, r) /\ Tag(v, r) = Tag(s, r) /\ L.ptr # Null
    BY <1>2, <2>2, CopyBytesTag
  <2> HIDE DEF a
  <2>4. t = CopyBytes(s, l, r)
    BY <2>1
  <2> HIDE DEF t
  <2>5. t.obj = s.obj /\ Tag(t, l) = Tag(s, r) /\ Tag(t, r) = Tag(s, r) /\ L.ptr # Null
    BY <2>3, <2>4
  <2> QED
    BY <2>5 DEF t, a
<1>5. CASE L.cap < n
  <2> DEFINE u == Regrow(s, l, n, TRUE).s
             f == FreeMem(s, l)
  <2>1. Regrow(s, l, n, TRUE).threw = FALSE /\ Filled(f, u, l, n, d)
    BY <1>1, <1>5, RegrowNeat
  <2>2. a = [s |-> CopyBytes(u, l, r), threw |-> FALSE]
    BY <1>2, <1>3, <1>5, <2>1
  <2>3. /\ f.obj = s.obj
        /\ \A b \in Blocks : f.heap[b] = s.heap[b] \/ (Owns(s, l) /\ b = L.ptr)
    BY FreeNeat
  <2> HIDE DEF u, f, a
  <2>4. /\ Neat(u, Objs, {}) /\ u.obj[l].cap = n /\ u.obj[l].dom = d /\ u.obj[r] = R
        /\ u.obj[l].ptr \in Blocks
        /\ u.heap[u.obj[l].ptr].st = "live" /\ u.heap[u.obj[l].ptr].cap = n
        /\ \A b \in Blocks : f.heap[b].st # "unused" => u.heap[b] = f.heap[b]
    BY <2>1, <2>3 DEF Filled, Framed
  <2>5. R.ptr # Null /\ s.heap[R.ptr].st = "live" /\ n <= s.heap[R.ptr].cap
    BY <1>1, <1>5 DEF Usable
  <2>6. R.ptr \in Blocks /\ u.heap[R.ptr] = s.heap[R.ptr]
    <3>1. Owns(s, l) => L.cap = s.heap[L.ptr].cap
      BY <1>2 DEF Sized, Fitting, Owns
    <3>2. L.cap # s.heap[R.ptr].cap
      BY <1>1, <1>5, <2>5
    <3> QED
      BY <1>1, <2>3, <2>4, <2>5, <3>1, <3>2
  <2>7. Usable(u, l) /\ Usable(u, r)
    BY <1>1, <2>4, <2>5, <2>6, NullAssumption DEF Usable
  <2>8. u.obj[r].cap <= u.obj[l].cap /\ u.obj[r].cap # 0 /\ u.obj[l].dom.prefix # "nonowning"
    BY <1>1, <1>2, <2>4
  <2>9. LET v == CopyBytes(u, l, r)
        IN  v.obj = u.obj /\ Tag(v, l) = Tag(u, r) /\ Tag(v, r) = Tag(u, r) /\ u.obj[l].ptr # Null
    BY <2>4, <2>7, <2>8, CopyBytesTag
  <2>10. Tag(u, r) = Tag(s, r)
    BY <2>4, <2>6 DEF Tag
  <2>11. t = CopyBytes(u, l, r)
    BY <2>2
  <2> HIDE DEF t
  <2>12. t.obj = u.obj /\ Tag(t, l) = Tag(u, r) /\ Tag(t, r) = Tag(u, r) /\ u.obj[l].ptr # Null
    BY <2>9, <2>11
  <2> QED
    BY <2>4, <2>10, <2>12 DEF t, a
<1> QED
  BY <1>4, <1>5

\* What is copied has the shape and the contents of its source.
LEMMA AssignArrives ==
  ASSUME CInv, Careful, NEW l \in Objs, NEW r \in Objs, NEW ok \in BOOLEAN, CopyAssign(l, r, ok),
         HasDomain(l), obj[l].dom.prefix # "nonowning"
  PROVE  Contents(l)' = Contents(r) /\ HasData(l)' = HasData(r)
<1> DEFINE s == SetShape(Now, l, obj[r].num, obj[r].width)
           t == AssignMem(s, l, r, TRUE).s
<1>1. /\ Become(t) /\ Neat(s, Objs, {}) /\ s.heap = heap
      /\ s.obj[l].ptr = obj[l].ptr /\ s.obj[l].cap = obj[l].cap /\ s.obj[l].dom = obj[l].dom
      /\ s.obj[l].num = obj[r].num /\ s.obj[l].width = obj[r].width
      /\ l # r => s.obj[r] = obj[r] /\ Usable(s, l) /\ Usable(s, r) /\ Room(s)
  BY AssignSides
<1>2. Complete(obj[l].dom) /\ obj[l].dom.id = obj[r].dom.id
  <2>1. obj[l].dom.id = obj[r].dom.id
    BY CarefulMay DEF CopyAssign
  <2> QED
    BY <2>1, CShapes, HeldIs DEF HasDomain
<1>3. /\ Usable(Now, r) /\ SizeInBytes(r) <= obj[r].cap
      /\ obj[r].num \in Nat /\ obj[r].width \in Nat /\ SizeInBytes(r) \in Nat
      /\ SizeInBytes(r) = obj[r].num * obj[r].width /\ obj[r].cap \in Nat
  <2>1. CopySource(r)
    BY DEF CopyAssign
  <2> QED
    BY <2>1, SourceUsable, CShapes DEF SizeInBytes
<1> HIDE DEF s
<1>4. Alike(Now, r, t, l)
  <2>1. CASE l = r
    <3>1. t = s
      BY <2>1 DEF AssignMem
    <3> HIDE DEF t
    <3> QED
      BY <1>1, <2>1, <3>1, NowFields DEF Alike, Has, Tag
  <2>2. CASE l # r
    <3>1. Taken(s, t, l, r)
      BY <1>1, <1>2, <2>2, AssignNeat
    <3>2. obj[r].cap # 0 => t.obj[l].ptr # Null /\ Tag(t, l) = Tag(s, r)
      <4> SUFFICES ASSUME obj[r].cap # 0 PROVE t.obj[l].ptr # Null /\ Tag(t, l) = Tag(s, r)
        OBVIOUS
      <4>1. s.obj[r].cap # 0 /\ Complete(s.obj[l].dom)
        BY <1>1, <1>2, <2>2
      <4>2. LET u == AssignMem(s, l, r, TRUE).s
            IN  /\ u.obj[l].ptr # Null /\ u.obj[l].dom = s.obj[l].dom
                /\ Tag(u, l) = Tag(s, r) /\ Tag(u, r) = Tag(s, r)
        BY <1>1, <2>2, <4>1, AssignTag
      <4> QED
        BY <4>2
    <3> HIDE DEF t
    <3>3. Tag(s, r) = Tag(Now, r)
      BY <1>1, <2>2, NowFields DEF Tag
    <3>4. t.obj[l].num = obj[r].num /\ t.obj[l].width = obj[r].width
      BY <1>1, <3>1 DEF Taken
    <3>5. CASE obj[r].cap = 0
      <4>1. ~(obj[r].num * obj[r].width > 0)
        BY <1>3, <3>5
      <4> QED
        BY <3>4, <4>1, NowFields DEF Alike, Has
    <3>6. CASE obj[r].cap # 0
      <4>1. obj[r].ptr # Null
        BY <1>3, <3>6, NowFields DEF Usable
      <4> QED
        BY <3>2, <3>3, <3>4, <3>6, <4>1, NowFields DEF Alike, Has
    <3> QED
      BY <3>5, <3>6
  <2> QED
    BY <2>1, <2>2
<1> HIDE DEF t
<1> QED
  BY <1>1, <1>4, AlikeData

\* A send that ends without throwing leaves what the runtime made of it.
LEMMA SendTag ==
  ASSUME NEW s, Neat(s, Objs, {}), NEW dst \in Objs, NEW src \in Objs, NEW out,
         InRange(s, s.obj[dst].ptr, s.obj[dst].num * s.obj[dst].width),
         InRange(s, s.obj[src].ptr, s.obj[dst].num * s.obj[dst].width),
         s.obj[dst].ptr # s.obj[src].ptr
  PROVE  LET m == Send(s, dst, src, out)
         IN  m = [s |-> m.s, threw |-> FALSE] =>
               /\ out # "failed"
               /\ out = "sent" => Tag(m.s, dst) = Tag(s, src)
               /\ Tag(m.s, src) = Tag(s, src)
<1> DEFINE p == s.obj[dst].ptr
           q == s.obj[src].ptr
           x == IF out = "sent" THEN s.heap[q].tag ELSE "junk"
           t == [s EXCEPT !.heap[p].tag = x]
           m == Send(s, dst, src, out)
<1>1. s \in Store /\ p \in Blocks /\ q \in Blocks /\ s.heap[p] \in Block
  BY DEF Neat, Good, Store, Object, InRange, IsLive
<1>2. \/ m = [s |-> s, threw |-> TRUE]
      \/ m = [threw |-> FALSE, s |-> t] /\ out # "failed"
  BY DEF Send
<1>3. /\ out = "sent" => x = s.heap[q].tag
      /\ p # q
  OBVIOUS
<1> HIDE DEF x, m, p, q
<1>4. t.obj = s.obj /\ t.heap[p].tag = x /\ t.heap[q] = s.heap[q]
  BY <1>1, <1>3 DEF Store, Block
<1> HIDE DEF t
<1>5. ASSUME m = [s |-> m.s, threw |-> FALSE]
      PROVE  /\ out # "failed"
             /\ out = "sent" => Tag(m.s, dst) = Tag(s, src)
             /\ Tag(m.s, src) = Tag(s, src)
  <2>1. m.s = t /\ out # "failed"
    BY <1>2, <1>5
  <2> QED
    BY <1>3, <1>4, <2>1 DEF Tag, p, q
<1> QED
  BY <1>5 DEF m

\* What the domain manager returns for source src: an object in reach of the domain asked for, of the shape of
\* the source, which keeps its contents, and with those contents unless a send went the wrong way.
Returns(src, d, t, o) ==
  /\ Together(d.id, t.obj[o].dom.id)
  /\ t.obj[o].num = obj[src].num /\ t.obj[o].width = obj[src].width
  /\ Has(t, o) <=> Has(Now, src)
  /\ Alike(Now, src, t, src)
  /\ Together(d.id, obj[src].dom.id) \/ Directed(obj[src].dom.id, d.id) => Alike(Now, src, t, o)

\* is_accessible is about places.
LEMMA AccessTogether ==
  ASSUME NEW d, NEW e
  PROVE  Accessible(d, e) <=> Together(d.id, e.id)
BY DEF Accessible, Together

\* A view of the source.
LEMMA ViewReturns ==
  ASSUME CInv, NEW o \in Objs, NEW src \in Objs, NEW d, Accessible(d, obj[src].dom),
         NonowningData(o, src), o \in live'
  PROVE  \E t : Become(t) /\ Returns(src, d, t, o)
<1> DEFINE id == obj[src].dom.id
           e == Nonowning(id)
           p == obj[src].ptr
           m == SizeInBytes(src)
           n == obj[src].num
           w == obj[src].width
           a == AdoptMem(Now, o, p, m, e)
           t == SetShape(a, o, n, w)
<1>1. o \notin live /\ src \in live /\ o # src
  BY DEF NonowningData
<1>2. Become(t)
  <2>1. Build(id) # NoDomain
    BY <1>1 DEF NonowningData
  <2>2. Constructed(o, [s |-> a, threw |-> FALSE], n, w)
    BY <2>1 DEF NonowningData
  <2> QED
    BY <2>2 DEF Constructed
<1>3. /\ id \in Ids /\ p \in Blocks \cup {Null} /\ m \in Nat /\ n \in Nat /\ w \in Nat
      /\ Now \in Store
  BY CShapes, HeldIs DEF CInv, Neat, Good, Domain
<1>4. e \in Domain /\ e.id = id
  BY <1>3, BuildHeld, HeldIs DEF Nonowning
<1> HIDE DEF e, p, m, n, w, id
<1>5. /\ a \in Store /\ a.heap = heap /\ a.obj[o].ptr = p /\ a.obj[o].dom = e /\ Framed(Now, a, o)
  BY <1>3, <1>4, SetMemFields, NowFields DEF AdoptMem
<1> HIDE DEF a
<1>6. /\ t.heap = heap /\ t.obj[o].ptr = p /\ t.obj[o].dom = e /\ t.obj[o].num = n /\ t.obj[o].width = w
      /\ Framed(a, t, o)
  BY <1>3, <1>5, ShapeFields
<1> HIDE DEF t
<1>7. t.obj[src] = obj[src]
  BY <1>1, <1>5, <1>6, NowFields DEF Framed
<1>8. Alike(Now, src, t, o) /\ Alike(Now, src, t, src)
  BY <1>6, <1>7, NowFields DEF Alike, Has, Tag, n, w, p
<1>9. Together(d.id, t.obj[o].dom.id)
  BY <1>4, <1>6, AccessTogether DEF id
<1>10. Returns(src, d, t, o)
  BY <1>8, <1>9, NowFields DEF Returns, Alike
<1> QED
  BY <1>2, <1>10

\* An object without data for a source without.
LEMMA EmptyReturns ==
  ASSUME CInv, Careful, NEW o \in Objs, NEW src \in Objs, o # src, NEW d \in Domains, ~Accessible(d, obj[src].dom),
         ~HasData(src), EmptyData(o, d, obj[src].num, obj[src].width)
  PROVE  \E t : Become(t) /\ Returns(src, d, t, o)
<1> DEFINE p == Null
           m == 0
           n == obj[src].num
           w == obj[src].width
           a == AdoptMem(Now, o, p, m, d)
           t == SetShape(a, o, n, w)
<1>1. Become(t)
  <2>1. Constructed(o, [s |-> a, threw |-> FALSE], n, w)
    BY DEF EmptyData
  <2> QED
    BY <2>1 DEF Constructed
<1>2. /\ p \in Blocks \cup {Null} /\ p = Null /\ m \in Nat /\ n \in Nat /\ w \in Nat
      /\ Now \in Store /\ d \in Domain
  BY CShapes DEF CInv, Neat, Good, Careful, Complete
<1> HIDE DEF p, m, n, w
<1>3. /\ a \in Store /\ a.heap = heap /\ a.obj[o].ptr = p /\ a.obj[o].dom = d /\ Framed(Now, a, o)
  BY <1>2, SetMemFields, NowFields DEF AdoptMem
<1> HIDE DEF a
<1>4. /\ t.heap = heap /\ t.obj[o].ptr = p /\ t.obj[o].dom = d /\ t.obj[o].num = n /\ t.obj[o].width = w
      /\ Framed(a, t, o)
  BY <1>2, <1>3, ShapeFields
<1> HIDE DEF t
<1>5. t.obj[src] = obj[src]
  BY <1>3, <1>4, NowFields DEF Framed
<1>6. ~Has(Now, src) /\ ~Has(t, o)
  BY <1>2, <1>4, NowFields DEF HasData, SizeInBytes, Has
<1>7. Alike(Now, src, t, o) /\ Alike(Now, src, t, src)
  BY <1>4, <1>5, <1>6, NowFields DEF Alike, Has, Tag, n, w
<1>8. Together(d.id, t.obj[o].dom.id)
  BY <1>4 DEF Together
<1>9. Returns(src, d, t, o)
  BY <1>7, <1>8, NowFields DEF Returns, Alike
<1> QED
  BY <1>1, <1>9

\* What was sent to a new buffer.
LEMMA SentReturns ==
  ASSUME CInv, Careful, NEW o \in Objs, NEW src \in Objs, o \notin live, o \in live', Given(src), HasData(src),
         NEW d \in Domains, ~Accessible(d, obj[src].dom), NEW ok \in BOOLEAN, NEW out \in Outcomes,
         SentTo(o, src, d, ok, out)
  PROVE  \E t : Become(t) /\ Returns(src, d, t, o)
<1> DEFINE n == obj[src].num
           w == obj[src].width
           size == SizeInBytes(src)
           a == OwningMem(Now, o, size, d, TRUE)
           v == SetShape(a.s, o, n, w)
           m == Send(v, o, src, out)
           z == [FreeMem(a.s, o) EXCEPT !.obj[o] = NoObject]
           r == IF a.threw THEN a ELSE IF m.threw THEN [s |-> z, threw |-> TRUE] ELSE m
           t == SetShape(m.s, o, n, w)
<1>1. ok = TRUE /\ Room(Now) /\ o # src /\ MayEnd(obj[src].dom.id, d.id, out)
  BY CarefulAllocates DEF SentTo, Given
<1>2. Constructed(o, r, n, w)
  BY <1>1 DEF SentTo
<1>3. n \in Nat /\ w \in Nat /\ size \in Nat /\ size = n * w /\ Complete(d) /\ d \in Domain
  BY CShapes DEF SizeInBytes, Careful, Complete
<1>4. a = [s |-> a.s, threw |-> FALSE] /\ Filled(Now, a.s, o, size, d)
  <2> HIDE DEF size
  <2> QED
    BY <1>1, <1>3, NotLive, OwningNeat
<1> HIDE DEF a
<1>5. /\ Neat(v, Objs, {}) /\ Framed(Now, v, o)
      /\ v.obj[o].num = n /\ v.obj[o].width = w
      /\ InRange(v, v.obj[o].ptr, size) /\ InRange(v, v.obj[src].ptr, size)
  <2>1. o # src /\ Given(src) /\ HasData(src) /\ Filled(Now, a.s, o, SizeInBytes(src), d)
    BY <1>1, <1>4
  <2> QED
    BY <2>1, FilledInRange
<1>6. obj[src].ptr \in Blocks /\ heap[obj[src].ptr].st = "live" /\ v.obj[src] = obj[src]
  BY <1>1, <1>5, GivenInRange, NowFields DEF Framed
<1>7. /\ v.heap = a.s.heap /\ v.obj[o].ptr = a.s.obj[o].ptr /\ v.obj[o].dom = d
  <2>1. a.s \in Store /\ a.s.obj[o].dom = d
    BY <1>4 DEF Filled, Neat, Good
  <2> DEFINE q == a.s
  <2>2. q \in Store /\ n \in Nat /\ w \in Nat
    BY <1>3, <2>1
  <2> HIDE DEF n, w, q
  <2>3. LET u == SetShape(q, o, n, w)
        IN  u.heap = q.heap /\ u.obj[o].ptr = q.obj[o].ptr /\ u.obj[o].dom = q.obj[o].dom
    BY <2>2, ShapeFields
  <2> QED
    BY <2>1, <2>3 DEF q
<1>8. Tag(v, src) = Tag(Now, src) /\ v.obj[o].ptr # v.obj[src].ptr /\ v.obj[o].ptr # Null
  BY <1>4, <1>6, <1>7, NullAssumption, NowFields DEF Filled, Tag
<1> HIDE DEF v, size
<1>9. /\ m = [s |-> m.s, threw |-> TRUE] \/ m = [s |-> m.s, threw |-> FALSE]
      /\ m.s.obj = v.obj /\ Neat(m.s, Objs, {})
      /\ m = [s |-> m.s, threw |-> FALSE] =>
           /\ out # "failed"
           /\ out = "sent" => Tag(m.s, o) = Tag(v, src)
           /\ Tag(m.s, src) = Tag(v, src)
  <2>1. /\ InRange(v, v.obj[o].ptr, v.obj[o].num * v.obj[o].width)
        /\ InRange(v, v.obj[src].ptr, v.obj[o].num * v.obj[o].width)
    BY <1>3, <1>5
  <2>2. LET c == Send(v, o, src, out)
        IN  /\ c = [s |-> c.s, threw |-> TRUE] \/ c = [s |-> c.s, threw |-> FALSE]
            /\ Neat(c.s, Objs, {}) /\ c.s.obj = v.obj
    BY <1>5, <2>1, SendNeat
  <2> QED
    BY <1>5, <1>8, <2>1, <2>2, SendTag
<1> HIDE DEF m, n, w
<1>10. m = [s |-> m.s, threw |-> FALSE]
  <2> SUFFICES ASSUME m = [s |-> m.s, threw |-> TRUE] PROVE FALSE
    BY <1>9
  <2>1. r = [s |-> z, threw |-> TRUE]
    BY <1>4
  <2> HIDE DEF r
  <2>2. UNCHANGED live
    BY <1>2, <2>1 DEF Constructed
  <2> QED
    BY <2>2
<1>11. r = m
  BY <1>4, <1>10
<1> HIDE DEF r
<1>12. Become(t)
  BY <1>2, <1>10, <1>11 DEF Constructed
<1>13. /\ t.heap = m.s.heap /\ t.obj[o].ptr = v.obj[o].ptr /\ t.obj[o].dom = d
       /\ t.obj[o].num = n /\ t.obj[o].width = w
       /\ Framed(m.s, t, o)
  <2>1. m.s \in Store
    BY <1>9 DEF Neat, Good
  <2> DEFINE q == m.s
  <2>2. q \in Store /\ n \in Nat /\ w \in Nat
    BY <1>3, <2>1
  <2> HIDE DEF q
  <2>3. LET u == SetShape(q, o, n, w)
        IN  /\ u.heap = q.heap /\ u.obj[o].ptr = q.obj[o].ptr /\ u.obj[o].dom = q.obj[o].dom
            /\ u.obj[o].num = n /\ u.obj[o].width = w /\ Framed(q, u, o)
    BY <2>2, ShapeFields
  <2> QED
    BY <1>7, <1>9, <2>3 DEF q
<1> HIDE DEF t
<1>14. t.obj[src] = obj[src]
  BY <1>1, <1>6, <1>9, <1>13 DEF Framed
<1>15. Tag(t, src) = Tag(Now, src) /\ (out = "sent" => Tag(t, o) = Tag(Now, src))
  BY <1>6, <1>8, <1>9, <1>10, <1>13, <1>14 DEF Tag
<1>16. Alike(Now, src, t, src)
  BY <1>14, <1>15, NowFields DEF Alike, Has
<1>17. Has(t, o) <=> Has(Now, src)
  BY <1>6, <1>8, <1>13, NullAssumption, NowFields DEF Has, n, w
<1>18. Together(d.id, obj[src].dom.id) \/ Directed(obj[src].dom.id, d.id) => out = "sent"
  <2>1. ~Together(d.id, obj[src].dom.id)
    BY AccessTogether
  <2> QED
    BY <1>1, <1>9, <1>10, <2>1 DEF MayEnd, Outcomes
<1>19. Returns(src, d, t, o)
  BY <1>13, <1>15, <1>16, <1>17, <1>18, NowFields DEF Returns, Alike, Together, n, w
<1> QED
  BY <1>12, <1>19

\* What was assigned to a new buffer.
LEMMA CopyReturns ==
  ASSUME CInv, Careful, NEW o \in Objs, NEW src \in Objs, NEW d \in Domains, Accessible(d, obj[src].dom),
         NEW ok \in BOOLEAN, NEW out, CopyTo(o, d, src, ok, out)
  PROVE  \E t : Become(t) /\ Returns(src, d, t, o)
<1> DEFINE n == obj[src].num
           w == obj[src].width
           size == SizeInBytes(src)
           a == OwningMem(Now, o, size, d, TRUE)
           c == AssignMem(a.s, o, src, TRUE)
           r == IF a.threw THEN a ELSE c
           t == SetShape(c.s, o, n, w)
<1>1. /\ o \notin live /\ o # src /\ HasData(src) /\ Given(src) /\ CopySource(src) /\ MayAllocate(ok)
  BY DEF CopyTo, Given
<1>2. ok = TRUE /\ Room(Now)
  BY <1>1, CarefulAllocates
<1>3. /\ obj[src].cap > size => Room(a.s)
      /\ obj[src].dom.id = d.id
      /\ Constructed(o, r, n, w)
  BY <1>2, CarefulMay DEF CopyTo
<1>4. /\ n \in Nat /\ w \in Nat /\ size \in Nat /\ size = n * w /\ size > 0
      /\ obj[src].cap \in Nat /\ Complete(d) /\ d \in Domain
  BY <1>1, CShapes DEF HasData, SizeInBytes, Careful, Complete
<1>5. Usable(Now, src) /\ size <= obj[src].cap
  BY <1>1, SourceUsable
<1>6. obj[src].ptr \in Blocks /\ heap[obj[src].ptr].st = "live"
  BY <1>1, GivenInRange
<1> HIDE DEF size, n, w
<1>7. a = [s |-> a.s, threw |-> FALSE] /\ Filled(Now, a.s, o, size, d)
  BY <1>1, <1>2, <1>4, NotLive, OwningNeat
<1> HIDE DEF a
<1>8. /\ Neat(a.s, Objs, {}) /\ a.s.obj[src] = obj[src]
      /\ a.s.obj[o].cap = size /\ a.s.obj[o].dom = d
      /\ a.s.obj[o].ptr \in Blocks
      /\ a.s.heap[a.s.obj[o].ptr].st = "live" /\ a.s.heap[a.s.obj[o].ptr].cap = size
      /\ a.s.heap[obj[src].ptr] = heap[obj[src].ptr]
  BY <1>1, <1>6, <1>7, NowFields DEF Filled, Framed
<1>9. Usable(a.s, o) /\ Usable(a.s, src)
  BY <1>4, <1>5, <1>6, <1>8, NullAssumption, NowFields DEF Usable
<1>10. Room(a.s) \/ ~(a.s.obj[o].cap < a.s.obj[src].cap)
  BY <1>3, <1>4, <1>8
<1>11. c.threw = FALSE /\ Taken(a.s, c.s, o, src)
  <2>1. a.s.obj[o].dom.id = a.s.obj[src].dom.id /\ Complete(a.s.obj[o].dom)
    BY <1>3, <1>4, <1>8
  <2> QED
    BY <1>1, <1>8, <1>9, <1>10, <2>1, AssignNeat
<1>12. /\ c.s.obj[o].ptr # Null /\ c.s.obj[o].dom = d
       /\ Tag(c.s, o) = Tag(a.s, src) /\ Tag(c.s, src) = Tag(a.s, src)
  <2>1. Complete(a.s.obj[o].dom) /\ a.s.obj[src].cap # 0
    BY <1>4, <1>5, <1>8
  <2>2. LET u == AssignMem(a.s, o, src, TRUE).s
        IN  /\ u.obj[o].ptr # Null /\ u.obj[o].dom = a.s.obj[o].dom
            /\ Tag(u, o) = Tag(a.s, src) /\ Tag(u, src) = Tag(a.s, src)
    BY <1>1, <1>8, <1>9, <1>10, <2>1, AssignTag
  <2> QED
    BY <1>8, <2>2
<1>13. r = c
  BY <1>7
<1> HIDE DEF r, c
<1>14. Become(t)
  BY <1>3, <1>11, <1>13 DEF Constructed
<1>15. /\ t.heap = c.s.heap /\ t.obj[o].ptr = c.s.obj[o].ptr /\ t.obj[o].dom = d
       /\ t.obj[o].num = n /\ t.obj[o].width = w
       /\ Framed(c.s, t, o)
  <2>1. c.s \in Store
    BY <1>11 DEF Taken, Neat, Good
  <2> DEFINE q == c.s
  <2>2. q \in Store /\ n \in Nat /\ w \in Nat
    BY <1>4, <2>1
  <2> HIDE DEF q
  <2>3. LET u == SetShape(q, o, n, w)
        IN  /\ u.heap = q.heap /\ u.obj[o].ptr = q.obj[o].ptr /\ u.obj[o].dom = q.obj[o].dom
            /\ u.obj[o].num = n /\ u.obj[o].width = w /\ Framed(q, u, o)
    BY <2>2, ShapeFields
  <2> QED
    BY <1>12, <2>3 DEF q
<1> HIDE DEF t
<1>16. t.obj[src] = obj[src] /\ c.s.obj[src] = obj[src]
  BY <1>1, <1>8, <1>11, <1>15 DEF Taken, Framed
<1>17. Tag(t, src) = Tag(Now, src) /\ Tag(t, o) = Tag(Now, src)
  BY <1>8, <1>12, <1>15, <1>16, NowFields DEF Tag
<1>18. Has(t, o) /\ Has(Now, src)
  BY <1>1, <1>4, <1>6, <1>12, <1>15, NullAssumption, NowFields DEF Has, n, w
<1>19. Alike(Now, src, t, src) /\ Alike(Now, src, t, o)
  BY <1>15, <1>16, <1>17, <1>18, NowFields DEF Alike, Has, n, w
<1>20. Returns(src, d, t, o)
  BY <1>15, <1>18, <1>19, NowFields DEF Returns, Together, n, w
<1> QED
  BY <1>14, <1>20

\* make_readable and copy_to, however they go.
LEMMA ManagerReturns ==
  ASSUME CInv, Careful, NEW o \in Objs, NEW src \in Objs, o \in live', o \notin live, src \in live,
         NEW d \in Domains, NEW ok \in BOOLEAN, NEW out \in Outcomes,
         Readable(o, d, src, ok, out) \/ CopyTo(o, d, src, ok, out)
  PROVE  \E t : Become(t) /\ Returns(src, d, t, o)
<1>1. CASE Accessible(d, obj[src].dom) /\ Readable(o, d, src, ok, out)
  BY <1>1, ViewReturns DEF Readable
<1>2. CASE Accessible(d, obj[src].dom) /\ CopyTo(o, d, src, ok, out)
  BY <1>2, CopyReturns
<1>3. CASE ~Accessible(d, obj[src].dom) /\ SentTo(o, src, d, ok, out) /\ Given(src) /\ HasData(src)
  BY <1>3, SentReturns
<1>4. CASE ~Accessible(d, obj[src].dom) /\ ~HasData(src) /\ EmptyData(o, d, obj[src].num, obj[src].width)
  BY <1>4, EmptyReturns
<1> QED
  BY <1>1, <1>2, <1>3, <1>4 DEF Readable, CopyTo

-----------------------------------------------------------------------------
LEMMA CInvInit == Init => CInv
<1> SUFFICES ASSUME Init PROVE CInv
  OBVIOUS
<1>1. /\ heap = [b \in Blocks |-> UnusedBlock] /\ obj = [o \in Objs |-> NoObject]
      /\ live = {} /\ caller = {} /\ faults = {}
  BY DEF Init
<1>2. IInv
  BY InitInv
<1>3. \A o \in Objs : Now.obj[o] = NoObject
  BY <1>1, NowFields
<1>4. \A o \in Objs : Sized(Now, o) /\ Shaped(Now, o)
  BY <1>3, NoObjectFits DEF Sized
<1>5. \A b \in Blocks : Now.heap[b].st # "live"
  BY <1>1, NowFields DEF UnusedBlock
<1>6. Neat(Now, Objs, {})
  BY <1>2, <1>4, <1>5 DEF IInv, Neat, Now
<1> QED
  BY <1>1, <1>2, <1>4, <1>6 DEF IInv, CInv

LEMMA CInvNext ==
  ASSUME CInv, Careful, [ManagedNext]_vars
  PROVE  CInv'
<1>1. CASE UNCHANGED vars
  BY <1>1, SameNeat DEF vars, CInv
<1>2. ASSUME NEW o \in Objs, Construct(o) \/ Change(o) PROVE CInv'
  BY <1>2, ConstructNeat, ChangeNeat
<1>3. ASSUME NEW k \in CallerKinds, NEW n \in Sizes, CallerAlloc(k, n) PROVE CInv'
  BY <1>3, CallerAllocNeat
<1>4. ASSUME NEW b \in Blocks, CallerFree(b) PROVE CInv'
  BY <1>4, CallerFreeNeat
<1>5. ASSUME NEW o \in Objs, NEW src \in Objs, Manage(o, src) PROVE CInv'
  BY <1>5, ManageNeat
<1> QED
  BY <1>1, <1>2, <1>3, <1>4, <1>5 DEF ManagedNext, Next

\* The step of the invariant, of contents.
LEMMA StepDelivers ==
  ASSUME CInv, Careful, [ManagedNext]_vars
  PROVE  Delivers
<1>1. live \subseteq Objs /\ live' \subseteq Objs
  BY CInvNext DEF CInv, TypeOK
<1>2. ASSUME NEW o \in live, NEW src \in live, CopyAssign(o, src, TRUE), HasDomain(o),
             obj[o].dom.prefix # "nonowning"
      PROVE  Contents(o)' = Contents(src) /\ HasData(o)' = HasData(src)
  <2> DEFINE ok == TRUE
  <2>1. ok \in BOOLEAN /\ CopyAssign(o, src, ok)
    BY <1>2
  <2> HIDE DEF ok
  <2> QED
    BY <1>1, <1>2, <2>1, AssignArrives
<1>3. ASSUME NEW o \in live' \ live, NEW src \in live, NEW d \in Domains,
             \E ok \in BOOLEAN, out \in Outcomes : Readable(o, d, src, ok, out) \/ CopyTo(o, d, src, ok, out)
      PROVE  /\ Together(d.id, obj'[o].dom.id)
             /\ obj'[o].num = obj[src].num /\ obj'[o].width = obj[src].width
             /\ Contents(src)' = Contents(src) /\ HasData(o)' = HasData(src)
             /\ Together(d.id, obj[src].dom.id) \/ Directed(obj[src].dom.id, d.id) => Contents(o)' = Contents(src)
  <2>1. PICK t : Become(t) /\ Returns(src, d, t, o)
    <3>1. PICK ok \in BOOLEAN, out \in Outcomes : Readable(o, d, src, ok, out) \/ CopyTo(o, d, src, ok, out)
      BY <1>3, Zenon
    <3> QED
      BY <1>1, <3>1, ManagerReturns
  <2>2. obj' = t.obj
    BY <2>1 DEF Become
  <2>3. Contents(src)' = Contents(src)
    BY <2>1, AlikeData DEF Returns
  <2>4. HasData(o)' <=> HasData(src)
    <3>1. HasData(o)' <=> Has(t, o)
      BY <2>1, HeldNow
    <3>2. HasData(src) <=> Has(Now, src)
      BY <2>1, HeldNow
    <3> QED
      BY <2>1, <3>1, <3>2 DEF Returns
  <2>5. Together(d.id, obj[src].dom.id) \/ Directed(obj[src].dom.id, d.id) => Contents(o)' = Contents(src)
    BY <2>1, AlikeData DEF Returns
  <2>6. HasData(o)' = HasData(src)
    BY <2>4 DEF HasData
  <2> QED
    BY <2>1, <2>2, <2>3, <2>5, <2>6 DEF Returns
<1> QED
  BY <1>2, <1>3, Zenon DEF Delivers

LEMMA CInvImplies ==
  ASSUME CInv
  PROVE  NoLeak /\ CapacityTrue /\ OwnedOnce
<1>1. NoLeak
  BY NowFields DEF CInv, Neat, NoLeak, Owned
<1>2. ContractKept
  BY DEF CInv, ContractKept, FreedAtItsSize, CopiesInRange, CopiesInDomain
<1>3. ASSUME NEW o \in live, HasData(o), NotDangling(o)
      PROVE  SizeInBytes(o) <= obj[o].cap /\ SizeInBytes(o) <= heap[obj[o].ptr].cap
  <2>1. o \in Objs
    BY DEF CInv, TypeOK
  <2>2. obj[o].ptr # Null /\ heap[obj[o].ptr].st = "live"
    BY <1>3 DEF HasData, NotDangling
  <2>3. /\ SizeInBytes(o) \in Nat /\ obj[o].cap \in Nat /\ heap[obj[o].ptr].cap \in Nat
        /\ SizeInBytes(o) <= obj[o].cap /\ obj[o].cap <= heap[obj[o].ptr].cap
    BY <2>1, <2>2, CShapes
  <2> QED
    BY <2>3
<1>4. SizeWithinCapacity
  BY <1>3 DEF SizeWithinCapacity
<1>5. OwnedOnce
  BY CInvIInv, IInvImplies DEF OwnedOnce
<1> QED
  BY <1>1, <1>2, <1>4, <1>5 DEF CapacityTrue

-----------------------------------------------------------------------------
\* The invariant of a careful program, with the domain manager or without it.
THEOREM CarefulInductive ==
  ASSUME Careful
  PROVE  ManagedSpec => []CInv
<1>1. CInv /\ [ManagedNext]_vars => CInv'
  BY CInvNext
<1> QED
  BY <1>1, CInvInit, PTL DEF ManagedSpec

\* No allocated block is lost: an object or the caller answers for it until it is freed, through copies that
\* grow, moves, views, sends that throw after they allocated, and the caller's own buffers handed in
\* (~pressio_memory "frees a pressio_memory"; a constructor that throws destroys the members it had built).
THEOREM NothingLeaks ==
  ASSUME Careful
  PROVE  ManagedSpec => []NoLeak
<1>1. CInv => NoLeak
  BY CInvImplies
<1> QED
  BY <1>1, CarefulInductive, PTL

\* Every capacity is the truth about its block: domains are told to free what they were asked to allocate, copy
\* within both buffers and within one domain, and no object states a shape larger than its buffer
\* (pressio_memory's operator=, set_dimensions, reset; pressio_domain::memcpy's and free's contracts).
THEOREM CapacityKept ==
  ASSUME Careful
  PROVE  ManagedSpec => []CapacityTrue
<1>1. CInv => CapacityTrue
  BY CInvImplies
<1> QED
  BY <1>1, CarefulInductive, PTL

\* Ownership extends to the manager's operations: what make_readable, make_writeable and copy_to build or take
\* over has one owner too, and is freed by the kind of allocator it came from (pressio_domain_manager).
THEOREM ManagedOwnership ==
  ASSUME Careful
  PROVE  ManagedSpec => []OwnedOnce
<1>1. CInv => OwnedOnce
  BY CInvImplies
<1> QED
  BY <1>1, CarefulInductive, PTL

\* Contents survive: a copy assignment leaves the left side with the shape and the contents of the right, grown or
\* not and itself or not; what make_readable and copy_to return, a view, a copy or what was sent, lies in reach of
\* the domain asked for and is like its source, which they leave alone (pressio_memory's operator=, and
\* pressio_domain_manager; for a send in the wrong direction, all but the contents).
THEOREM ContentsArrive ==
  ASSUME Careful
  PROVE  ManagedSpec => Arrives
<1>1. CInv /\ [ManagedNext]_vars => Delivers
  BY StepDelivers
<1>2. CInv /\ [ManagedNext]_vars => [Delivers]_vars
  BY <1>1
<1> QED
  BY <1>2, CarefulInductive, PTL DEF ManagedSpec, Arrives
=============================================================================

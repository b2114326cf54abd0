---------------------------- MODULE DomainManager ----------------------------
(***************************************************************************)
(* pressio_domain_manager beside the operations of pressio_data: a program *)
(* asks it for data in a domain, and gets a view where the domain can      *)
(* reach the data, else a buffer of the domain that the data are sent to.  *)
(* (copy_to into a pressio_data is left out: it hands an lvalue on where   *)
(* an rvalue is asked for, and cannot be called.)                          *)
(***************************************************************************)
EXTENDS PressioData

\* is_accessible: one id, or pinned and pageable memory of the host
Accessible_Any(d, e) == TRUE
Accessible(d, e) == d.id = e.id \/ {d.id, e.id} = {"malloc", "cudamallochost"}

(***************************************************************************)
(* Sending.                                                                *)
(***************************************************************************)

\* The direction a registered sender copies in.
Direction(from, to) ==
  CASE <<from, to>> = <<"malloc", "cudamalloc">>         -> "to device"
    [] <<from, to>> = <<"cudamalloc", "malloc">>         -> "to host"
    [] <<from, to>> = <<"cudamallochost", "cudamalloc">> -> "to host"
    [] <<from, to>> = <<"cudamalloc", "cudamallochost">> -> "to device"
    [] OTHER -> "none"

\* The senders of pinned memory have their directions swapped.
Directed(from, to) == Direction(from, to) = IF to = "cudamalloc" THEN "to device" ELSE "to host"

\* cudaMemcpy may fail; in the wrong direction it may also do anything to its destination.
Outcomes == {"sent", "failed", "garbled"}

\* send(dst, src): as many bytes as the destination has.
Send(s, dst, src, out) ==
  LET from == s.obj[src].dom.id
      to   == s.obj[dst].dom.id
      n    == s.obj[dst].num * s.obj[dst].width
  IN  IF Direction(from, to) = "none" \/ out = "failed" THEN [s |-> s, threw |-> TRUE]
      ELSE [threw |-> FALSE,
            s |-> IF ~(InRange(s, s.obj[dst].ptr, n) /\ InRange(s, s.obj[src].ptr, n))
                  THEN [s EXCEPT !.faults = @ \cup {"copy_range"}]
                  ELSE [s EXCEPT !.heap[s.obj[dst].ptr].tag =
                          IF out = "sent" THEN s.heap[s.obj[src].ptr].tag ELSE "junk"]]

\* An outcome send can have.
MayEnd(from, to, out) == out = "garbled" => ~Directed(from, to)

\* A branch that neither allocates nor sends has one outcome.
Sure(ok, out) == ok /\ out = "sent"

\* A constructor followed by a send: what throws leaves no object and no buffer.
SentTo(o, src, d, ok, out) ==
  LET a == OwningMem(Now, o, SizeInBytes(src), d, ok)
      m == Send(SetShape(a.s, o, obj[src].num, obj[src].width), o, src, out)
  IN  /\ MayAllocate(ok) /\ MayEnd(obj[src].dom.id, d.id, out)
      /\ Constructed(o, IF a.threw THEN a
                        ELSE IF m.threw THEN [s |-> [FreeMem(a.s, o) EXCEPT !.obj[o] = NoObject], threw |-> TRUE]
                        ELSE m, obj[src].num, obj[src].width)

-----------------------------------------------------------------------------
\* What a program hands to the manager: an object that has a domain, and whose data are there.
Given(src) == src \in live /\ HasDomain(src) /\ NotDangling(src) /\ SizeInBytes(src) <= obj[src].cap

\* make_readable(domain, src)
Readable(o, d, src, ok, out) ==
  /\ o \notin live /\ Given(src)
  /\ IF Accessible(d, obj[src].dom) THEN Sure(ok, out) /\ NonowningData(o, src)
     ELSE IF HasData(src) THEN SentTo(o, src, d, ok, out)
     ELSE Sure(ok, out) /\ EmptyData(o, d, obj[src].num, obj[src].width)

\* make_readable(dst, src), assigned to dst.  Only a destination without data is given a buffer, and one that
\* could not be filled stays.
ReadableInto(o, src, ok, out) ==
  LET view   == AdoptMem(Now, o, obj[src].ptr, SizeInBytes(src), Nonowning(obj[src].dom.id))
      room   == OwningMem(Now, o, SizeInBytes(src), obj[o].dom, ok)
      shaped == SetShape(room.s, o, obj[src].num, obj[src].width)
      shape(s) == Become(SetShape(s, o, obj[src].num, obj[src].width))
  IN  /\ o \in live /\ o # src /\ Given(src) /\ HasDomain(o) /\ NotDangling(o)
      /\ obj[o].ptr # Null => SizeInBytes(o) <= obj[o].cap
      /\ UNCHANGED live
      /\ IF Accessible(obj[o].dom, obj[src].dom)
         THEN Sure(ok, out) /\ Build(obj[src].dom.id) # NoDomain /\ (Owns(Now, o) => May("move_over")) /\ shape(view)
         ELSE IF ~HasData(src)
         THEN Sure(ok, out) /\ (Owns(Now, o) => May("move_over")) /\ shape(AdoptMem(Now, o, Null, 0, obj[o].dom))
         ELSE /\ MayEnd(obj[src].dom.id, obj[o].dom.id, out)
              /\ IF HasData(o)
                 THEN /\ SizeInBytes(o) # SizeInBytes(src) => May("misfit")
                      /\ ok /\ Become(Send(Now, o, src, out).s)
                 ELSE /\ Owns(Now, o) => May("move_over")
                      /\ MayAllocate(ok)
                      /\ Become(IF room.threw THEN room.s ELSE Send(shaped, o, src, out).s)

\* copy_to(domain, src): refused without data; what the domain can reach is assigned to a new buffer.
CopyTo(o, d, src, ok, out) ==
  /\ o \notin live /\ Given(src) /\ HasData(src)
  /\ IF Accessible(d, obj[src].dom)
     THEN LET a == OwningMem(Now, o, SizeInBytes(src), d, ok)
          IN  /\ CopySource(src) /\ MayAllocate(ok) /\ out = "sent"
              /\ obj[src].cap > SizeInBytes(src) => Room(a.s)
              /\ obj[src].dom.id # d.id => May("cross_domain")
              /\ Constructed(o, IF a.threw THEN a ELSE AssignMem(a.s, o, src, ok), obj[src].num, obj[src].width)
     ELSE SentTo(o, src, d, ok, out)

\* make_writeable(domain, src): a buffer of the same shape.
Writeable(o, d, src, ok) == src \in live /\ OwningData(o, d, obj[src].num, obj[src].width, ok)

\* make_writeable(domain, std::move(src)), and copy_to: the buffer itself where the domain can reach it.
Handed(o, d, src) ==
  /\ Given(src) /\ HasData(src) /\ Accessible(d, obj[src].dom)
  /\ MoveConstruct(o, src)

Manage(o, src) ==
  \/ \E d \in Domains, ok \in BOOLEAN, out \in Outcomes :
       Readable(o, d, src, ok, out) \/ CopyTo(o, d, src, ok, out)
  \/ \E ok \in BOOLEAN, out \in Outcomes : ReadableInto(o, src, ok, out)
  \/ \E d \in Domains, ok \in BOOLEAN : Writeable(o, d, src, ok)
  \/ \E d \in Domains : Handed(o, d, src)

ManagedNext == Next \/ \E o, src \in Objs : Manage(o, src)
ManagedSpec == Init /\ [][ManagedNext]_vars

-----------------------------------------------------------------------------
\* The same device, or both of the host.
Together(a, b) == a = b \/ {a, b} \subseteq {"malloc", "cudamallochost"}

\* What make_readable and copy_to return lies where the domain asked for can reach it, has the shape and the
\* contents of the source, and leaves those alone, whether it is a view or was sent; a copy assignment carries
\* as much.  (A sender of the wrong direction promises nothing of the contents.)
Delivers ==
  /\ \A o, src \in live : CopyAssign(o, src, TRUE) /\ HasDomain(o) /\ obj[o].dom.prefix # "nonowning"
       => Contents(o)' = Contents(src) /\ HasData(o)' = HasData(src)
  /\ \A o \in live' \ live, src \in live, d \in Domains :
       (\E ok \in BOOLEAN, out \in Outcomes : Readable(o, d, src, ok, out) \/ CopyTo(o, d, src, ok, out))
       => /\ Together(d.id, obj'[o].dom.id)
          /\ obj'[o].num = obj[src].num /\ obj'[o].width = obj[src].width
          /\ Contents(src)' = Contents(src) /\ HasData(o)' = HasData(src)
          /\ Together(d.id, obj[src].dom.id) \/ Directed(obj[src].dom.id, d.id) => Contents(o)' = Contents(src)
Arrives == [][Delivers]_vars
=============================================================================

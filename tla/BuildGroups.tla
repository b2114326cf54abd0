---------------------------- MODULE BuildGroups ----------------------------
(***************************************************************************)
(* distributed_build_groups: which ranks of a communicator are masters     *)
(* (group 0) and which worker group each of the others belongs to.         *)
(*                                                                         *)
(* Its arguments are unsigned ints: their sum wraps at Word.               *)
(***************************************************************************)
EXTENDS Naturals, FiniteSets

CONSTANTS
  Word,     \* 2^32, the number of values of an unsigned int
  Nullopt   \* the empty optional

ASSUME WordAssumption == Word \in Nat \ {0}
ASSUME NulloptAssumption == Nullopt \notin Nat

Ranks(size) == 0..(size - 1)

\* The ranks below Masters(m) stay masters; with no number given there is one.
Masters(m) == IF m = 0 THEN 1 ELSE m

\* With no number given every remaining rank is a group of its own.
WorkerGroups(size, w, m) == IF w = 0 THEN size - Masters(m) ELSE w

\* With a number of groups but none of masters the groups get equal sizes, and
\* the ranks from LastWorker on are masters as well.
LastWorker(size, w, m) ==
  IF w # 0 /\ m = 0 THEN (((size - 1) \div w) * w) + 1 ELSE size

\* Mutant: a list with one entry too many.
Assigned_TooLong(size, w, m) ==
  [i \in 0..size |->
     IF i < Masters(m) \/ i >= LastWorker(size, w, m) THEN 0
     ELSE ((i - Masters(m)) % WorkerGroups(size, w, m)) + 1]

\* Mutant: the last group takes every rank that is left over.
Assigned_LastTakesRest(size, w, m) ==
  [i \in Ranks(size) |->
     IF i < Masters(m) \/ i >= LastWorker(size, w, m) THEN 0
     ELSE IF i - Masters(m) < WorkerGroups(size, w, m) THEN i - Masters(m) + 1
     ELSE WorkerGroups(size, w, m)]

\* The assignment before the root is made a master.
Assigned(size, w, m) ==
  [i \in Ranks(size) |->
     IF i < Masters(m) \/ i >= LastWorker(size, w, m) THEN 0
     ELSE ((i - Masters(m)) % WorkerGroups(size, w, m)) + 1]

\* Mutant: the root is made a master, and rank 0 stays one.
SwapRoot_Overwrites(g, root) == [g EXCEPT ![root] = g[0]]

SwapRoot(g, root) == [g EXCEPT ![root] = g[0], ![0] = g[root]]

\* What the function refuses.
Refused(size, w, m, root) ==
  \/ size < (w + m) % Word
  \/ w = size \/ m = size
  \/ root >= size

Build(size, w, m, root) ==
  IF size <= 1 THEN [i \in {0} |-> 0]
  ELSE IF Refused(size, w, m, root) THEN Nullopt
  ELSE SwapRoot(Assigned(size, w, m), root)

-----------------------------------------------------------------------------
(***************************************************************************)
(* What the caller of an assignment g relies on.                           *)
(***************************************************************************)
InGroup(g, k) == {i \in DOMAIN g : g[i] = k}
GroupIds(g)   == {g[i] : i \in DOMAIN g} \ {0}

\* As many groups as asked for, numbered from 1 without a gap.
Numbered(g, w) == GroupIds(g) = 1..w
=============================================================================

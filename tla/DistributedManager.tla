------------------------- MODULE DistributedManager -------------------------
(***************************************************************************)
(* pressio_distributed_manager: which communicator a plugin works on, which *)
(* of its ranks is the root, and which group each rank is in.  set_options  *)
(* changes them; work_queue hands "groups" to MPI_Comm_split.               *)
(*                                                                         *)
(* A communicator is abstracted to its size.                               *)
(***************************************************************************)
EXTENDS BuildGroups

CONSTANTS
  Sizes,      \* the sizes of the communicators there are, a bound
  Counts,     \* the numbers of masters or worker groups asked for, a bound
  Lists,      \* the distributed:groups asked for, a bound
  Liberties   \* what the caller does that a careful one would not, see below

ASSUME SizesAssumption == Sizes \subseteq 1..(Word - 1) /\ Counts \subseteq 0..(Word - 1)

ASSUME NulloptNotGroups == \A s \in Sizes \cup {1} : Nullopt \notin [Ranks(s) -> Nat]

ASSUME ListsAssumption == \A g \in Lists : \E s \in Sizes : g \in [Ranks(s) -> Nat]

(***************************************************************************)
(* The liberties a caller may take:                                        *)
(*   before_init  it builds the manager before MPI_Init                    *)
(*   root_alone   it sets a root without numbers or groups                 *)
(*   comm_alone   it sets a communicator without numbers or groups         *)
(*   both         it sets both numbers, to others than 1 and the rest        *)
(*   too_many     it asks for more ranks than there are                    *)
(***************************************************************************)
ASSUME LibertyAssumption ==
  Liberties \subseteq {"before_init", "root_alone", "comm_alone", "both", "too_many"}

May(l) == l \in Liberties

VARIABLES
  comm,     \* the size of the communicator
  root,     \* distributed:root
  groups,   \* distributed:groups
  nWorkers, \* distributed:n_worker_groups
  nMasters, \* distributed:n_masters
  asked     \* history: the numbers the caller last asked for

vars == <<comm, root, groups, nWorkers, nMasters, asked>>

Optional(S) == S \cup {Nullopt}
Given(v)    == v # Nullopt
Or(v, w)    == IF Given(v) THEN v ELSE w

NothingAsked == [workers |-> Nullopt, masters |-> Nullopt]

\* The groups a rebuilt manager has: the old ones when the numbers are refused.
Rebuilt(size, w, m, r) == Or(Build(size, w, m, r), groups)

-----------------------------------------------------------------------------
\* A careful caller's numbers fit the communicator and leave a master and a worker.
Fits(size, w, m) == m # 0 /\ Or(w, 1) + Or(m, 1) <= size

Careful(o) ==
  LET size == Or(o.comm, comm)
      told == Given(o.workers) \/ Given(o.masters) \/ Given(o.groups)
  IN /\ (Given(o.root) \/ Given(o.comm)) => Or(o.root, root) < size
     /\ Given(o.root) => told \/ May("root_alone")
     /\ Given(o.comm) => told \/ May("comm_alone")
     /\ (Given(o.workers) /\ Given(o.masters)) =>
          (o.masters = 1 /\ o.workers = size - 1) \/ May("both")
     /\ (Given(o.workers) \/ Given(o.masters)) =>
          Fits(size, o.workers, o.masters) \/ May("too_many")
     /\ Given(o.groups) => /\ DOMAIN o.groups = Ranks(size)
                           /\ o.groups[Or(o.root, root)] = 0
                           /\ size > 1 => GroupIds(o.groups) # {}

\* The constructor: MPI_COMM_WORLD, one master, every other rank on its own. Before
\* MPI_Init the world is taken to have one rank.
Init ==
  /\ comm \in Sizes
  /\ root = 0
  /\ \E size \in {comm} \cup {1 : l \in Liberties \cap {"before_init"}} :
       groups = Build(size, 0, 0, 0)
  /\ nWorkers = 0 /\ nMasters = 0
  /\ asked = NothingAsked

\* set_options given groups: they are taken as they are.
SetGroups(o) ==
  /\ Given(o.groups)
  /\ groups' = o.groups
  /\ nWorkers' = Nullopt /\ nMasters' = Nullopt

\* Given both numbers neither is used: one master, and a group for each other rank.
SetBoth(o, size, r) ==
  /\ Given(o.workers) /\ Given(o.masters) /\ ~Given(o.groups)
  /\ nMasters' = 1
  /\ nWorkers' = (size + Word - 1) % Word
  /\ groups' = Rebuilt(size, nWorkers', 1, r)

SetWorkers(o, size, r) ==
  /\ Given(o.workers) /\ ~Given(o.masters) /\ ~Given(o.groups)
  /\ nWorkers' = o.workers
  /\ nMasters' = 1
  /\ groups' = Rebuilt(size, o.workers, 1, r)

\* Mutant: the groups are built for the root the manager had.
SetMasters_OldRoot(o, size, r) ==
  /\ Given(o.masters) /\ ~Given(o.workers) /\ ~Given(o.groups)
  /\ nMasters' = o.masters
  /\ nWorkers' = (size + Word - o.masters) % Word
  /\ groups' = Rebuilt(size, nWorkers', o.masters, root)

\* The remaining ranks are a group each: an unsigned subtraction.
SetMasters(o, size, r) ==
  /\ Given(o.masters) /\ ~Given(o.workers) /\ ~Given(o.groups)
  /\ nMasters' = o.masters
  /\ nWorkers' = (size + Word - o.masters) % Word
  /\ groups' = Rebuilt(size, nWorkers', o.masters, r)

SetNeither(o) ==
  /\ ~Given(o.workers) /\ ~Given(o.masters) /\ ~Given(o.groups)
  /\ UNCHANGED <<groups, nWorkers, nMasters>>

SetOptions(o) ==
  /\ Careful(o)
  /\ root' = Or(o.root, root)
  /\ comm' = Or(o.comm, comm)
  /\ asked' = CASE Given(o.groups) -> NothingAsked
               [] ~Given(o.groups) /\ (Given(o.workers) \/ Given(o.masters)) ->
                    [workers |-> o.workers, masters |-> o.masters]
               [] OTHER -> asked
  /\ \/ SetGroups(o)
     \/ SetBoth(o, comm', root')
     \/ SetWorkers(o, comm', root')
     \/ SetMasters(o, comm', root')
     \/ SetNeither(o)

Options ==
  [root : Optional(UNION {Ranks(s) : s \in Sizes}), comm : Optional(Sizes),
   workers : Optional(Counts), masters : Optional(Counts),
   groups : Optional(Lists)]

Next == \E o \in Options : SetOptions(o)

Spec == Init /\ [][Next]_vars

-----------------------------------------------------------------------------
(***************************************************************************)
(* Properties.                                                             *)
(***************************************************************************)

\* Every field has its type.
TypeOK ==
  /\ comm \in Sizes /\ root \in Nat
  /\ \E n \in Sizes \cup {1} : groups \in [Ranks(n) -> Nat]
  /\ nWorkers \in Optional(Nat) /\ nMasters \in Optional(Nat)
  /\ asked \in [workers : Optional(Counts), masters : Optional(Counts)]

\* The groups MPI_Comm_split is called with have an entry for each rank of the
\* communicator, whatever was set, in whatever order.
GroupsFit == DOMAIN groups = Ranks(comm)

\* The rank work_queue takes its tasks from and collects its results at is a master.
RootIsMaster == root \in DOMAIN groups /\ groups[root] = 0

\* A queue over more than one rank has somebody to do the work; without, the
\* master of a work_queue waits forever.
CanWork == comm > 1 => GroupIds(groups) # {}

\* A work_queue over these groups can run: every rank knows its group, the root hands
\* the tasks out, and somebody takes them.
CanServe == GroupsFit /\ RootIsMaster /\ CanWork

\* The groups are those asked for: this many, numbered from 1 without a gap, and
\* this many masters (0 leaves the choice to the manager).
AsAsked ==
  /\ asked.workers \notin {0, Nullopt} => Numbered(groups, asked.workers)
  /\ asked.masters # Nullopt => Cardinality(InGroup(groups, 0)) = asked.masters

\* The ranks are dealt out to the worker groups evenly: the sizes of two groups
\* differ by one at most, wherever the root is.
Balanced ==
  Given(nWorkers) => \A j, k \in GroupIds(groups) :
    Cardinality(InGroup(groups, j)) <= Cardinality(InGroup(groups, k)) + 1
=============================================================================

---------------------------- MODULE MCSingleton ----------------------------
(***************************************************************************)
(* Instances of Singleton for TLC.                                         *)
(***************************************************************************)
EXTENDS Singleton

Use(library, before, safety) == [library |-> library, before |-> before, safety |-> safety]

\* Every library, used by one thread at a time or by several, initialised by the
\* program or not.
AllUses == {Use(l, 0, s) : l \in {"sz", "curl", "petsc", "python"}, s \in {"serialized", "multiple"}}
  \cup {Use(l, 1, s) : l \in {"curl", "petsc", "python"}, s \in {"serialized", "multiple"}}
===========================================================================

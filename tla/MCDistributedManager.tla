------------------------ MODULE MCDistributedManager ------------------------
(***************************************************************************)
(* Instances of DistributedManager for TLC: the lists of groups a caller   *)
(* sets, two for each size of communicator.                                *)
(***************************************************************************)
EXTENDS DistributedManager

LastIsMaster(s) == [i \in Ranks(s) |-> IF i = s - 1 THEN 0 ELSE 1]
OfThree(s)      == [i \in Ranks(s) |-> i % 3]

SomeLists == {LastIsMaster(s) : s \in Sizes} \cup {OfThree(s) : s \in Sizes}
=============================================================================

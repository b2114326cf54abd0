--------------------------- MODULE MCPressioData ---------------------------
(***************************************************************************)
(* Instances of PressioData for TLC: the domains of the runs.              *)
(***************************************************************************)
EXTENDS DomainManager, TLC

PinnedDomains == {CudaDomain, CudaHostDomain}
MixedDomains  == {MallocDomain, UserDomain("custom")}
Symmetry      == Permutations(Objs)
=============================================================================

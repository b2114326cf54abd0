------------------------- MODULE MCManyIndependent -------------------------
(***************************************************************************)
(* Instances of ManyIndependent for TLC.                                   *)
(***************************************************************************)
EXTENDS ManyIndependent

Group(s) == [r \in 0..(Len(s) - 1) |-> s[r + 1]]

Job(group, root, ins, outs, bcast, fails) ==
  [group |-> Group(group), root |-> root, ins |-> ins, outs |-> outs,
   bcast |-> bcast, fails |-> fails]

\* One rank; two masters; a worker group of two ranks; more tasks than groups;
\* groups of two buffers that interleave; groups that do not match; no buffer; without the
\* broadcast, a root other than rank 0 and more outputs than inputs.
Topologies == {<<0>>, <<0, 1, 2>>, <<0, 1, 1, 2>>, <<0, 0, 1>>}
Groupings  == {<<<<0, 1, 2>>, <<0, 1, 2>>>>, <<<<0, 0, 1>>, <<1, 0, 1>>>>, <<<<0, 1>>, <<0, 0>>>>}
SomeJobs ==
  {Job(t, 0, g[1], g[2], b, f) :
     t \in Topologies, g \in Groupings, b \in BOOLEAN, f \in {{}, {0}, {1}}}
  \cup {Job(<<1, 0, 2>>, 1, <<0, 1, 2>>, <<2, 1, 0>>, FALSE, f) : f \in {{}, {2}}}
  \cup {Job(<<0, 1>>, 0, <<1, 0>>, <<0, 1, 0>>, FALSE, {}), Job(<<0, 1>>, 0, <<>>, <<>>, TRUE, {})}
=============================================================================

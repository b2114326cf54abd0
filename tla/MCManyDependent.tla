-------------------------- MODULE MCManyDependent --------------------------
(***************************************************************************)
(* Instances of ManyDependent for TLC.                                     *)
(***************************************************************************)
EXTENDS ManyDependent

Job(op, workers, groups, fails, refuses, names, lacks) ==
  [op |-> op, workers |-> workers, groups |-> groups, fails |-> fails,
   refuses |-> refuses, names |-> names, lacks |-> lacks]

\* One rank to three workers, four buffers, failures at the first or a later task, up to
\* three names, of which a task's metrics lack the first, a later or none; two groups of
\* two buffers, which leave two tasks without a group; a child that refuses the options
\* of a task.
SomeJobs ==
  {Job("compress", w, <<0, 1, 2, 3>>, f, {}, 1, l) : w \in 0..3, f \in {{}, {0}, {2}}, l \in {{}, {<<1, 1>>}}}
  \cup {Job("compress", w, <<0, 1, 2, 3>>, f, {}, 3, l) :
          w \in 0..3, f \in {{}, {0}}, l \in {{<<1, 2>>}, {<<0, 3>>, <<2, 1>>}}}
  \cup {Job("decompress", w, <<0, 1, 2, 3>>, f, {}, 1, {}) : w \in 0..3, f \in {{}, {0}, {2}}}
  \cup {Job("compress", w, <<1, 0, 1, 0>>, {}, {}, 1, {}) : w \in 0..3}
  \cup {Job("compress", w, <<0, 0, 1, 1>>, f, {}, n, {}) : w \in 0..3, f \in {{}, {1}}, n \in 0..1}
  \cup {Job("compress", w, <<0, 1, 2>>, {}, {1}, 1, {}) : w \in 0..3}
=============================================================================

--------------------------- MODULE MCManyThreaded ---------------------------
(***************************************************************************)
(* Instances of ManyThreaded for TLC.                                      *)
(***************************************************************************)
EXTENDS ManyThreaded

Setup(children, preserve, collect, cancels) ==
  [children |-> children, preserve |-> preserve, collect |-> collect, cancels |-> cancels]
Call(op, groups, fails) == [op |-> op, groups |-> groups, fails |-> fails]

\* One child for all groups, one for each, fewer, too many; metrics neither kept nor
\* collected; cancellation.
SomeSetups == {Setup(k, TRUE, TRUE, FALSE) : k \in {1, 2, 3}}
  \cup {Setup(1, FALSE, TRUE, FALSE), Setup(2, TRUE, FALSE, FALSE), Setup(1, TRUE, TRUE, TRUE)}

\* Two groups, three groups with other numbers; the child fails on one or not.
SomeCalls == {Call(op, g, f) : op \in {"compress", "decompress"},
                               g \in {<<0, 1>>, <<1, 2, 4>>}, f \in {{}, {1}}}
=============================================================================

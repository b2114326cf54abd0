----------------------------- MODULE WorkQueue -----------------------------
(***************************************************************************)
(* What libdistributed's work_queue promises the plugins built on it: every *)
(* task it is given, or that is pushed later, is done exactly once.         *)
(***************************************************************************)
CONSTANTS
  Tasks   \* every task there may be

VARIABLES
  todo,     \* waiting for a worker
  running,  \* with a worker, the answer not yet with the master
  done      \* answered

vars == <<todo, running, done>>

Init ==
  /\ todo \subseteq Tasks
  /\ running = {} /\ done = {}

\* A worker is handed a task.
Take(t) ==
  /\ t \in todo
  /\ todo' = todo \ {t} /\ running' = running \cup {t}
  /\ UNCHANGED done

\* The answer pushes no task that was given out before.
Answer(t, more) ==
  /\ t \in running
  /\ more \cap (todo \cup running \cup done) = {}
  /\ todo' = todo \cup more
  /\ running' = running \ {t}
  /\ done' = done \cup {t}

\* The only rank of a communicator does a task itself.
DoAlone(t, more) ==
  /\ t \in todo
  /\ more \cap (todo \cup running \cup done) = {}
  /\ todo' = (todo \ {t}) \cup more
  /\ done' = done \cup {t}
  /\ UNCHANGED running

Next == \E t \in Tasks : \/ Take(t)
                         \/ \E more \in SUBSET Tasks : Answer(t, more) \/ DoAlone(t, more)

Safe == Init /\ [][Next]_vars
Fair == WF_vars(Next)
Spec == Safe /\ Fair
=============================================================================

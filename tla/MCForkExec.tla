----------------------------- MODULE MCForkExec -----------------------------
(***************************************************************************)
(* Instances of ForkExec for TLC.                                          *)
(***************************************************************************)
EXTENDS ForkExec

Program(fails, writes, code, killed) ==
  [fails |-> fails, writes |-> writes, code |-> code, killed |-> killed]

\* Programs that write more to a stream than a pipe holds, to the one read last first,
\* to both in turn, to neither; one that is killed; every way to fail.
SomePrograms ==
  {Program("none", w, 3, FALSE) : w \in {<<"err", "err", "out">>, <<"out", "err">>}}
  \cup {Program("none", <<"err">>, 0, TRUE)}
  \cup {Program(f, <<>>, 0, FALSE) : f \in {"set", "pipe1", "pipe2", "fork", "chdir", "exec"}}
=============================================================================

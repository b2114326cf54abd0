------------------------------ MODULE ForkExec ------------------------------
(***************************************************************************)
(* The forkexec launcher: launch_impl runs a program with its output and    *)
(* its errors in two pipes, reads both as they fill, and reaps it.          *)
(* Launches run concurrently (pressio_thread_safety_multiple), and a fork   *)
(* copies every descriptor open at that moment, those of other launches     *)
(* included.  A pipe's content is a sequence of chunks, "a chunk" being     *)
(* what one write or one read moves.                                        *)
(***************************************************************************)
EXTENDS Integers, Sequences, FiniteSets

CONSTANTS
  Launches,  \* the concurrent calls
  Programs,  \* what a call runs and what goes wrong, a bound: see ProgramAssumption
  Capacity,  \* the chunks a pipe holds
  Parent     \* the calling process

\* fails: the system call that fails, of the parent ("pipe1", "pipe2", "fork") or of
\* the child ("chdir", "exec"), or "set" when no command was set; writes: what the
\* program writes, in order; code: its exit code; killed: by a signal instead.
ASSUME ProgramAssumption == \A p \in Programs :
  /\ DOMAIN p = {"fails", "writes", "code", "killed"}
  /\ p.fails \in {"none", "set", "pipe1", "pipe2", "fork", "chdir", "exec"}
  /\ p.writes \in Seq({"out", "err"}) /\ p.code \in 0..255 /\ p.killed \in BOOLEAN

ASSUME CapacityAssumption == Capacity \in Nat \ {0}
ASSUME ParentAssumption   == Parent \notin Launches

Streams   == {"out", "err"}
Processes == Launches \cup {Parent}   \* a child is named by the launch that forks it
NoResult  == [error |-> "none", code |-> 0]

VARIABLES
  prog,     \* what each launch runs
  pc,       \* where each launch is
  pipe,     \* the chunks in each pipe
  writers,  \* the processes with a descriptor of the pipe's write end
  readers,  \* those with a descriptor of its read end
  child,    \* "none", "forked", "running", "zombie" or "reaped"
  todo,     \* what each child has yet to write
  wrote,    \* what it wrote
  text,     \* what the parent has read: the two string streams
  closed,   \* stdout_closed and stderr_closed
  result    \* the error code and the return code

vars == <<prog, pc, pipe, writers, readers, child, todo, wrote, text, closed, result>>
parentVars == <<text, closed, result>>

Pipes == Launches \X Streams
Open(holders, procs, ps) == [p \in Pipes |-> IF p \in ps THEN holders[p] \cup procs ELSE holders[p]]
Shut(holders, procs, ps) == [p \in Pipes |-> IF p \in ps THEN holders[p] \ procs ELSE holders[p]]

\* What one read takes from a pipe, and what it leaves.
Taken(q) == IF q = <<>> THEN <<>> ELSE <<Head(q)>>
Left(q)  == IF q = <<>> THEN <<>> ELSE Tail(q)

Both(l) == {l} \X Streams
Empty   == [s \in Streams |-> <<>>]

-----------------------------------------------------------------------------
Init ==
  /\ prog \in [Launches -> Programs]
  /\ pc = [l \in Launches |-> "begin"]
  /\ pipe = [p \in Pipes |-> <<>>]
  /\ writers = [p \in Pipes |-> {}] /\ readers = [p \in Pipes |-> {}]
  /\ child = [l \in Launches |-> "none"]
  /\ todo = [l \in Launches |-> <<>>]
  /\ wrote = [l \in Launches |-> Empty]
  /\ text = [l \in Launches |-> Empty]
  /\ closed = [l \in Launches |-> {}]
  /\ result = [l \in Launches |-> NoResult]

Finish(l, error, code) ==
  /\ result' = [result EXCEPT ![l] = [error |-> error, code |-> code]]
  /\ pc' = [pc EXCEPT ![l] = "done"]

\* launch_impl returns before there is a child; descriptors it has opened stay open.
Refuse(l, step, error, code) ==
  /\ prog[l].fails = step
  /\ Finish(l, error, code)
  /\ UNCHANGED <<prog, pipe, writers, readers, child, todo, wrote, text, closed>>

OpenPipe(l, s) ==
  /\ writers' = Open(writers, {Parent}, {<<l, s>>})
  /\ readers' = Open(readers, {Parent}, {<<l, s>>})

\* pipe(stdout_pipe_fd)
PipeOut(l) ==
  /\ pc[l] = "begin"
  /\ \/ Refuse(l, "set", "fork_error", 0)
     \/ Refuse(l, "pipe1", "pipe_error", -1)
     \/ /\ prog[l].fails \notin {"set", "pipe1"}
        /\ OpenPipe(l, "out")
        /\ pc' = [pc EXCEPT ![l] = "pipe"]
        /\ UNCHANGED <<prog, pipe, child, todo, wrote, text, closed, result>>

\* pipe(stderr_pipe_fd)
PipeErr(l) ==
  /\ pc[l] = "pipe"
  /\ \/ Refuse(l, "pipe2", "pipe_error", -1)
     \/ /\ prog[l].fails # "pipe2"
        /\ OpenPipe(l, "err")
        /\ pc' = [pc EXCEPT ![l] = "fork"]
        /\ UNCHANGED <<prog, pipe, child, todo, wrote, text, closed, result>>

\* The pipes a new process inherits: every one the parent has open.
Inherited(holders) == {p \in Pipes : Parent \in holders[p]}

\* fork(): the parent goes on in the default case of the switch.
Fork(l) ==
  /\ pc[l] = "fork"
  /\ \/ Refuse(l, "fork", "fork_error", -1)
     \/ /\ prog[l].fails # "fork"
        /\ writers' = Open(writers, {l}, Inherited(writers))
        /\ readers' = Open(readers, {l}, Inherited(readers))
        /\ child' = [child EXCEPT ![l] = "forked"]
        /\ pc' = [pc EXCEPT ![l] = "close"]
        /\ UNCHANGED <<prog, pipe, todo, wrote, text, closed, result>>

\* What the child writes before it exits: perror's line when chdir fails; when exec
\* fails perror's and the command's, then what stdio still holds for stdout.
Writes(l) == CASE prog[l].fails = "chdir" -> <<"err">>
               [] prog[l].fails = "exec"  -> <<"err", "err", "out">>
               [] OTHER                   -> prog[l].writes

\* The child closes its read ends, dup2s the write ends and runs the program.
Exec(l) ==
  /\ child[l] = "forked"
  /\ readers' = Shut(readers, {l}, Both(l))
  /\ child' = [child EXCEPT ![l] = "running"]
  /\ todo' = [todo EXCEPT ![l] = Writes(l)]
  /\ UNCHANGED <<prog, pc, pipe, writers, wrote, parentVars>>

\* The program writes, and waits while the pipe is full.
Write(l) ==
  /\ child[l] = "running" /\ todo[l] # <<>>
  /\ LET s == Head(todo[l]) p == <<l, s>> chunk == Len(wrote[l][s]) + 1 IN
     /\ Len(pipe[p]) < Capacity
     /\ pipe' = [pipe EXCEPT ![p] = Append(@, chunk)]
     /\ wrote' = [wrote EXCEPT ![l][s] = Append(@, chunk)]
  /\ todo' = [todo EXCEPT ![l] = Tail(@)]
  /\ UNCHANGED <<prog, pc, writers, readers, child, parentVars>>

\* It ends, which closes every descriptor it has.
Exit(l) ==
  /\ child[l] = "running" /\ todo[l] = <<>>
  /\ child' = [child EXCEPT ![l] = "zombie"]
  /\ writers' = Shut(writers, {l}, Pipes)
  /\ readers' = Shut(readers, {l}, Pipes)
  /\ UNCHANGED <<prog, pc, pipe, todo, wrote, parentVars>>

\* The parent closes the write ends.
Close(l) ==
  /\ pc[l] = "close"
  /\ writers' = Shut(writers, {Parent}, Both(l))
  /\ pc' = [pc EXCEPT ![l] = "loop"]
  /\ UNCHANGED <<prog, pipe, readers, child, todo, wrote, parentVars>>

\* Mutant: the errors are read after the output (the loop that is commented out).
Selected_OutFirst(l) == IF "out" \in closed[l] THEN {"err"} ELSE {"out"}

\* The streams select() is asked about.
Selected(l) == Streams \ closed[l]

\* Those it reports: something to read, or no writer left.
Ready(l) == {s \in Selected(l) : pipe[<<l, s>>] # <<>> \/ writers[<<l, s>>] = {}}

Appended(l, chunks) == [s \in Streams |-> text[l][s] \o chunks[s]]

\* Mutant: a read of a stream that is ready ends it.
AtEnd_Always(l, s) == TRUE

AtEnd(l, s) == pipe[<<l, s>>] = <<>>

\* One turn of the loop: select() returns, and every stream it reports is read once.
Turn(l) ==
  /\ pc[l] = "loop" /\ Ready(l) # {}
  /\ LET chunks == [s \in Streams |-> IF s \in Ready(l) THEN Taken(pipe[<<l, s>>]) ELSE <<>>]
     IN text' = [text EXCEPT ![l] = Appended(l, chunks)]
  /\ pipe' = [p \in Pipes |-> IF p[1] = l /\ p[2] \in Ready(l) THEN Left(pipe[p]) ELSE pipe[p]]
  /\ closed' = [closed EXCEPT ![l] = @ \cup {s \in Ready(l) : AtEnd(l, s)}]
  /\ UNCHANGED <<prog, pc, writers, readers, child, todo, wrote, result>>

\* Both ends are closed: the loop ends.
Break(l) ==
  /\ pc[l] = "loop" /\ closed[l] = Streams
  /\ pc' = [pc EXCEPT ![l] = "wait"]
  /\ UNCHANGED <<prog, pipe, writers, readers, child, todo, wrote, parentVars>>

\* What a child that ended this way has for exit code.
ExitCode(l) == CASE prog[l].fails = "chdir" -> 254
                 [] prog[l].fails = "exec"  -> 255
                 [] OTHER                   -> prog[l].code

\* Mutant: a child other than the launch's own is waited for.
Awaited_Any(l) == CHOOSE k \in Launches : child[k] = "zombie"

Awaited(l) == l

\* WEXITSTATUS, 0 for a child killed by a signal.
Status(l) == IF prog[l].killed THEN 0 ELSE ExitCode(l)

\* Mutant: the read ends stay open.
CloseReadEnds_None(l) == UNCHANGED readers

CloseReadEnds(l) == readers' = Shut(readers, {Parent}, Both(l))

\* waitpid(child), which waits until the child has ended.
Wait(l) ==
  /\ pc[l] = "wait" /\ \E k \in Launches : child[k] = "zombie"
  /\ child[Awaited(l)] = "zombie"
  /\ child' = [child EXCEPT ![Awaited(l)] = "reaped"]
  /\ CloseReadEnds(l)
  /\ Finish(l, "success", Status(Awaited(l)))
  /\ UNCHANGED <<prog, pipe, writers, todo, wrote, text, closed>>

CallStep(l) == PipeOut(l) \/ PipeErr(l) \/ Fork(l) \/ Close(l) \/ Turn(l) \/ Break(l) \/ Wait(l)
ChildStep(l) == Exec(l) \/ Write(l) \/ Exit(l)

\* Every call has returned.
Finished == (\A l \in Launches : pc[l] = "done") /\ UNCHANGED vars

Next == (\E l \in Launches : CallStep(l) \/ ChildStep(l)) \/ Finished

\* The operating system schedules every thread and process; the programs launched end
\* once what they write is read.
Spec == Init /\ [][Next]_vars
        /\ \A l \in Launches : WF_vars(CallStep(l)) /\ WF_vars(ChildStep(l))

-----------------------------------------------------------------------------
(***************************************************************************)
(* Properties.                                                             *)
(***************************************************************************)
Returned(l) == pc[l] = "done" /\ result[l].error = "success"

\* Every variable has its type, and a pipe holds no more than it can.
TypeOK ==
  /\ prog \in [Launches -> Programs]
  /\ pc \in [Launches -> {"begin", "pipe", "fork", "close", "loop", "wait", "done"}]
  /\ \A p \in Pipes : Len(pipe[p]) <= Capacity
  /\ writers \in [Pipes -> SUBSET Processes] /\ readers \in [Pipes -> SUBSET Processes]
  /\ child \in [Launches -> {"none", "forked", "running", "zombie", "reaped"}]
  /\ closed \in [Launches -> SUBSET Streams]
  /\ \A l \in Launches : result[l].code \in -1..255

\* What the parent has read is always what the child wrote first: nothing is read twice
\* or lost between the two pipes, the loop and the end of file.
NothingLost == \A l \in Launches : \A s \in Streams :
  text[l][s] \o pipe[<<l, s>>] = wrote[l][s]

\* A call that succeeds returns all its program wrote to each stream, in order and
\* unmixed with what other launches' programs wrote.
AllRead == TypeOK /\ NothingLost /\ \A l \in Launches :
  Returned(l) => text[l] = wrote[l] /\ todo[l] = <<>>

\* A call reaps its own child, and returns that child's code: the other launches that
\* end meanwhile neither take its status nor give it theirs.
OwnChild == \A l \in Launches :
  /\ Returned(l) => child[l] = "reaped" /\ (~prog[l].killed => result[l].code = ExitCode(l))
  /\ child[l] = "reaped" => Returned(l)

\* Once every call has succeeded, no descriptor of a pipe is left anywhere.
NoneOpen ==
  (\A l \in Launches : Returned(l)) => \A p \in Pipes : writers[p] = {} /\ readers[p] = {}

\* Every call returns, however much its program writes to either stream, in whatever
\* order, and whatever other programs inherit its pipes.
Terminates == \A l \in Launches : <>(pc[l] = "done")
=============================================================================

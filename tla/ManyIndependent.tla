-------------------------- MODULE ManyIndependent --------------------------
(***************************************************************************)
(* many_independent: compress_many (or decompress_many) over MPI.  Every    *)
(* rank makes the call with its own copy of the buffers.  The master hands  *)
(* one group of buffers at a time to a group of ranks, moves what they      *)
(* answer into its own outputs, and at the end rank 0 broadcasts them.      *)
(*                                                                         *)
(* work_queue is libdistributed's: requests reach every rank of a worker    *)
(* group in order, and its first rank answers.                              *)
(***************************************************************************)
EXTENDS Naturals, Sequences, FiniteSets, FiniteSetsExt

CONSTANTS
  Jobs,   \* the calls, a bound: see JobAssumption
  None    \* no task, no broadcast yet

\* group: the group of each rank, 0 for masters; root: distributed:root;
\* ins, outs: the group of each input and output; bcast: bcast_outputs;
\* fails: the groups of buffers the child compressor fails on.
ASSUME JobAssumption == \A j \in Jobs :
  /\ DOMAIN j = {"group", "root", "ins", "outs", "bcast", "fails"}
  /\ IsFiniteSet(DOMAIN j.group)
  /\ DOMAIN j.group = 0..(Cardinality(DOMAIN j.group) - 1)
  /\ \A r \in DOMAIN j.group : j.group[r] \in Nat
  /\ j.root \in DOMAIN j.group /\ j.group[j.root] = 0
  /\ j.ins \in Seq(Nat) /\ j.outs \in Seq(Nat)
  /\ j.bcast \in BOOLEAN

ASSUME NoneAssumption == None \notin Nat

VARIABLES
  job,     \* the call
  pc,      \* where each rank is in common_many_impl
  out,     \* each rank's outputs
  todo,    \* the master's queue
  given,   \* the task each worker group has not answered yet
  inbox,   \* the requests a rank has not worked on yet
  replies, \* the answers on their way to the master
  status,  \* what each rank's call returns
  error,   \* each rank's error_code()
  sent,    \* the broadcasts rank 0 has made
  next     \* the broadcast each rank is at

vars == <<job, pc, out, todo, given, inbox, replies, status, error, sent, next>>

Ranks   == DOMAIN job.group
Workers == {job.group[r] : r \in Ranks} \ {0}
Members(g) == {r \in Ranks : job.group[r] = g}
Leader(g)  == Min(Members(g))
Outs == DOMAIN job.outs

\* normalize_and_validate: without a group the call is refused too.
Valid(j) ==
  /\ j.ins # <<>>
  /\ {j.ins[i] : i \in DOMAIN j.ins} = {j.outs[i] : i \in DOMAIN j.outs}
TasksOf(j) == IF Valid(j) THEN {j.ins[i] : i \in DOMAIN j.ins} ELSE {}

-----------------------------------------------------------------------------
(***************************************************************************)
(* Buffers.  An output is as the caller passed it, moved from, or what the  *)
(* child made of the inputs for output "of".                                *)
(***************************************************************************)
Untouched == [is |-> "caller", of |-> 0]
Moved     == [is |-> "moved", of |-> 0]
Made(i)   == [is |-> IF job.outs[i] \in job.fails THEN "failed" ELSE "made", of |-> i]

\* The outputs of task t in order: get_output_group.
Places(t)   == {i \in Outs : job.outs[i] = t}
Place(t, i) == Cardinality({j \in Places(t) : j <= i})

\* What a worker answers with.
OutputData(t) ==
  [k \in 1..Cardinality(Places(t)) |-> Made(CHOOSE i \in Places(t) : Place(t, i) = k)]

MoveOut(o, t) == [i \in Outs |-> IF job.outs[i] = t THEN Moved ELSE o[i]]

\* Mutant: the index into the answer never advances.
Store_NoAdvance(o, t, data) == [i \in Outs |-> IF job.outs[i] = t THEN data[1] ELSE o[i]]

\* The master's outputs after an answer.
Store(o, t, data) ==
  [i \in Outs |-> IF job.outs[i] = t THEN data[Place(t, i)] ELSE o[i]]

Code(t) == IF t \in job.fails THEN 1 ELSE 0

-----------------------------------------------------------------------------
Init ==
  /\ job \in Jobs
  /\ pc = [r \in Ranks |-> "enter"]
  /\ out = [r \in Ranks |-> [i \in Outs |-> Untouched]]
  /\ todo = TasksOf(job)
  /\ given = [g \in Workers |-> None]
  /\ inbox = [r \in Ranks |-> <<>>]
  /\ replies = {}
  /\ status = [r \in Ranks |-> 0]
  /\ error = [r \in Ranks |-> 0]
  /\ sent = <<>>
  /\ next = [r \in Ranks |-> 1]

\* Every rank validates the groups on its own.
Enter(r) ==
  /\ pc[r] = "enter"
  /\ IF Valid(job)
     THEN pc' = [pc EXCEPT ![r] = "queue"] /\ UNCHANGED <<status, error>>
     ELSE /\ pc' = [pc EXCEPT ![r] = "done"]
          /\ status' = [status EXCEPT ![r] = 2] /\ error' = [error EXCEPT ![r] = 2]
  /\ UNCHANGED <<job, out, todo, given, inbox, replies, sent, next>>

\* The master gives an idle worker group the next task.
Assign(g) ==
  /\ pc[job.root] = "queue" /\ \A r \in Ranks : pc[r] # "enter"
  /\ todo # {} /\ given[g] = None
  /\ LET t == Min(todo) IN
     /\ todo' = todo \ {t}
     /\ given' = [given EXCEPT ![g] = t]
     /\ inbox' = [r \in Ranks |-> IF r \in Members(g) THEN Append(inbox[r], t) ELSE inbox[r]]
  /\ UNCHANGED <<job, pc, out, replies, status, error, sent, next>>

\* Mutant: a child that fails is not answered for.
Response_OnSuccess(g, t) ==
  IF Code(t) = 0 THEN {[by |-> g, task |-> t, code |-> 0, data |-> OutputData(t)]} ELSE {}

\* The answer of a worker group: one, its first rank's.
Response(g, t) == {[by |-> g, task |-> t, code |-> Code(t), data |-> OutputData(t)]}

\* A rank of a worker group runs the child and moves its outputs into the answer.
Work(r) ==
  /\ inbox[r] # <<>> /\ Head(inbox[r]) # None
  /\ LET t == Head(inbox[r]) g == job.group[r] IN
     /\ out' = [out EXCEPT ![r] = MoveOut(@, t)]
     /\ replies' = IF r = Leader(g) THEN replies \cup Response(g, t) ELSE replies
  /\ inbox' = [inbox EXCEPT ![r] = Tail(@)]
  /\ UNCHANGED <<job, pc, todo, given, status, error, sent, next>>

\* What the master notes of a code.
Note(code) ==
  /\ status' = [status EXCEPT ![job.root] = IF code # 0 THEN 1 ELSE @]
  /\ error' = [error EXCEPT ![job.root] = IF code # 0 THEN code ELSE @]

\* The master receives an answer; answers arrive in any order.
Receive(m) ==
  /\ m \in replies
  /\ Note(m.code)
  /\ out' = [out EXCEPT ![job.root] = Store(@, m.task, m.data)]
  /\ given' = [given EXCEPT ![m.by] = None]
  /\ replies' = replies \ {m}
  /\ UNCHANGED <<job, pc, todo, inbox, sent, next>>

\* The only rank of the communicator is master and worker.
Alone ==
  /\ Ranks = {job.root} /\ pc[job.root] = "queue"
  /\ todo # {}
  /\ LET t == Min(todo) IN
     /\ todo' = todo \ {t}
     /\ Note(Code(t))
     /\ out' = [out EXCEPT ![job.root] = Store(MoveOut(@, t), t, OutputData(t))]
  /\ UNCHANGED <<job, pc, given, inbox, replies, sent, next>>

\* Mutant: the status the answers left is kept.
Return_KeepsStatus(r) ==
  /\ pc' = [pc EXCEPT ![r] = IF status[r] = 0 /\ job.bcast THEN "bcast" ELSE "done"]
  /\ UNCHANGED status

\* work_queue returns: its own error code, 0, replaces the status.
Return(r) ==
  /\ status' = [status EXCEPT ![r] = 0]
  /\ pc' = [pc EXCEPT ![r] = IF job.bcast THEN "bcast" ELSE "done"]

\* The queue is empty and every answer is in: the master tells the others to stop.
Stop ==
  /\ pc[job.root] = "queue" /\ \A r \in Ranks : pc[r] # "enter"
  /\ todo = {} /\ \A g \in Workers : given[g] = None
  /\ Return(job.root)
  /\ inbox' = [r \in Ranks |-> IF r = job.root THEN <<>> ELSE Append(inbox[r], None)]
  /\ UNCHANGED <<job, out, todo, given, replies, error, sent, next>>

Leave(r) ==
  /\ inbox[r] # <<>> /\ Head(inbox[r]) = None
  /\ Return(r)
  /\ inbox' = [inbox EXCEPT ![r] = Tail(@)]
  /\ UNCHANGED <<job, out, todo, given, replies, error, sent, next>>

\* The loop over inputs.size().
NextCall(r) ==
  /\ next' = [next EXCEPT ![r] = IF @ = Len(job.ins) THEN @ ELSE @ + 1]
  /\ pc' = [pc EXCEPT ![r] = IF next[r] = Len(job.ins) THEN "done" ELSE @]

\* bcast(outputs[i], 0) at rank 0, which need not wait for the others.
BcastSend ==
  /\ pc[0] = "bcast"
  /\ sent' = Append(sent, out[0][next[0]])
  /\ NextCall(0)
  /\ UNCHANGED <<job, out, todo, given, inbox, replies, status, error>>

\* bcast(outputs[i], 0) elsewhere, distributed:root included.
BcastReceive(r) ==
  /\ r # 0 /\ pc[r] = "bcast"
  /\ next[r] <= Len(sent)
  /\ out' = [out EXCEPT ![r][next[r]] = sent[next[r]]]
  /\ NextCall(r)
  /\ UNCHANGED <<job, todo, given, inbox, replies, status, error, sent>>

Finished == (\A r \in Ranks : pc[r] = "done") /\ UNCHANGED vars

RankStep(r) == Enter(r) \/ Work(r) \/ Leave(r) \/ BcastReceive(r)
MasterStep ==
  \/ \E g \in Workers : Assign(g)
  \/ \E m \in replies : Receive(m)
  \/ Alone \/ Stop

Next == (\E r \in Ranks : RankStep(r)) \/ MasterStep \/ BcastSend \/ Finished

\* Every rank runs, the child compressors return, and MPI delivers.
MaxRanks == 8
Fairness ==
  /\ \A r \in 0..(MaxRanks - 1) : WF_vars(r \in Ranks /\ RankStep(r))
  /\ WF_vars(MasterStep) /\ WF_vars(BcastSend)

Spec == Init /\ [][Next]_vars /\ Fairness

-----------------------------------------------------------------------------
(***************************************************************************)
(* Properties.                                                             *)
(***************************************************************************)
Buffer == [is : {"caller", "moved", "made", "failed"}, of : Nat]

\* Every variable has its type.
TypeOK ==
  /\ job \in Jobs
  /\ pc \in [Ranks -> {"enter", "queue", "bcast", "done"}]
  /\ out \in [Ranks -> [Outs -> Buffer]]
  /\ todo \subseteq TasksOf(job)
  /\ given \in [Workers -> TasksOf(job) \cup {None}]
  /\ status \in [Ranks -> 0..2] /\ error \in [Ranks -> 0..2]
  /\ next \in [Ranks -> 1..(IF Valid(job) THEN Len(job.ins) ELSE 1)]
  /\ \A r \in Ranks : inbox[r] \in Seq(TasksOf(job) \cup {None})

Fine(i, b) == b = Made(i)

\* When the root's call returns, each of its outputs is what the child made of the
\* inputs of that very output's group, however the answers were ordered and however
\* outputs interleave.
RootHasAll ==
  Valid(job) /\ pc[job.root] = "done" =>
    \A i \in Outs : Fine(i, out[job.root][i])

\* With bcast_outputs set and rank 0 the root, as the broadcast assumes, every rank whose
\* call returned 0 has every output.
AllHaveAll == \A r \in Ranks :
  Valid(job) /\ job.bcast /\ job.root = 0 /\ pc[r] = "done" /\ status[r] = 0 =>
    \A i \in Outs : Fine(i, out[r][i])

\* The root's error code says whether the child failed on any group, whichever
\* answer came last.  (The status does not: the queue's overwrites it.)
ErrorKept ==
  Valid(job) /\ pc[job.root] = "done" => (error[job.root] # 0 <=> job.fails \cap TasksOf(job) # {})

\* What each rank's caller gets back: on the root every output and the truth about
\* every group, on the others every output that was broadcast.
Outcomes == TypeOK /\ RootHasAll /\ ErrorKept /\ AllHaveAll

\* Every rank's call returns: no rank waits for a broadcast that is not made.
Terminates == <>(\A r \in Ranks : pc[r] = "done")

\* The plugin uses the queue as it promises to be used: each task once.
Running == {given[g] : g \in Workers} \ {None}
AllTasks == UNION {TasksOf(j) : j \in Jobs}
Queue == INSTANCE WorkQueue WITH Tasks <- AllTasks, todo <- todo, running <- Running,
                                 done <- (TasksOf(job) \ todo) \ Running
EachTaskOnce == Queue!Spec
=============================================================================

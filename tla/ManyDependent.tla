--------------------------- MODULE ManyDependent ---------------------------
(***************************************************************************)
(* many_dependent: compress_many over MPI where the metrics of a finished   *)
(* compression become options of the next ones.  The master starts with one *)
(* task; each answer lets it push enough tasks to fill the workers.         *)
(* decompress_many hands out every buffer at once.                          *)
(*                                                                         *)
(* A worker stands for a worker group; one task has the index of its group. *)
(***************************************************************************)
EXTENDS Integers, Sequences, FiniteSets, FiniteSetsExt

CONSTANTS
  Jobs,   \* the calls, a bound: see JobAssumption
  None    \* no request

\* op: the call; workers: how many worker groups there are, 0 on a single rank;
\* groups: the group of each input and output; fails: the tasks the child fails on;
\* refuses: those whose options the child refuses; names: how many names from_names has,
\* and to_names as many; lacks: the task and name of each metric the child does not have.
ASSUME JobAssumption == \A j \in Jobs :
  /\ DOMAIN j = {"op", "workers", "groups", "fails", "refuses", "names", "lacks"}
  /\ j.op \in {"compress", "decompress"}
  /\ j.workers \in Nat /\ j.names \in Nat
  /\ j.groups \in Seq(Nat)

\* A request has options: the metrics, each the task and the name, they are set from.
Requests == [task : Nat, options : SUBSET (Nat \X Nat)]

ASSUME NoneAssumption == None \notin Requests

VARIABLES
  job,         \* the call
  pc,          \* the master: "queue", "done", or "crashed"
  out,         \* the master's outputs
  todo,        \* the queue of requests
  given,       \* the request each worker has not answered yet
  replies,     \* answers on their way
  answered,    \* the tasks answered
  outstanding, \* the requests made and not answered
  nextTask,    \* the next task to push
  ret,         \* what the call returns
  error        \* the plugin's error_code()

vars == <<job, pc, out, todo, given, replies, answered, outstanding, nextTask, ret, error>>

Workers == 1..job.workers
Outs    == DOMAIN job.groups
Names   == 1..job.names
NumWorkers == IF job.workers = 0 THEN 1 ELSE job.workers

Places(t)   == {i \in Outs : job.groups[i] = t}
Place(t, i) == Cardinality({j \in Places(t) : j <= i})

Untouched == [is |-> "caller", of |-> 0]
Made(i, t) == [is |-> IF t \in job.fails THEN "failed" ELSE "made", of |-> i]

Request(t, options) == [task |-> t, options |-> options]

-----------------------------------------------------------------------------
Init ==
  /\ job \in Jobs
  /\ pc = "queue"
  /\ out = [i \in Outs |-> Untouched]
  /\ todo = IF job.op = "compress" THEN {Request(0, {})}
            ELSE {Request(i - 1, {}) : i \in Outs}
  /\ given = [w \in Workers |-> None]
  /\ replies = {} /\ answered = {}
  /\ outstanding = Cardinality(todo)
  /\ nextTask = Cardinality(todo)
  /\ ret = 0 /\ error = 0

\* Requests leave the queue in order.
First == CHOOSE q \in todo : \A p \in todo : q.task <= p.task

Assign(w) ==
  /\ pc = "queue" /\ todo # {} /\ given[w] = None
  /\ given' = [given EXCEPT ![w] = First]
  /\ todo' = todo \ {First}
  /\ UNCHANGED <<job, pc, out, replies, answered, outstanding, nextTask, ret, error>>

\* The child's outputs, none when it refuses its options.
OutputData(t) ==
  IF t \in job.refuses THEN <<>>
  ELSE [k \in 1..Cardinality(Places(t)) |-> Made(CHOOSE i \in Places(t) : Place(t, i) = k, t)]

\* A task of no group has nothing to compress, which the child refuses to do.
Fails(t) == t \in job.fails \cup job.refuses \/ Places(t) = {}

\* The names are looked up in order until the first that is missing.
Found(t) == {k \in Names : \A i \in 1..k : <<t, i>> \notin job.lacks}

\* Mutant: a child that failed is asked for its metrics too.
Metrics_OfFailed(t) == {t} \X Found(t)

Metrics(t) == IF Fails(t) THEN {} ELSE {t} \X Found(t)
Lacking(t) == Metrics(t) # {t} \X Names

\* The worker function of compress_many.
CompressReply(t) ==
  [task |-> t, data |-> OutputData(t), options |-> Metrics(t),
   code |-> IF Fails(t) THEN 1 ELSE IF Lacking(t) THEN 3 ELSE 0]

\* That of decompress_many: the code is the plugin's own, not the child's.
DecompressReply(t) ==
  [task |-> t, data |-> <<Made(t + 1, t)>>, options |-> {}, code |-> 0]

Reply(t) == IF job.op = "compress" THEN CompressReply(t) ELSE DecompressReply(t)

Work(w) ==
  /\ given[w] # None
  /\ \A m \in replies : m.task # given[w].task
  /\ replies' = replies \cup {Reply(given[w].task)}
  /\ UNCHANGED <<job, pc, out, todo, given, answered, outstanding, nextTask, ret, error>>

\* Mutant: the first task pushed is the last one pushed before.
Pushed_Again(options) ==
  {Request(t, options) : t \in (nextTask - 1)..Min({nextTask - 1 + NumWorkers - outstanding, Len(job.groups) - 1})}

\* The requests an answer makes room for, one of those outstanding being answered.
Pushed(options) ==
  {Request(t, options) : t \in nextTask..Min({nextTask + NumWorkers - outstanding, Len(job.groups) - 1})}

\* The options of the next requests: the answer's, up to the first that is missing.
Guide(m) == {o \in m.options : \A k \in 1..o[2] : <<m.task, k>> \in m.options}

\* Mutant: the error of an answer replaces the one before.
Note_Last(m) == error' = m.code /\ ret' = ret

\* The error the master records.
Note(m) ==
  /\ ret' = IF m.code # 0 THEN 1 ELSE ret
  /\ error' = IF job.op = "compress" /\ Guide(m) # {m.task} \X Names THEN 3
              ELSE IF m.code # 0 THEN m.code ELSE error

Store(m) ==
  [i \in Outs |-> IF job.groups[i] = m.task THEN m.data[Place(m.task, i)] ELSE out[i]]

\* The outputs are stored; storing one that is not there reads past the end.
Outputs(m) ==
  IF m.data = <<>> /\ Places(m.task) # {} THEN pc' = "crashed" /\ UNCHANGED out
  ELSE out' = Store(m) /\ UNCHANGED pc

Remaining(more) == outstanding - 1 + Cardinality(more)

\* The master function.
Answered(m) ==
  /\ answered' = answered \cup {m.task}
  /\ Note(m)
  /\ Outputs(m)
  /\ LET more == IF job.op = "compress" THEN Pushed(Guide(m)) ELSE {}
     IN /\ todo' = (todo \ {q \in todo : q.task = m.task}) \cup more
        /\ outstanding' = Remaining(more)
        /\ nextTask' = nextTask + Cardinality(more)

Receive(m) ==
  /\ pc = "queue"
  /\ m \in replies
  /\ Answered(m)
  /\ replies' = replies \ {m}
  /\ given' = [w \in Workers |-> IF given[w] # None /\ given[w].task = m.task THEN None ELSE given[w]]
  /\ UNCHANGED job

\* A single rank does each task itself.
Alone ==
  /\ job.workers = 0 /\ pc = "queue" /\ todo # {}
  /\ Answered(Reply(First.task))
  /\ UNCHANGED <<job, given, replies>>

Drained == todo = {} /\ \A w \in Workers : given[w] = None

\* work_queue returns; compress_many returns its error code instead of its own.
Return ==
  /\ pc = "queue" /\ Drained
  /\ pc' = "done"
  /\ ret' = IF job.op = "compress" THEN 0 ELSE ret
  /\ UNCHANGED <<job, out, todo, given, replies, answered, outstanding, nextTask, error>>

Finished == pc # "queue" /\ UNCHANGED vars

Step == \/ \E w \in Workers : Assign(w) \/ Work(w)
        \/ \E m \in replies : Receive(m)
        \/ Alone \/ Return

Next == Step \/ Finished

\* Workers run, the child returns, MPI delivers.
Spec == Init /\ [][Next]_vars /\ WF_vars(Step)

-----------------------------------------------------------------------------
(***************************************************************************)
(* Properties.                                                             *)
(***************************************************************************)

\* Every variable has its type.
TypeOK ==
  /\ job \in Jobs
  /\ pc \in {"queue", "done", "crashed"}
  /\ out \in [Outs -> [is : {"caller", "made", "failed"}, of : Nat]]
  /\ todo \subseteq Requests
  /\ answered \subseteq Nat
  /\ outstanding \in Nat /\ nextTask \in Nat
  /\ ret \in 0..1 /\ error \in {0, 1, 3}

GivenTasks == {given[w].task : w \in {v \in Workers : given[v] # None}}
TodoTasks  == {q.task : q \in todo}

\* Every variable has its type, and the count of outstanding requests, which decides how
\* many more to push, is the number of requests made and not answered.
Counted == TypeOK /\ outstanding = Cardinality(todo) + Cardinality(GivenTasks)

\* The requests that wait or are with a worker.
Requested == todo \cup {given[w] : w \in {v \in Workers : given[v] # None}}

\* The options of a request are the metrics of one compression, that succeeded and was
\* answered before the request was made; a request after the first that lacks some of
\* them is made only once the plugin's error tells of it.
GuidedBySuccess == \A q \in Requested :
  /\ q.options # {} => \E t \in answered : ~Fails(t) /\ q.options = {t} \X Found(t)
  /\ job.op = "compress" /\ q.task # 0 /\ (\A t \in answered : q.options # {t} \X Names)
       => error # 0

\* When the call returns, each output is what the child made for that very output.
AllMade == pc = "done" => \A i \in Outs : out[i] = Made(i, job.groups[i])

\* A failure on any task is in the plugin's error code at the end of compress_many,
\* whatever order the answers came in.
ErrorKept ==
  pc = "done" /\ job.op = "compress" =>
    (error # 0 <=> \E t \in answered : Fails(t) \/ Lacking(t))

\* The requests are counted right, so what the caller gets back is the truth about
\* every buffer.
Outcome == Counted /\ AllMade /\ ErrorKept

\* Each task is handed out and answered once, those pushed later included, and the
\* queue is worked off, unless the master crashes.
Queue == INSTANCE WorkQueue WITH
  Tasks <- UNION {0..Len(j.groups) : j \in Jobs}, todo <- TodoTasks,
  running <- GivenTasks, done <- answered
EachTaskOnce == Queue!Safe /\ (Queue!Fair \/ <>(pc = "crashed"))
=============================================================================

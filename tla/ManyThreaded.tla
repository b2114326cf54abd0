---------------------------- MODULE ManyThreaded ----------------------------
(***************************************************************************)
(* many_independent_threaded: compress_many and decompress_many with        *)
(* OpenMP.  Each iteration of the parallel loop runs a clone of a child      *)
(* compressor on one group of buffers.  With preserve_metrics the metrics   *)
(* objects that watched a compression are kept, and watch the decompression  *)
(* that follows.  The groups were validated (see ManyIndependent).           *)
(***************************************************************************)
EXTENDS Naturals, Sequences, FiniteSets

CONSTANTS
  Threads,   \* the threads of the loop: many_independent_threaded:nthreads
  Setups,    \* how the plugin is configured, a bound: see SetupAssumption
  Calls,     \* the calls a program makes, a bound: see CallAssumption
  MaxCalls,  \* how many it makes, a bound
  Null       \* no metrics object, no iteration

\* children: how many child compressors there are; preserve, collect: preserve_metrics and
\* collect_metrics_on_(de)compression; cancels: OpenMP was started with cancellation.
ASSUME SetupAssumption == \A s \in Setups :
  /\ DOMAIN s = {"children", "preserve", "collect", "cancels"}
  /\ s.children \in Nat \ {0}
  /\ s.preserve \in BOOLEAN /\ s.collect \in BOOLEAN /\ s.cancels \in BOOLEAN

\* groups: the groups of buffers in the order of their numbers; fails: the groups on
\* which the child fails.
ASSUME CallAssumption == \A c \in Calls :
  /\ DOMAIN c = {"op", "groups", "fails"}
  /\ c.op \in {"compress", "decompress"} /\ c.groups \in Seq(Nat)

\* A metrics object is the sequence of what it has watched: in which call, which operation, on
\* which group.
Watched == Seq([number : 1..MaxCalls, op : {"compress", "decompress"}, group : Nat])

ASSUME NullAssumption == Null \notin Nat /\ Null \notin Watched

\* set_options refuses a number of threads that is not positive.
ASSUME BoundAssumption == Threads # {} /\ MaxCalls \in Nat

VARIABLES
  setup,   \* the configuration
  call,    \* the call that is running, or the last one
  number,  \* how many calls there have been
  mem,     \* preserve_metrics_mem
  pc,      \* where each thread is
  idx,     \* each thread's iteration
  watch,   \* the metrics object of each thread's clone
  nextIdx, \* the next iteration the schedule hands out
  out,     \* who made each group's outputs in this call
  tmp,     \* tmp_metrics_results, by child
  results, \* metrics_results, by child
  status,  \* the status of the call
  error,   \* error_code()
  made,    \* the setup the last call was made with, a history variable
  packed   \* the last compression that kept its metrics, a history variable

vars == <<setup, call, number, mem, pc, idx, watch, nextIdx, out, tmp, results, status, error, made, packed>>

\* A metrics object that has watched nothing.
Fresh == <<>>
Seen(c, g) == [number |-> number, op |-> c.op, group |-> g]

Iterations == 1..Len(call.groups)
Children   == UNION {1..s.children : s \in Setups}
Crashed    == \E t \in Threads : pc[t] = "crashed"
Running    == ~Crashed /\ \E t \in Threads : pc[t] # "idle"

-----------------------------------------------------------------------------
Init ==
  /\ setup \in Setups
  /\ call = [op |-> "decompress", groups |-> <<>>, fails |-> {}]
  /\ number = 0
  /\ mem = <<>>
  /\ pc = [t \in Threads |-> "idle"]
  /\ idx = [t \in Threads |-> Null]
  /\ watch = [t \in Threads |-> Fresh]
  /\ nextIdx = 1
  /\ out = <<>>
  /\ tmp = [k \in Children |-> Fresh] /\ results = [k \in Children |-> Fresh]
  /\ status = 0 /\ error = 0
  /\ packed = [number |-> 0, groups |-> <<>>]
  /\ made = setup

\* set_options: other children or other choices, between two calls.  What was kept stays.
SetOptions(s) ==
  /\ ~Running /\ ~Crashed /\ number < MaxCalls /\ s # setup
  /\ setup' = s
  /\ UNCHANGED <<call, number, mem, pc, idx, watch, nextIdx, out, tmp, results, status, error, made, packed>>

\* vector::resize: new elements are null.
Resized(m, n) == [i \in 1..n |-> IF i <= Len(m) THEN m[i] ELSE Null]

\* A call of compress_many or decompress_many up to the loop.  Metrics are made room
\* for before the number of children is checked.
Begin(c) ==
  /\ ~Running /\ ~Crashed /\ number < MaxCalls
  /\ call' = c /\ number' = number + 1 /\ made' = setup
  /\ mem' = IF setup.preserve /\ c.op = "compress" THEN Resized(mem, Len(c.groups)) ELSE mem
  /\ out' = [i \in 1..Len(c.groups) |-> <<>>]
  /\ nextIdx' = 1
  /\ tmp' = [k \in Children |-> Fresh]
  /\ IF setup.children > Len(c.groups)
     THEN /\ status' = 2 /\ error' = 2
          /\ UNCHANGED <<pc, packed>>
     ELSE /\ status' = 0 /\ error' = 0
          /\ pc' = [t \in Threads |-> "loop"]
          /\ packed' = IF setup.preserve /\ c.op = "compress" /\ ~setup.cancels
                       THEN [number |-> number + 1, groups |-> c.groups] ELSE packed
  /\ UNCHANGED <<setup, idx, watch, results>>

\* Mutant: without omp for, a thread's first iteration is not taken from the others'.
Advance_Late(t) == nextIdx' = IF idx[t] = Null THEN nextIdx ELSE nextIdx + 1

\* The iteration is this thread's only.
Advance(t) == nextIdx' = nextIdx + 1

More == nextIdx <= Len(call.groups)

\* schedule(dynamic): an idle thread takes the next iteration.
Take(t) ==
  /\ pc[t] = "loop"
  /\ IF More
     THEN /\ idx' = [idx EXCEPT ![t] = nextIdx]
          /\ Advance(t)
          /\ pc' = [pc EXCEPT ![t] = "clone"]
     ELSE /\ pc' = [pc EXCEPT ![t] = "barrier"]
          /\ UNCHANGED <<idx, nextIdx>>
  /\ UNCHANGED <<setup, call, number, mem, watch, out, tmp, results, status, error, made, packed>>

\* The child of an iteration.
Child(i) == IF setup.children = 1 THEN 1 ELSE i

Restores == setup.preserve /\ call.op = "decompress"
Archives == setup.preserve /\ call.op = "compress"

\* Mutant: metrics are restored in the order threads ask for them.
Slot_Next(t) == nextIdx - 1

Slot(t) == idx[t]

\* The child is cloned, a clone of nothing being a crash as is restoring what was never
\* archived; the clone's metrics are fresh or those kept, which leaves null behind.
Clone(t) ==
  /\ pc[t] = "clone"
  /\ IF Child(idx[t]) > setup.children \/ (Restores /\ Slot(t) > Len(mem))
     THEN pc' = [pc EXCEPT ![t] = "crashed"] /\ UNCHANGED <<watch, mem>>
     ELSE /\ pc' = [pc EXCEPT ![t] = "act"]
          /\ watch' = [watch EXCEPT ![t] = IF Restores THEN mem[Slot(t)] ELSE Fresh]
          /\ mem' = IF Restores THEN [mem EXCEPT ![Slot(t)] = Null] ELSE mem
  /\ UNCHANGED <<setup, call, number, idx, nextIdx, out, tmp, results, status, error, made, packed>>

Fails(t) == call.groups[idx[t]] \in call.fails

\* The clone compresses or decompresses its group; its metrics watch.
Act(t) ==
  /\ pc[t] = "act"
  /\ watch' = [watch EXCEPT ![t] = IF @ = Null THEN Null
                                   ELSE Append(@, Seen(call, call.groups[idx[t]]))]
  /\ out' = [out EXCEPT ![idx[t]] = Append(@, t)]
  /\ pc' = [pc EXCEPT ![t] = "collect"]
  /\ UNCHANGED <<setup, call, number, mem, idx, nextIdx, tmp, results, status, error, made, packed>>

\* What the clone's metrics report replaces what another iteration reported under the
\* same name (copy_from, in a critical section).
Collect(t) ==
  /\ pc[t] = "collect"
  /\ tmp' = IF setup.collect /\ watch[t] # Null
            THEN [tmp EXCEPT ![Child(idx[t])] = watch[t]] ELSE tmp
  /\ pc' = [pc EXCEPT ![t] = "archive"]
  /\ UNCHANGED <<setup, call, number, mem, idx, watch, nextIdx, out, results, status, error, made, packed>>

Archive(t) ==
  /\ pc[t] = "archive"
  /\ mem' = IF Archives THEN [mem EXCEPT ![idx[t]] = watch[t]] ELSE mem
  /\ pc' = [pc EXCEPT ![t] = "note"]
  /\ UNCHANGED <<setup, call, number, idx, watch, nextIdx, out, tmp, results, status, error, made, packed>>

\* Mutant: the status of the last iteration is kept.
Noted_Last(t) ==
  /\ status' = IF Fails(t) THEN 1 ELSE 0
  /\ error' = IF Fails(t) THEN 1 ELSE error

\* A failure is noted in a critical section.
Noted(t) ==
  /\ status' = IF Fails(t) THEN 1 ELSE status
  /\ error' = IF Fails(t) THEN 1 ELSE error

\* Mutant: a thread that is cancelled never comes to the barrier.
AfterIteration_Gone(t) == IF Fails(t) /\ setup.cancels THEN "idle" ELSE "loop"

\* With cancellation a failure ends the thread's loop.
AfterIteration(t) == IF Fails(t) /\ setup.cancels THEN "barrier" ELSE "loop"

\* The end of an iteration.
Note(t) ==
  /\ pc[t] = "note"
  /\ Noted(t)
  /\ pc' = [pc EXCEPT ![t] = AfterIteration(t)]
  /\ UNCHANGED <<setup, call, number, mem, idx, watch, nextIdx, out, tmp, results, made, packed>>

\* The barrier at the end of the parallel region.
Joined == \A t \in Threads : pc[t] = "barrier"

\* The call returns.
Return ==
  /\ Joined
  /\ results' = IF setup.collect
                THEN [k \in Children |-> IF tmp[k] = Fresh THEN results[k] ELSE tmp[k]]
                ELSE results
  /\ pc' = [t \in Threads |-> "idle"]
  /\ idx' = [t \in Threads |-> Null]
  /\ watch' = [t \in Threads |-> Fresh]
  /\ UNCHANGED <<setup, call, number, mem, nextIdx, out, tmp, status, error, made, packed>>

ThreadStep(t) ==
  ~Crashed /\ (Take(t) \/ Clone(t) \/ Act(t) \/ Collect(t) \/ Archive(t) \/ Note(t))

\* The program makes no more calls, or has crashed.
Finished == (Crashed \/ (~Running /\ number = MaxCalls)) /\ UNCHANGED vars

Next == (\E c \in Calls : Begin(c)) \/ (\E s \in Setups : SetOptions(s)) \/ (\E t \in Threads : ThreadStep(t))
        \/ Return \/ Finished

\* The threads of the loop are scheduled and the child compressors return.
Spec == Init /\ [][Next]_vars /\ WF_vars(Return) /\ \A t \in Threads : WF_vars(ThreadStep(t))

-----------------------------------------------------------------------------
(***************************************************************************)
(* Properties.                                                             *)
(***************************************************************************)
Returned == ~Running /\ ~Crashed /\ number > 0
Worked   == Returned /\ status # 2

\* Every variable has its type; iterations in hand are of this call.
TypeOK ==
  /\ setup \in Setups /\ number \in 0..MaxCalls
  /\ mem \in Seq(Watched \cup {Null})
  /\ pc \in [Threads -> {"idle", "loop", "clone", "act", "collect", "archive", "note",
                         "barrier", "crashed"}]
  /\ idx \in [Threads -> Nat \cup {Null}]
  /\ \A t \in Threads : pc[t] \in {"clone", "act", "collect", "archive", "note"} => idx[t] \in Iterations
  /\ watch \in [Threads -> Watched \cup {Null}]
  /\ tmp \in [Children -> Watched] /\ results \in [Children -> Watched]
  /\ status \in 0..2 /\ error \in 0..2

\* When the call returns, every group was worked on by one thread, once; with
\* cancellation a failed call may have left groups out.
EachOnce == TypeOK /\ (Worked => \A i \in DOMAIN out :
  Len(out[i]) = 1 \/ (made.cancels /\ status # 0 /\ out[i] = <<>>))

\* The call fails just when the child failed on a group it was run on, whichever thread
\* finished last.
FailureKept == Worked =>
  (status # 0 <=> \E i \in DOMAIN out : out[i] # <<>> /\ call.groups[i] \in call.fails)

\* The decompression that follows a compression of the same groups is watched by the
\* metrics that watched the compression of the very same group, whichever threads took
\* which groups.
RestoredOwn == \A t \in Threads :
  /\ pc[t] = "act" /\ Restores
  /\ packed = [number |-> number - 1, groups |-> call.groups]
  => watch[t] = <<[number |-> number - 1, op |-> "compress", group |-> call.groups[idx[t]]]>>

\* A compression whose every group was worked on leaves a metrics object for each, for
\* the decompression that follows.
Archived == Worked /\ made.preserve /\ call.op = "compress" /\ (\A i \in DOMAIN out : out[i] # <<>>) =>
  /\ Len(mem) = Len(call.groups)
  /\ \A i \in DOMAIN mem : mem[i] = <<Seen(call, call.groups[i])>>

\* Metrics stay with their group, from a compression to its decompression.
MetricsKept == RestoredOwn /\ Archived

\* With a child for each group, what is collected under a child's name was reported for
\* its own group, in this call if metrics were there to watch.
CollectedOwn == Worked /\ made.collect /\ made.children = Len(call.groups) =>
  \A k \in 1..made.children : tmp[k] # Fresh =>
    results[k] = tmp[k] /\ tmp[k][Len(tmp[k])] = Seen(call, call.groups[k])

\* No group is given another group's metrics, neither to watch it nor to report on it.
MetricsOwn == MetricsKept /\ CollectedOwn

\* A call returns or crashes.
Returns == Running ~> ~Running
=============================================================================

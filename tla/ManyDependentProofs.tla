------------------------- MODULE ManyDependentProofs -------------------------
(***************************************************************************)
(* Proofs about ManyDependent, for any call: it works its queue as          *)
(* work_queue promises, each task handed out and answered once, and what    *)
(* guides a request is a compression that succeeded.                       *)
(***************************************************************************)
EXTENDS ManyDependent, FiniteSetTheorems, WellFoundedInduction, TLAPS

Tasks    == UNION {0..Len(j.groups) : j \in Jobs}
OptionSets == SUBSET (Nat \X Nat)

Typed ==
  /\ job \in Jobs
  /\ todo \subseteq Requests
  /\ given \in [Workers -> Requests \cup {None}]
  /\ answered \subseteq Nat
  /\ outstanding \in Int /\ nextTask \in Nat

\* A task waits, or is with a worker, or is answered, and there is one request for it.
Apart ==
  /\ \A p, q \in todo : p.task = q.task => p = q
  /\ \A v, w \in Workers : given[v] # None /\ given[w] # None /\ given[v].task = given[w].task => v = w
  /\ \A q \in todo : \A w \in Workers : given[w] # None => given[w].task # q.task
  /\ \A q \in todo : q.task \notin answered
  /\ \A w \in Workers : given[w] # None => given[w].task \notin answered

\* A task pushed next was not pushed before, and is a task of the call.
Issued == TodoTasks \cup GivenTasks \cup answered
Numbered == /\ Issued \subseteq 0..Len(job.groups)
            /\ job.op = "compress" => \A t \in Issued : t < nextTask

\* An answer is a worker's, of a task that worker still has.
Honest == \A m \in replies : m.task \in GivenTasks /\ m = Reply(m.task)

Failing(t) == Fails(t) \/ Lacking(t)
\* The plugin's error tells of an answer that failed.
Telling == job.op = "compress" => (error # 0 <=> \E t \in answered : Failing(t))

IInv == Typed /\ Apart /\ Numbered /\ Honest /\ GuidedBySuccess /\ Telling

USE JobAssumption, NoneAssumption

(***************************************************************************)
(* The queue.                                                              *)
(***************************************************************************)
\* A set of numbers that is not empty has a least one.
LEMMA LeastOf ==
  ASSUME NEW S \in SUBSET Nat, S # {}
  PROVE  \E x \in S : \A y \in S : x <= y
<1>1. PICK x \in S : \A y \in S : ~(<<y, x>> \in OpToRel(<, Nat))
  BY NatLessThanWellFounded, WFMin
<1>2. \A y \in S : ~(y < x)
  BY <1>1 DEF OpToRel
<1> QED
  BY <1>2

\* The first request is one of those in the queue.
LEMMA FirstIn ==
  ASSUME Typed, todo # {}
  PROVE  First \in todo
<1>1. TodoTasks \in SUBSET Nat /\ TodoTasks # {}
  BY DEF Typed, Requests, TodoTasks
<1>2. PICK x \in TodoTasks : \A y \in TodoTasks : x <= y
  BY <1>1, LeastOf
<1>3. \E q \in todo : \A p \in todo : q.task <= p.task
  BY <1>2 DEF TodoTasks
<1> QED
  BY <1>3 DEF First

\* The smaller of two numbers.
LEMMA MinOfTwo ==
  ASSUME NEW a \in Int, NEW b \in Int
  PROVE  /\ Min({a, b}) \in Int /\ Min({a, b}) <= a /\ Min({a, b}) <= b
<1>1. \E x \in {a, b} : \A y \in {a, b} : x <= y
  OBVIOUS
<1> QED
  BY <1>1 DEF Min

\* The requests pushed have the next numbers, one each, and are as many as the counter
\* of tasks goes on by.
LEMMA PushedNext ==
  ASSUME Typed, NEW options \in OptionSets
  PROVE  /\ Pushed(options) \subseteq [task : Nat, options : {options}]
         /\ IsFiniteSet(Pushed(options)) /\ Cardinality(Pushed(options)) \in Nat
         /\ \A q \in Pushed(options) : /\ q.task < Len(job.groups)
                                    /\ nextTask <= q.task
                                    /\ q.task < nextTask + Cardinality(Pushed(options))
<1> DEFINE hi == Min({nextTask + NumWorkers - outstanding, Len(job.groups) - 1})
           T == nextTask..hi
           f == [t \in T |-> Request(t, options)]
<1>1. Len(job.groups) \in Nat /\ nextTask \in Nat /\ NumWorkers \in Nat /\ outstanding \in Int
  BY DEF Typed, NumWorkers
<1>2. hi \in Int /\ hi <= Len(job.groups) - 1
  <2> DEFINE a == nextTask + NumWorkers - outstanding
             b == Len(job.groups) - 1
  <2>1. a \in Int /\ b \in Int
    BY <1>1
  <2> HIDE DEF a, b
  <2>2. Min({a, b}) \in Int /\ Min({a, b}) <= b
    BY <2>1, MinOfTwo
  <2> QED
    BY <2>2 DEF a, b
<1>3. Pushed(options) = {Request(t, options) : t \in T}
  BY DEF Pushed
<1> HIDE DEF hi
<1>4. IsFiniteSet(T) /\ Cardinality(T) = IF nextTask > hi THEN 0 ELSE hi - nextTask + 1
  <2>1. nextTask \in Int
    BY <1>1
  <2> QED
    BY <1>2, <2>1, FS_Interval
<1>5. f \in Surjection(T, Pushed(options)) /\ f \in Injection(T, Pushed(options))
  BY <1>3 DEF Surjection, Injection, IsInjective, Request
<1>6. IsFiniteSet(Pushed(options)) /\ Cardinality(Pushed(options)) = Cardinality(T)
  BY <1>4, <1>5, FS_Surjection
<1>7. \A q \in Pushed(options) : q.task \in T /\ q.options = options /\ q \in [task : Nat, options : {options}]
  BY <1>1, <1>2, <1>3 DEF Request
<1>8. ASSUME NEW q \in Pushed(options)
      PROVE  q.task < Len(job.groups) /\ nextTask <= q.task /\ q.task < nextTask + Cardinality(Pushed(options))
  BY <1>1, <1>2, <1>4, <1>6, <1>7
<1> QED
  BY <1>1, <1>2, <1>4, <1>6, <1>7, <1>8

(***************************************************************************)
(* The initial state.                                                      *)
(***************************************************************************)
LEMMA InitQueue ==
  ASSUME Init
  PROVE  /\ todo \subseteq Requests /\ Cardinality(todo) \in Nat
         /\ \A q \in todo : q.options = {} /\ q.task \in 0..Len(job.groups)
         /\ \A p, q \in todo : p.task = q.task => p = q
         /\ job.op = "compress" => Cardinality(todo) = 1 /\ \A q \in todo : q.task = 0
<1>1. Len(job.groups) \in Nat /\ Outs = 1..Len(job.groups)
  BY DEF Init, Outs
<1>2. CASE job.op = "compress"
  <2>1. todo = {Request(0, {})}
    BY <1>2 DEF Init
  <2>2. Cardinality(todo) = 1
    BY <2>1, FS_Singleton
  <2> QED
    BY <1>1, <2>1, <2>2 DEF Request, Requests
<1>3. CASE job.op # "compress"
  <2> DEFINE f == [i \in Outs |-> Request(i - 1, {})]
  <2>1. todo = {Request(i - 1, {}) : i \in Outs}
    BY <1>3 DEF Init
  <2>2. f \in Surjection(Outs, todo)
    BY <2>1 DEF Surjection
  <2>3. IsFiniteSet(Outs)
    BY <1>1, FS_Interval
  <2>4. Cardinality(todo) \in Nat
    BY <2>2, <2>3, FS_Surjection, FS_CardinalityType
  <2>5. \A i \in Outs : i - 1 \in 0..Len(job.groups) /\ Request(i - 1, {}) \in Requests
    BY <1>1 DEF Request, Requests
  <2>6. \A i \in Outs : Request(i - 1, {}).task = i - 1 /\ Request(i - 1, {}).options = {}
    BY DEF Request
  <2>7. \A p, q \in todo : p.task = q.task => p = q
    BY <1>1, <2>1, <2>6
  <2> QED
    BY <1>3, <2>1, <2>4, <2>5, <2>6, <2>7
<1> QED
  BY <1>2, <1>3

LEMMA IInvInit == Init => IInv
<1> SUFFICES ASSUME Init PROVE IInv
  OBVIOUS
<1>1. Typed
  BY InitQueue DEF Init, Typed
<1>2. Apart
  BY InitQueue DEF Init, Apart
<1>3. Numbered
  BY InitQueue DEF Init, Numbered, Issued, TodoTasks, GivenTasks
<1>4. Honest /\ GuidedBySuccess /\ Telling
  BY InitQueue DEF Init, Honest, GuidedBySuccess, Requested, Telling
<1> QED
  BY <1>1, <1>2, <1>3, <1>4 DEF IInv

(***************************************************************************)
(* A worker is given a request, and works.                                 *)
(***************************************************************************)
LEMMA AssignIs ==
  ASSUME IInv, NEW w \in Workers, Assign(w)
  PROVE  /\ First \in todo /\ First \in Requests /\ First # None /\ given[w] = None
         /\ todo' = todo \ {First}
         /\ given' \in [Workers -> Requests \cup {None}]
         /\ given'[w] = First /\ \A v \in Workers \ {w} : given'[v] = given[v]
         /\ UNCHANGED <<job, pc, replies, answered, outstanding, nextTask, error>>
         /\ TodoTasks' = TodoTasks \ {First.task}
         /\ GivenTasks' = GivenTasks \cup {First.task}
<1>1. First \in todo /\ First \in Requests /\ First # None
  BY FirstIn DEF IInv, Typed, Assign, Requests
<1>2. /\ todo' = todo \ {First} /\ given' = [given EXCEPT ![w] = First] /\ given[w] = None
      /\ UNCHANGED <<job, pc, replies, answered, outstanding, nextTask, error>>
  BY DEF Assign
<1>3. /\ given' \in [Workers -> Requests \cup {None}] /\ given'[w] = First
      /\ \A v \in Workers \ {w} : given'[v] = given[v]
  BY <1>1, <1>2 DEF IInv, Typed
<1>4. TodoTasks' = TodoTasks \ {First.task}
  BY <1>1, <1>2 DEF IInv, Apart, TodoTasks
<1>5. GivenTasks' = GivenTasks \cup {First.task}
  BY <1>1, <1>2, <1>3 DEF GivenTasks, Workers
<1> QED
  BY <1>1, <1>2, <1>3, <1>4, <1>5

\* What a task's answer is depends on nothing but the call.
LEMMA SameReply == job' = job => \A t : Reply(t)' = Reply(t)
BY DEF Reply, CompressReply, DecompressReply, OutputData, Made, Metrics, Found, Lacking, Fails,
       Places, Place, Names, Outs

\* Nor what fails or is found.
LEMMA SameFailures ==
  job' = job => /\ Names' = Names
                /\ \A t : (Fails(t)' <=> Fails(t)) /\ (Failing(t)' <=> Failing(t)) /\ Found(t)' = Found(t)
BY DEF Failing, Lacking, Metrics, Found, Fails, Places, Names, Outs

\* A step that makes no request and no answer keeps what the requests have come from.
LEMMA GuidedStays ==
  ASSUME GuidedBySuccess, Requested' \subseteq Requested, UNCHANGED <<job, answered, error>>
  PROVE  GuidedBySuccess'
BY SameFailures DEF GuidedBySuccess

LEMMA TellingStays == ASSUME Telling, UNCHANGED <<job, answered, error>> PROVE Telling'
BY SameFailures DEF Telling

LEMMA AssignStep == ASSUME IInv, NEW w \in Workers, Assign(w) PROVE IInv'
<1>1. Workers' = Workers
  BY AssignIs DEF Workers
<1>2. Typed'
  BY <1>1, AssignIs DEF IInv, Typed
<1>3. Apart'
  BY <1>1, AssignIs DEF IInv, Apart
<1>4. Numbered'
  BY AssignIs DEF IInv, Numbered, Issued, TodoTasks
<1>5. Honest'
  BY AssignIs, SameReply DEF IInv, Honest
<1>6. GuidedBySuccess'
  BY <1>1, AssignIs, GuidedStays DEF IInv, Requested
<1>7. Telling'
  BY AssignIs, TellingStays DEF IInv
<1> QED
  BY <1>2, <1>3, <1>4, <1>5, <1>6, <1>7 DEF IInv

\* An answer names its task.
LEMMA ReplyNames == ASSUME NEW t PROVE Reply(t).task = t
BY DEF Reply, CompressReply, DecompressReply

LEMMA WorkStep == ASSUME IInv, NEW w \in Workers, Work(w) PROVE IInv'
<1>1. /\ replies' = replies \cup {Reply(given[w].task)} /\ given[w] # None
      /\ UNCHANGED <<job, pc, out, todo, given, answered, outstanding, nextTask, ret, error>>
  BY DEF Work
<1>2. \A t : Reply(t)' = Reply(t)
  BY <1>1, SameReply
<1>3. GivenTasks' = GivenTasks /\ TodoTasks' = TodoTasks /\ Workers' = Workers
  BY <1>1 DEF GivenTasks, TodoTasks, Workers
<1>4. given[w].task \in GivenTasks
  BY <1>1 DEF GivenTasks
<1>5. Honest'
  BY <1>1, <1>2, <1>3, <1>4, ReplyNames DEF IInv, Honest
<1>6. Typed' /\ Apart' /\ Numbered'
  BY <1>1, <1>3 DEF IInv, Typed, Apart, Numbered, Issued
<1>7. GuidedBySuccess' /\ Telling'
  BY <1>1, <1>3, GuidedStays, TellingStays DEF IInv, Requested
<1> QED
  BY <1>5, <1>6, <1>7 DEF IInv

(***************************************************************************)
(* The master is answered.                                                 *)
(***************************************************************************)
More(m) == IF job.op = "compress" THEN Pushed(Guide(m)) ELSE {}

\* The metrics of a task are those of a success, and none is before a missing one.
LEMMA MetricsAre ==
  ASSUME job \in Jobs, NEW t \in Nat
  PROVE  /\ Metrics(t) \in OptionSets
         /\ Metrics(t) # {} => ~Fails(t) /\ Metrics(t) = {t} \X Found(t)
         /\ \A o \in Metrics(t) : \A k \in 1..o[2] : <<t, k>> \in Metrics(t)
<1>1. job.names \in Nat /\ Found(t) \subseteq Names /\ Names \subseteq Nat
  BY DEF Found, Names
<1>2. CASE Fails(t)
  BY <1>2 DEF Metrics, OptionSets
<1>3. CASE ~Fails(t)
  <2>1. Metrics(t) = {t} \X Found(t)
    BY <1>3 DEF Metrics
  <2>2. ASSUME NEW j \in Found(t), NEW k \in 1..j PROVE k \in Found(t)
    BY <1>1 DEF Found, Names
  <2> QED
    BY <1>1, <1>3, <2>1, <2>2 DEF OptionSets
<1> QED
  BY <1>2, <1>3

\* The master takes the metrics the worker found, all of them.
LEMMA GuideIs ==
  ASSUME job \in Jobs, job.op = "compress", NEW m, m.task \in Nat, m = Reply(m.task)
  PROVE  /\ Guide(m) = Metrics(m.task) /\ Guide(m) \in OptionSets
         /\ (Guide(m) # {m.task} \X Names) <=> Lacking(m.task)
         /\ m.code \in {0, 1, 3} /\ (m.code # 0 <=> Failing(m.task))
<1> DEFINE t == m.task
<1>1. m.options = Metrics(t) /\ m.code = IF Fails(t) THEN 1 ELSE IF Lacking(t) THEN 3 ELSE 0
  BY DEF Reply, CompressReply
<1>2. Guide(m) = {o \in Metrics(t) : \A k \in 1..o[2] : <<t, k>> \in Metrics(t)}
  BY <1>1 DEF Guide
<1>3. Metrics(t) \in OptionSets /\ \A o \in Metrics(t) : \A k \in 1..o[2] : <<t, k>> \in Metrics(t)
  BY MetricsAre
<1>4. Guide(m) = Metrics(t)
  BY <1>2, <1>3
<1> QED
  BY <1>1, <1>3, <1>4 DEF Lacking, Failing

\* What the answer makes room for: requests of tasks not seen before, with its metrics.
LEMMA MoreIs ==
  ASSUME IInv, NEW m, m = Reply(m.task), m.task \in Nat
  PROVE  /\ More(m) \subseteq Requests /\ Cardinality(More(m)) \in Nat
         /\ \A p, q \in More(m) : p.task = q.task => p = q
         /\ \A q \in More(m) : q.task \notin Issued /\ q.task \in 0..Len(job.groups)
         /\ \A q \in More(m) : job.op = "compress" => q.task < nextTask + Cardinality(More(m))
         /\ \A q \in More(m) : job.op = "compress" /\ q.options = Metrics(m.task)
<1>1. CASE job.op = "compress"
  <2>1. Guide(m) \in OptionSets /\ Guide(m) = Metrics(m.task)
    BY <1>1, GuideIs DEF IInv, Typed
  <2>2. More(m) = Pushed(Guide(m))
    BY <1>1 DEF More
  <2>3. /\ Pushed(Guide(m)) \subseteq [task : Nat, options : {Guide(m)}]
        /\ Cardinality(Pushed(Guide(m))) \in Nat
        /\ \A q \in Pushed(Guide(m)) : /\ q.task < Len(job.groups) /\ nextTask <= q.task
                                       /\ q.task < nextTask + Cardinality(Pushed(Guide(m)))
    BY <2>1, PushedNext DEF IInv
  <2> HIDE DEF Guide
  <2>4. \A t \in Issued : t < nextTask /\ t \in Nat
    BY <1>1 DEF IInv, Numbered
  <2>5. \A q \in More(m) : q.task \in Nat /\ q.options = Guide(m) /\ q \in [task : Nat, options : {Guide(m)}]
    BY <2>2, <2>3
  <2>6. \A p, q \in More(m) : p.task = q.task => p = q
    BY <2>5
  <2>7. \A q \in More(m) : q.task \notin Issued /\ q.task \in 0..Len(job.groups)
    <3>1. Len(job.groups) \in Nat /\ nextTask \in Nat
      BY DEF IInv, Typed
    <3> QED
      BY <2>2, <2>3, <2>4, <2>5, <3>1
  <2>8. More(m) \subseteq Requests
    BY <2>1, <2>5 DEF Requests, OptionSets
  <2> QED
    BY <1>1, <2>1, <2>2, <2>3, <2>5, <2>6, <2>7, <2>8
<1>2. CASE job.op # "compress"
  BY <1>2, FS_EmptySet DEF More
<1> QED
  BY <1>1, <1>2

\* The queue after an answer, from a worker or from the only rank.
AnsweredBy(m) ==
  /\ m = Reply(m.task) /\ m.task \in TodoTasks \cup GivenTasks
  /\ Answered(m) /\ job' = job
  /\ given' = [w \in Workers |-> IF given[w] # None /\ given[w].task = m.task THEN None ELSE given[w]]
  /\ replies' \subseteq replies /\ \A x \in replies' : x.task # m.task

LEMMA AnsweredIs ==
  ASSUME IInv, NEW m, AnsweredBy(m)
  PROVE  /\ m.task \in Nat /\ m.task \in Issued
         /\ todo' = (todo \ {q \in todo : q.task = m.task}) \cup More(m)
         /\ answered' = answered \cup {m.task}
         /\ outstanding' = outstanding - 1 + Cardinality(More(m))
         /\ nextTask' = nextTask + Cardinality(More(m))
         /\ TodoTasks' = (TodoTasks \ {m.task}) \cup {q.task : q \in More(m)}
         /\ GivenTasks' = GivenTasks \ {m.task}
<1>1. m.task \in Issued /\ m.task \in Nat
  BY DEF AnsweredBy, IInv, Numbered, Issued
<1>2. /\ todo' = (todo \ {q \in todo : q.task = m.task}) \cup More(m)
      /\ answered' = answered \cup {m.task}
      /\ outstanding' = outstanding - 1 + Cardinality(More(m))
      /\ nextTask' = nextTask + Cardinality(More(m))
  BY DEF AnsweredBy, Answered, More, Remaining
<1>3. TodoTasks' = (TodoTasks \ {m.task}) \cup {q.task : q \in More(m)}
  BY <1>2 DEF TodoTasks
<1>4. GivenTasks' = GivenTasks \ {m.task}
  BY DEF AnsweredBy, GivenTasks, Workers
<1> QED
  BY <1>1, <1>2, <1>3, <1>4

LEMMA AnsweredStep == ASSUME IInv, NEW m, AnsweredBy(m) PROVE IInv'
<1>1. /\ job' = job /\ Workers' = Workers
      /\ \A w \in Workers : given'[w] = IF given[w] # None /\ given[w].task = m.task THEN None ELSE given[w]
  BY DEF AnsweredBy, Workers
<1>2. m.task \in Nat /\ m = Reply(m.task)
  BY AnsweredIs DEF AnsweredBy
<1>3. Typed'
  <2>1. given' \in [Workers -> Requests \cup {None}]
    BY DEF AnsweredBy, IInv, Typed
  <2>2. More(m) \subseteq Requests /\ Cardinality(More(m)) \in Nat
    BY <1>2, MoreIs
  <2>3. todo' \subseteq Requests /\ answered' \subseteq Nat
    <3>1. todo' \subseteq todo \cup More(m) /\ answered' = answered \cup {m.task}
      BY AnsweredIs
    <3> QED
      BY <1>2, <2>2, <3>1 DEF IInv, Typed
  <2>4. outstanding' \in Int /\ nextTask' \in Nat
    BY <2>2, AnsweredIs DEF IInv, Typed
  <2> QED
    BY <1>1, <2>1, <2>3, <2>4 DEF IInv, Typed
<1>4. \A q \in More(m) : q.task \notin TodoTasks /\ q.task \notin GivenTasks /\ q.task \notin answered /\ q.task # m.task
  BY <1>2, AnsweredIs, MoreIs DEF Issued
<1>5. Apart'
  <2>1. \A p, q \in todo' : p.task = q.task => p = q
    BY <1>2, <1>4, AnsweredIs, MoreIs DEF IInv, Apart, TodoTasks
  <2>2. \A v, w \in Workers : given'[v] # None /\ given'[w] # None /\ given'[v].task = given'[w].task => v = w
    BY <1>1 DEF IInv, Apart
  <2>3. \A q \in todo' : \A w \in Workers : given'[w] # None => given'[w].task # q.task
    BY <1>1, <1>4, AnsweredIs DEF IInv, Apart, GivenTasks
  <2>4. \A q \in todo' : q.task \notin answered'
    BY <1>4, AnsweredIs DEF IInv, Apart
  <2>5. \A w \in Workers : given'[w] # None => given'[w].task \notin answered'
    BY <1>1, AnsweredIs DEF IInv, Apart
  <2> QED
    BY <1>1, <2>1, <2>2, <2>3, <2>4, <2>5 DEF Apart
<1>6. Numbered'
  <2>1. Issued' \subseteq Issued \cup {q.task : q \in More(m)}
    BY AnsweredIs DEF Issued
  <2>2. Issued' \subseteq 0..Len(job.groups)
    BY <1>2, <2>1, MoreIs DEF IInv, Numbered
  <2>3. job.op = "compress" => \A t \in Issued' : t < nextTask'
    <3> SUFFICES ASSUME job.op = "compress", NEW t \in Issued' PROVE t < nextTask'
      OBVIOUS
    <3>1. nextTask' = nextTask + Cardinality(More(m)) /\ Cardinality(More(m)) \in Nat /\ nextTask \in Nat /\ t \in Nat
      BY <1>2, <2>2, AnsweredIs, MoreIs DEF IInv, Typed
    <3>2. CASE t \in Issued
      BY <3>1, <3>2 DEF IInv, Numbered
    <3>3. CASE t \in {q.task : q \in More(m)}
      BY <1>2, <3>1, <3>3, MoreIs
    <3> QED
      BY <2>1, <3>2, <3>3
  <2> QED
    BY <1>1, <2>2, <2>3 DEF Numbered
<1>7. Honest'
  <2> SUFFICES ASSUME NEW x \in replies' PROVE x.task \in GivenTasks' /\ x = Reply(x.task)'
    BY DEF Honest
  <2>1. x \in replies /\ x.task # m.task
    BY DEF AnsweredBy
  <2> QED
    BY <1>1, <2>1, AnsweredIs, SameReply DEF IInv, Honest
<1>11. job.op = "compress" =>
         /\ m.code \in {0, 1, 3} /\ (m.code # 0 <=> Failing(m.task))
         /\ error' = IF Lacking(m.task) THEN 3 ELSE IF m.code # 0 THEN m.code ELSE error
  BY <1>2, GuideIs DEF AnsweredBy, Answered, Note, IInv, Typed
<1>8. GuidedBySuccess'
  <2>1. Names' = Names /\ \A t : (Fails(t)' <=> Fails(t)) /\ Found(t)' = Found(t)
    BY <1>1, SameFailures
  <2>2. answered' = answered \cup {m.task} /\ job \in Jobs
    BY AnsweredIs DEF IInv, Typed
  <2> SUFFICES ASSUME NEW q \in Requested'
               PROVE  /\ q.options # {} => \E t \in answered' : ~Fails(t) /\ q.options = {t} \X Found(t)
                      /\ job.op = "compress" /\ q.task # 0 /\ (\A t \in answered' : q.options # {t} \X Names)
                           => error' # 0
    BY <1>1, <2>1 DEF GuidedBySuccess
  <2>3. CASE q \in More(m)
    <3>1. job.op = "compress" /\ q.options = Metrics(m.task)
      BY <1>2, <2>3, MoreIs
    <3>2. Metrics(m.task) # {} => ~Fails(m.task) /\ Metrics(m.task) = {m.task} \X Found(m.task)
      BY <1>2, <2>2, MetricsAre
    <3>3. Lacking(m.task) => error' # 0
      BY <1>2, <1>11, <3>1
    <3> QED
      BY <2>2, <3>1, <3>2, <3>3 DEF Lacking
  <2>4. CASE q \notin More(m)
    <3>1. q \in Requested
      BY <1>1, <2>4, AnsweredIs DEF Requested
    <3>2. job.op = "compress" /\ error # 0 => error' # 0
      BY <1>11
    <3> QED
      BY <2>2, <3>1, <3>2 DEF IInv, GuidedBySuccess
  <2> QED
    BY <2>3, <2>4
<1>9. Telling'
  <2>1. \A t : Failing(t)' <=> Failing(t)
    BY <1>1, SameFailures
  <2> SUFFICES ASSUME job.op = "compress" PROVE error' # 0 <=> \E t \in answered' : Failing(t)
    BY <1>1, <2>1 DEF Telling
  <2>3. /\ m.code \in {0, 1, 3} /\ (m.code # 0 <=> Failing(m.task))
        /\ error' = IF Lacking(m.task) THEN 3 ELSE IF m.code # 0 THEN m.code ELSE error
    BY <1>11
  <2>4. answered' = answered \cup {m.task}
    BY AnsweredIs
  <2>5. error # 0 <=> \E t \in answered : Failing(t)
    BY DEF IInv, Telling
  <2>6. CASE Failing(m.task)
    BY <2>3, <2>4, <2>6
  <2>7. CASE ~Failing(m.task)
    <3>1. error' = error
      BY <2>3, <2>7 DEF Failing
    <3> QED
      BY <2>4, <2>5, <2>7, <3>1
  <2> QED
    BY <2>6, <2>7
<1> QED
  BY <1>3, <1>5, <1>6, <1>7, <1>8, <1>9 DEF IInv

LEMMA ReceiveAnswers == ASSUME IInv, NEW m \in replies, Receive(m) PROVE AnsweredBy(m)
<1>1. m = Reply(m.task) /\ m.task \in GivenTasks /\ \A x \in replies : x = Reply(x.task)
  BY DEF IInv, Honest
<1>2. \A x \in replies \ {m} : x.task # m.task
  BY <1>1
<1> QED
  BY <1>1, <1>2 DEF Receive, AnsweredBy

LEMMA AloneAnswers == ASSUME IInv, Alone PROVE AnsweredBy(Reply(First.task)) /\ First \in todo
<1> DEFINE m == Reply(First.task)
<1>1. First \in todo
  BY FirstIn DEF Alone, IInv
<1>2. m.task = First.task
  BY ReplyNames
<1>3. Workers = {}
  BY DEF Alone, Workers
<1>4. GivenTasks = {} /\ given = [w \in Workers |-> IF given[w] # None /\ given[w].task = m.task THEN None ELSE given[w]]
  BY <1>3 DEF GivenTasks, IInv, Typed
<1>5. replies = {}
  BY <1>4 DEF IInv, Honest
<1>6. First.task \in TodoTasks
  BY <1>1 DEF TodoTasks
<1> QED
  BY <1>1, <1>2, <1>4, <1>5, <1>6 DEF Alone, AnsweredBy

LEMMA QuietStep ==
  ASSUME IInv, UNCHANGED <<job, todo, given, replies, answered, outstanding, nextTask, error>>
  PROVE  IInv'
<1>1. Workers' = Workers /\ TodoTasks' = TodoTasks /\ GivenTasks' = GivenTasks /\ Issued' = Issued
  BY DEF Workers, TodoTasks, GivenTasks, Issued
<1>2. \A t : Reply(t)' = Reply(t)
  BY SameReply
<1>3. Typed' /\ Apart' /\ Numbered'
  BY <1>1 DEF IInv, Typed, Apart, Numbered
<1>4. Honest' /\ GuidedBySuccess' /\ Telling'
  BY <1>1, <1>2, GuidedStays, TellingStays DEF IInv, Honest, Requested
<1> QED
  BY <1>3, <1>4 DEF IInv

LEMMA IInvStep == IInv /\ [Next]_vars => IInv'
<1> SUFFICES ASSUME IInv, [Next]_vars PROVE IInv'
  OBVIOUS
<1>1. ASSUME NEW w \in Workers, Assign(w) \/ Work(w) PROVE IInv'
  BY <1>1, AssignStep, WorkStep
<1>2. ASSUME NEW m \in replies, Receive(m) PROVE IInv'
  BY <1>2, ReceiveAnswers, AnsweredStep
<1>3. CASE Alone
  BY <1>3, AloneAnswers, AnsweredStep
<1>4. CASE Return \/ UNCHANGED vars
  BY <1>4, QuietStep DEF Return, vars
<1> QED
  BY <1>1, <1>2, <1>3, <1>4 DEF Next, Step, Finished

\* Every behaviour of a call keeps the invariant (work_queue with the master function).
THEOREM Invariant == Spec => []IInv
BY IInvInit, IInvStep, PTL DEF Spec

-----------------------------------------------------------------------------
(***************************************************************************)
(* The queue is WorkQueue's.                                               *)
(***************************************************************************)
LEMMA QueueInit == Init => Queue!Init
<1> SUFFICES ASSUME Init PROVE Queue!Init
  OBVIOUS
<1>1. TodoTasks \subseteq 0..Len(job.groups)
  BY InitQueue DEF TodoTasks
<1>2. GivenTasks = {} /\ answered = {} /\ job \in Jobs
  BY DEF Init, GivenTasks
<1> QED
  BY <1>1, <1>2 DEF Queue!Init

LEMMA QueueAnswer ==
  ASSUME IInv, NEW m, AnsweredBy(m)
  PROVE  \E t \in Tasks : \E more \in SUBSET Tasks : Queue!Answer(t, more) \/ Queue!DoAlone(t, more)
<1> DEFINE more == {q.task : q \in More(m)}
<1>1. m.task \in Nat /\ m = Reply(m.task) /\ job \in Jobs
  BY AnsweredIs DEF AnsweredBy, IInv, Typed
<1>2. m.task \in Tasks /\ more \in SUBSET Tasks
  BY <1>1, AnsweredIs, MoreIs DEF Tasks, IInv, Numbered
<1>3. more \cap (TodoTasks \cup GivenTasks \cup answered) = {}
  BY <1>1, MoreIs DEF Issued
<1>4. /\ TodoTasks' = (TodoTasks \ {m.task}) \cup more
      /\ GivenTasks' = GivenTasks \ {m.task} /\ answered' = answered \cup {m.task}
  BY AnsweredIs
<1>5. m.task \in TodoTasks => m.task \notin GivenTasks
  BY DEF IInv, Apart, TodoTasks, GivenTasks
<1>6. m.task \in TodoTasks \/ m.task \in GivenTasks
  BY DEF AnsweredBy
<1> HIDE DEF more
<1>7. CASE m.task \in TodoTasks
  <2>1. Queue!DoAlone(m.task, more)
    BY <1>3, <1>4, <1>5, <1>7 DEF Queue!DoAlone
  <2> QED
    BY <1>2, <2>1
<1>8. CASE m.task \notin TodoTasks
  <2>1. Queue!Answer(m.task, more)
    BY <1>3, <1>4, <1>6, <1>8 DEF Queue!Answer
  <2> QED
    BY <1>2, <2>1
<1> QED
  BY <1>7, <1>8

LEMMA QueueStep == IInv /\ [Next]_vars => [Queue!Next]_(Queue!vars)
<1> SUFFICES ASSUME IInv, [Next]_vars PROVE Queue!Next \/ UNCHANGED <<TodoTasks, GivenTasks, answered>>
  BY DEF Queue!vars
<1>1. ASSUME NEW w \in Workers, Assign(w) PROVE Queue!Next
  <2>1. First.task \in TodoTasks /\ First.task \in Tasks
    <3>1. First \in todo /\ todo \subseteq Requests
      BY <1>1, AssignIs DEF IInv, Typed
    <3>2. First.task \in TodoTasks
      BY <3>1 DEF TodoTasks
    <3>3. First.task \in Tasks
      BY <3>1, <3>2 DEF Tasks, IInv, Typed, Numbered, Issued
    <3> QED
      BY <3>2, <3>3
  <2>2. Queue!Take(First.task)
    BY <1>1, <2>1, AssignIs DEF Queue!Take
  <2> QED
    BY <2>1, <2>2 DEF Queue!Next, Tasks
<1>2. ASSUME NEW m, AnsweredBy(m) PROVE Queue!Next
  BY <1>2, QueueAnswer DEF Queue!Next, Tasks
<1>3. ASSUME UNCHANGED <<job, todo, given, answered>> PROVE UNCHANGED <<TodoTasks, GivenTasks, answered>>
  BY <1>3 DEF TodoTasks, GivenTasks, Workers
<1>4. CASE (\E w \in Workers : Work(w)) \/ Return \/ UNCHANGED vars
  BY <1>3, <1>4 DEF Work, Return, vars
<1>5. CASE Alone
  BY <1>2, <1>5, AloneAnswers
<1>6. ASSUME NEW m \in replies, Receive(m) PROVE Queue!Next
  BY <1>2, <1>6, ReceiveAnswers
<1> QED
  BY <1>1, <1>4, <1>5, <1>6 DEF Next, Step, Finished

\* compress_many and decompress_many work their queue as work_queue promises: every task,
\* those the master pushes later included, is handed out once and answered once, and none
\* is pushed that was pushed before.
THEOREM QueueWorked == Spec => Queue!Safe
<1>1. Init /\ [][Next]_vars /\ []IInv => Queue!Safe
  BY QueueInit, QueueStep, PTL DEF Queue!Safe
<1> QED
  BY <1>1, Invariant, PTL DEF Spec

\* The options of a request are the metrics of one compression that succeeded and was
\* answered before, up to the first name it lacks (the worker's new_options and the
\* master's); a request that has fewer than all the names is made only once the plugin's
\* error tells of it (set_error(3)).
THEOREM Guided == Spec => []GuidedBySuccess
<1>1. IInv => GuidedBySuccess
  BY DEF IInv
<1> QED
  BY <1>1, Invariant, PTL

\* The plugin's error at the end of compress_many tells whether any task failed, whatever
\* order the answers came in (set_error in the master function).
THEOREM ErrorTold == Spec => []ErrorKept
<1>1. IInv => ErrorKept
  BY DEF IInv, Telling, Failing, ErrorKept
<1> QED
  BY <1>1, Invariant, PTL

-----------------------------------------------------------------------------
(***************************************************************************)
(* The outcome: the requests are counted right, no task is left over, and   *)
(* each output is the one the child made for it.                            *)
(***************************************************************************)
\* Each buffer's group is one of the tasks compress_many pushes, which are as many as there
\* are buffers; decompress_many asks for no groups, so each buffer is one of its own.
WellGrouped == \A j \in Jobs : \A i \in DOMAIN j.groups :
  /\ j.groups[i] < Len(j.groups)
  /\ j.op = "decompress" => j.groups[i] = i - 1

\* What is outstanding waits or is with a worker.
Count ==
  /\ IsFiniteSet(todo) /\ IsFiniteSet(GivenTasks)
  /\ outstanding = Cardinality(todo) + Cardinality(GivenTasks)

\* The tasks pushed so far have the numbers up to the next; while any are left to push
\* an answer is awaited, which will push the next.
AllIssued ==
  /\ \A t \in Nat : t < (IF job.op = "compress" THEN nextTask ELSE Len(job.groups)) => t \in Issued
  /\ job.op = "compress" /\ nextTask < Len(job.groups) => outstanding > 0

\* The outputs of the tasks answered are there, and those are all when the call returns.
Stored ==
  /\ pc # "crashed" => \A i \in Outs : job.groups[i] \in answered => out[i] = Made(i, job.groups[i])
  /\ pc = "done" => \A i \in Outs : job.groups[i] \in answered

Results ==
  /\ pc \in {"queue", "done", "crashed"}
  /\ out \in [Outs -> [is : {"caller", "made", "failed"}, of : Nat]]
  /\ ret \in 0..1 /\ error \in {0, 1, 3}

OInv == IInv /\ Count /\ AllIssued /\ Stored /\ Results

\* Two buffers of a group have different places in it, from 1 to the size of the group.
LEMMA PlaceIs ==
  ASSUME job \in Jobs, NEW t, NEW i \in Places(t)
  PROVE  /\ IsFiniteSet(Places(t)) /\ Cardinality(Places(t)) \in Nat
         /\ Place(t, i) \in 1..Cardinality(Places(t))
         /\ \A j \in Places(t) : Place(t, j) = Place(t, i) => j = i
<1> DEFINE S == Places(t)
           To(x) == {y \in S : y <= x}
<1>1. S \in SUBSET Nat /\ IsFiniteSet(S)
  <2>1. Len(job.groups) \in Nat /\ Outs = 1..Len(job.groups)
    BY DEF Outs
  <2>2. IsFiniteSet(Outs)
    <3>1. 1 \in Int /\ Len(job.groups) \in Int
      BY <2>1
    <3> QED
      BY <2>1, <3>1, FS_Interval
  <2>3. S \in SUBSET Outs
    BY DEF Places
  <2> QED
    BY <2>1, <2>2, <2>3, FS_Subset
<1>2. \A x : Place(t, x) = Cardinality(To(x))
  BY DEF Place
<1> HIDE DEF S
<1>3. Cardinality(S) \in Nat
  BY <1>1, FS_CardinalityType
<1>4. \A x : To(x) \in SUBSET S
  OBVIOUS
<1>5. \A x : IsFiniteSet(To(x)) /\ Cardinality(To(x)) <= Cardinality(S) /\ Cardinality(To(x)) \in Nat
  BY <1>1, <1>4, FS_Subset, FS_CardinalityType
<1>6. i \in S /\ i \in To(i)
  BY <1>1 DEF S
<1>7. Cardinality(To(i)) # 0
  BY <1>5, <1>6, FS_EmptySet
<1>8. ASSUME NEW x \in S, NEW y \in S, x < y PROVE Cardinality(To(x)) # Cardinality(To(y))
  <2>1. x \in Nat /\ y \in Nat
    BY <1>1
  <2>2. y \in To(y) /\ y \notin To(x)
    BY <1>8, <2>1
  <2>3. ASSUME NEW z \in To(x) PROVE z \in To(y)
    <3>1. z \in S /\ z \in Nat /\ z <= x
      BY <1>1
    <3> QED
      BY <1>8, <2>1, <3>1
  <2>4. To(x) \in SUBSET To(y) /\ To(x) # To(y) /\ IsFiniteSet(To(y))
    BY <1>5, <2>2, <2>3
  <2> HIDE DEF To
  <2> QED
    BY <2>4, FS_Subset
<1>9. ASSUME NEW j \in S, Cardinality(To(j)) = Cardinality(To(i)) PROVE j = i
  <2>1. ~(j < i) /\ ~(i < j)
    BY <1>6, <1>8, <1>9
  <2> QED
    BY <1>1, <1>6, <2>1
<1> HIDE DEF To
<1>10. Cardinality(To(i)) \in 1..Cardinality(S)
  BY <1>3, <1>5, <1>7
<1> QED
  BY <1>1, <1>2, <1>3, <1>9, <1>10 DEF S

\* An answer with outputs has, at a buffer's place in its group, that buffer's output.
LEMMA ReplyOutput ==
  ASSUME WellGrouped, job \in Jobs, NEW t, NEW i \in Places(t), Reply(t).data # <<>>
  PROVE  Reply(t).data[Place(t, i)] = Made(i, t)
<1>1. CASE job.op = "compress"
  <2> DEFINE n == Cardinality(Places(t))
             k == Place(t, i)
             c == CHOOSE x \in Places(t) : Place(t, x) = k
  <2>1. Reply(t).data = [l \in 1..n |-> Made(CHOOSE x \in Places(t) : Place(t, x) = l, t)]
    BY <1>1 DEF Reply, CompressReply, OutputData
  <2>2. k \in 1..n
    BY PlaceIs
  <2>3. Reply(t).data[k] = Made(c, t)
    BY <2>1, <2>2
  <2>4. c \in Places(t) /\ Place(t, c) = k
    OBVIOUS
  <2>5. c = i
    BY <2>4, PlaceIs
  <2> QED
    BY <2>3, <2>5
<1>2. CASE job.op # "compress"
  <2>1. job.op = "decompress"
    BY <1>2
  <2>2. \A j \in Outs : j \in Int /\ job.groups[j] = j - 1
    BY <2>1 DEF WellGrouped, Outs
  <2>3. t = i - 1 /\ i \in Int /\ Places(t) = {i}
    BY <2>2 DEF Places
  <2>4. {j \in Places(t) : j <= i} = {i}
    BY <2>3
  <2>5. Place(t, i) = 1
    BY <2>4, FS_Singleton DEF Place
  <2>6. Reply(t).data[1] = Made(t + 1, t)
    BY <1>2 DEF Reply, DecompressReply
  <2> QED
    BY <2>3, <2>5, <2>6
<1> QED
  BY <1>1, <1>2

\* The requests pushed leave no task out; none is pushed only while others are awaited,
\* or when none is left.
LEMMA PushedAll ==
  ASSUME Typed, NEW options \in OptionSets
  PROVE  /\ \A t \in Nat : nextTask <= t /\ t < nextTask + Cardinality(Pushed(options)) =>
              \E q \in Pushed(options) : q.task = t
         /\ Cardinality(Pushed(options)) = 0 /\ nextTask < Len(job.groups) => outstanding > 1
<1> DEFINE a == nextTask + NumWorkers - outstanding
           b == Len(job.groups) - 1
           hi == Min({a, b})
           T == nextTask..hi
           f == [t \in T |-> Request(t, options)]
<1>1. Len(job.groups) \in Nat /\ nextTask \in Nat /\ NumWorkers \in Nat \ {0} /\ outstanding \in Int
  BY DEF Typed, NumWorkers
<1>2. a \in Int /\ b \in Int
  BY <1>1
<1>3. Pushed(options) = {Request(t, options) : t \in T}
  BY DEF Pushed
<1> HIDE DEF a, b
<1>4. hi \in {a, b} /\ hi \in Int
  <2>1. \E x \in {a, b} : \A y \in {a, b} : x <= y
    BY <1>2
  <2>2. hi \in {a, b}
    BY <2>1 DEF Min
  <2> QED
    BY <1>2, <2>2
<1> HIDE DEF hi
<1>5. IsFiniteSet(T) /\ Cardinality(T) = IF nextTask > hi THEN 0 ELSE hi - nextTask + 1
  <2>1. nextTask \in Int
    BY <1>1
  <2> QED
    BY <1>4, <2>1, FS_Interval
<1>6. f \in Surjection(T, Pushed(options)) /\ f \in Injection(T, Pushed(options))
  BY <1>3 DEF Surjection, Injection, IsInjective, Request
<1>7. Cardinality(Pushed(options)) = Cardinality(T)
  BY <1>5, <1>6, FS_Surjection
<1>8. ASSUME NEW t \in Nat, nextTask <= t, t < nextTask + Cardinality(Pushed(options))
      PROVE  \E q \in Pushed(options) : q.task = t
  <2>1. t \in T
    BY <1>1, <1>4, <1>5, <1>7, <1>8
  <2>2. Request(t, options) \in Pushed(options)
    BY <1>3, <2>1
  <2>3. Request(t, options).task = t
    BY DEF Request
  <2> QED
    BY <2>2, <2>3
<1>9. ASSUME Cardinality(Pushed(options)) = 0, nextTask < Len(job.groups) PROVE outstanding > 1
  <2>1. nextTask > hi
    BY <1>1, <1>4, <1>5, <1>7, <1>9
  <2>2. hi # b
    BY <1>1, <1>9, <2>1 DEF b
  <2>3. nextTask > nextTask + NumWorkers - outstanding
    BY <1>4, <2>1, <2>2 DEF a
  <2> QED
    BY <1>1, <2>3
<1> QED
  BY <1>8, <1>9

LEMMA OInvInit == Init => OInv
<1> SUFFICES ASSUME Init PROVE OInv
  OBVIOUS
<1>1. IInv /\ Len(job.groups) \in Nat /\ Outs = 1..Len(job.groups)
  BY IInvInit DEF Init, Outs
<1>2. GivenTasks = {} /\ answered = {} /\ Issued = TodoTasks
  BY DEF Init, GivenTasks, Issued
<1>3. CASE job.op = "compress"
  <2>1. todo = {Request(0, {})} /\ outstanding = Cardinality(todo) /\ nextTask = Cardinality(todo)
    BY <1>3 DEF Init
  <2>2. IsFiniteSet(todo) /\ Cardinality(todo) = 1
    BY <2>1, FS_Singleton
  <2>3. TodoTasks = {0}
    BY <2>1 DEF TodoTasks, Request
  <2>4. Count
    BY <1>2, <2>1, <2>2, FS_EmptySet DEF Count
  <2>5. AllIssued
    BY <1>2, <1>3, <2>1, <2>2, <2>3 DEF AllIssued
  <2> QED
    BY <1>1, <1>2, <2>4, <2>5 DEF OInv, Stored, Results, Init, Untouched
<1>4. CASE job.op # "compress"
  <2> DEFINE f == [i \in Outs |-> Request(i - 1, {})]
  <2>1. todo = {Request(i - 1, {}) : i \in Outs} /\ outstanding = Cardinality(todo)
    BY <1>4 DEF Init
  <2>2. f \in Surjection(Outs, todo)
    BY <2>1 DEF Surjection
  <2>3. IsFiniteSet(todo) /\ Cardinality(todo) \in Nat
    <3>1. 1 \in Int /\ Len(job.groups) \in Int
      BY <1>1
    <3>2. IsFiniteSet(Outs)
      BY <1>1, <3>1, FS_Interval
    <3> HIDE DEF f
    <3> QED
      BY <2>2, <3>2, FS_Surjection, FS_CardinalityType
  <2>4. Count
    BY <1>2, <2>1, <2>3, FS_EmptySet DEF Count
  <2>5. \A t \in Nat : t < Len(job.groups) => t \in TodoTasks
    <3> SUFFICES ASSUME NEW t \in Nat, t < Len(job.groups) PROVE t \in TodoTasks
      OBVIOUS
    <3>1. t + 1 \in Outs /\ (t + 1) - 1 = t
      BY <1>1
    <3>2. Request(t, {}) \in todo
      BY <2>1, <3>1
    <3> QED
      BY <3>2 DEF TodoTasks, Request
  <2>6. AllIssued
    BY <1>2, <1>4, <2>5 DEF AllIssued
  <2> QED
    BY <1>1, <1>2, <2>4, <2>6 DEF OInv, Stored, Results, Init, Untouched
<1> QED
  BY <1>3, <1>4

\* What an output is to be depends on nothing but the call.
LEMMA SameMade == job' = job => \A i, t : Made(i, t)' = Made(i, t)
BY DEF Made

\* A step that answers nothing and stores nothing keeps the outcome.
LEMMA StoredStays ==
  ASSUME Stored, Results, UNCHANGED <<job, pc, out, answered, ret, error>>
  PROVE  Stored' /\ Results'
BY SameMade DEF Stored, Results, Outs

LEMMA AssignOutcome == ASSUME OInv, IInv', NEW w \in Workers, Assign(w) PROVE OInv'
<1>0. IInv /\ UNCHANGED <<job, pc, out, answered, outstanding, nextTask, ret, error>>
  BY DEF Assign, OInv
<1>1. /\ First \in todo /\ todo' = todo \ {First}
      /\ TodoTasks' = TodoTasks \ {First.task} /\ GivenTasks' = GivenTasks \cup {First.task}
  BY <1>0, AssignIs
<1>2. First.task \notin GivenTasks
  BY <1>1 DEF OInv, IInv, Apart, GivenTasks
<1>3. /\ IsFiniteSet(todo) /\ IsFiniteSet(GivenTasks)
      /\ outstanding = Cardinality(todo) + Cardinality(GivenTasks)
      /\ Cardinality(todo) \in Nat /\ Cardinality(GivenTasks) \in Nat
  BY FS_CardinalityType DEF OInv, Count
<1>4. /\ IsFiniteSet(todo') /\ Cardinality(todo') = Cardinality(todo) - 1
      /\ IsFiniteSet(GivenTasks') /\ Cardinality(GivenTasks') = Cardinality(GivenTasks) + 1
  BY <1>1, <1>2, <1>3, FS_RemoveElement, FS_AddElement
<1>5. Count'
  BY <1>0, <1>3, <1>4 DEF Count
<1>6. First.task \in TodoTasks
  BY <1>1 DEF TodoTasks
<1>7. Issued' = Issued
  BY <1>0, <1>1, <1>6 DEF Issued
<1>8. AllIssued'
  BY <1>0, <1>7 DEF OInv, AllIssued
<1> QED
  BY <1>0, <1>5, <1>8, StoredStays DEF OInv

\* A step that leaves the queue alone.
LEMMA QueueStays ==
  ASSUME OInv, UNCHANGED <<job, todo, given, answered, outstanding, nextTask>>
  PROVE  Count' /\ AllIssued' /\ Issued' = Issued
<1>1. GivenTasks' = GivenTasks /\ TodoTasks' = TodoTasks
  BY DEF GivenTasks, TodoTasks, Workers
<1>2. Issued' = Issued
  BY <1>1 DEF Issued
<1> QED
  BY <1>1, <1>2 DEF OInv, Count, AllIssued

\* The call returns when every task has been answered.
LEMMA ReturnOutcome == ASSUME WellGrouped, OInv, IInv', Return PROVE OInv'
<1>1. /\ pc' = "done" /\ pc = "queue" /\ ret' \in {0, ret} /\ Drained
      /\ UNCHANGED <<job, out, todo, given, answered, outstanding, nextTask, error>>
  BY DEF Return
<1>2. Count' /\ AllIssued'
  BY <1>1, QueueStays
<1>3. todo = {} /\ GivenTasks = {} /\ Issued = answered
  BY <1>1 DEF Drained, GivenTasks, TodoTasks, Issued
<1>4. outstanding = 0
  BY <1>3, FS_EmptySet DEF OInv, Count
<1>5. Len(job.groups) \in Nat /\ nextTask \in Nat /\ job \in Jobs
  BY DEF OInv, IInv, Typed
<1>6. ASSUME NEW i \in Outs PROVE job.groups[i] \in answered
  <2>1. job.groups[i] \in Nat /\ job.groups[i] < Len(job.groups)
    BY <1>5, <1>6 DEF WellGrouped, Outs
  <2>2. job.op = "compress" => nextTask >= Len(job.groups)
    BY <1>4, <1>5 DEF OInv, AllIssued
  <2> QED
    BY <1>3, <1>5, <2>1, <2>2 DEF OInv, AllIssued
<1>7. Stored'
  BY <1>1, <1>6, SameMade DEF OInv, Stored, Outs
<1>8. Results'
  BY <1>1 DEF OInv, Results, Outs
<1> QED
  BY <1>2, <1>7, <1>8 DEF OInv

\* An answer makes the count one less, and more by the requests pushed.
LEMMA AnsweredCount == ASSUME OInv, NEW m, AnsweredBy(m) PROVE Count'
<1> DEFINE Gone == {q \in todo : q.task = m.task}
           Rest == todo \ Gone
           Left == GivenTasks \ {m.task}
<1>1. /\ m.task \in Nat /\ m = Reply(m.task)
      /\ todo' = (todo \ Gone) \cup More(m)
      /\ outstanding' = outstanding - 1 + Cardinality(More(m))
      /\ GivenTasks' = GivenTasks \ {m.task}
  BY AnsweredIs DEF AnsweredBy, OInv
<1>2. IsFiniteSet(More(m)) /\ Cardinality(More(m)) \in Nat
  <2>1. CASE job.op = "compress"
    <3>1. Guide(m) \in OptionSets
      BY <1>1, <2>1, GuideIs DEF OInv, IInv, Typed
    <3> QED
      BY <2>1, <3>1, PushedNext DEF More, OInv, IInv
  <2>2. CASE job.op # "compress"
    BY <2>2, FS_EmptySet DEF More
  <2> QED
    BY <2>1, <2>2
<1>3. Rest \cap More(m) = {}
  BY <1>1, MoreIs DEF OInv, Issued, TodoTasks
<1>4. /\ IsFiniteSet(todo) /\ IsFiniteSet(GivenTasks)
      /\ outstanding = Cardinality(todo) + Cardinality(GivenTasks)
      /\ Cardinality(todo) \in Nat /\ Cardinality(GivenTasks) \in Nat
  BY FS_CardinalityType DEF OInv, Count
<1>5. /\ IsFiniteSet(Rest) /\ IsFiniteSet(Left)
      /\ Cardinality(Rest) \in Nat /\ Cardinality(Left) \in Nat
      /\ Cardinality(Rest) + Cardinality(Left) = outstanding - 1
  <2>1. CASE m.task \in GivenTasks
    <3>1. Rest = todo
      BY <2>1 DEF OInv, IInv, Apart, GivenTasks
    <3>2. /\ IsFiniteSet(Left) /\ Cardinality(Left) = Cardinality(GivenTasks) - 1
          /\ Cardinality(Left) \in Nat
      BY <1>4, <2>1, FS_RemoveElement, FS_CardinalityType
    <3> HIDE DEF Rest, Left
    <3> QED
      BY <1>4, <3>1, <3>2
  <2>2. CASE m.task \notin GivenTasks
    <3>1. Left = GivenTasks
      BY <2>2
    <3>2. PICK q \in todo : q.task = m.task
      BY <2>2 DEF AnsweredBy, TodoTasks
    <3>3. Rest = todo \ {q}
      BY <3>2 DEF OInv, IInv, Apart
    <3> HIDE DEF Rest, Left
    <3>4. IsFiniteSet(Rest) /\ Cardinality(Rest) = Cardinality(todo) - 1 /\ Cardinality(Rest) \in Nat
      BY <1>4, <3>2, <3>3, FS_RemoveElement, FS_CardinalityType
    <3> QED
      BY <1>4, <3>1, <3>4
  <2> QED
    BY <2>1, <2>2
<1>6. IsFiniteSet(Rest \cup More(m)) /\ Cardinality(Rest \cup More(m)) = Cardinality(Rest) + Cardinality(More(m))
  <2>1. IsFiniteSet(Rest) /\ Rest \cap More(m) = {} /\ Cardinality(Rest) \in Nat
    BY <1>3, <1>5
  <2> HIDE DEF Rest
  <2>2. Cardinality(Rest \cap More(m)) = 0
    BY <2>1, FS_EmptySet
  <2>3. /\ IsFiniteSet(Rest \cup More(m))
        /\ Cardinality(Rest \cup More(m)) =
             Cardinality(Rest) + Cardinality(More(m)) - Cardinality(Rest \cap More(m))
    BY <1>2, <2>1, FS_Union
  <2> QED
    BY <1>2, <2>1, <2>2, <2>3
<1>7. outstanding \in Int
  BY <1>4
<1>8. todo' = Rest \cup More(m) /\ GivenTasks' = Left
  BY <1>1
<1> HIDE DEF Rest, Left
<1>9. outstanding' = Cardinality(todo') + Cardinality(GivenTasks')
  <2>1. outstanding' = (outstanding - 1) + Cardinality(More(m))
    BY <1>1
  <2>2. Cardinality(todo') = Cardinality(Rest) + Cardinality(More(m))
    BY <1>6, <1>8
  <2>3. Cardinality(GivenTasks') = Cardinality(Left)
    BY <1>8
  <2> QED
    BY <1>2, <1>5, <1>7, <2>1, <2>2, <2>3
<1> QED
  BY <1>1, <1>5, <1>6, <1>8, <1>9 DEF Count

\* No task is skipped, and the master does not stop asking before the last.
LEMMA AnsweredAll == ASSUME OInv, NEW m, AnsweredBy(m) PROVE AllIssued'
<1>1. /\ m.task \in Nat /\ m = Reply(m.task) /\ m.task \in Issued
      /\ answered' = answered \cup {m.task}
      /\ outstanding' = outstanding - 1 + Cardinality(More(m))
      /\ nextTask' = nextTask + Cardinality(More(m))
      /\ TodoTasks' = (TodoTasks \ {m.task}) \cup {q.task : q \in More(m)}
      /\ GivenTasks' = GivenTasks \ {m.task}
      /\ job' = job
  BY AnsweredIs DEF AnsweredBy, OInv
<1>2. Issued' = Issued \cup {q.task : q \in More(m)}
  BY <1>1 DEF Issued
<1>3. outstanding \in Int /\ nextTask \in Nat /\ Len(job.groups) \in Nat /\ Typed
  BY DEF OInv, IInv, Typed
<1>4. CASE job.op = "compress"
  <2>1. More(m) = Pushed(Guide(m)) /\ Guide(m) \in OptionSets
    BY <1>1, <1>3, <1>4, GuideIs DEF More, Typed
  <2> DEFINE n == Cardinality(More(m))
  <2>2. /\ n \in Nat
        /\ \A t \in Nat : nextTask <= t /\ t < nextTask + n => \E q \in More(m) : q.task = t
        /\ n = 0 /\ nextTask < Len(job.groups) => outstanding > 1
    <3>1. Cardinality(Pushed(Guide(m))) \in Nat
      BY <1>3, <2>1, PushedNext
    <3>2. /\ \A t \in Nat : nextTask <= t /\ t < nextTask + Cardinality(Pushed(Guide(m))) =>
               \E q \in Pushed(Guide(m)) : q.task = t
          /\ Cardinality(Pushed(Guide(m))) = 0 /\ nextTask < Len(job.groups) => outstanding > 1
      BY <1>3, <2>1, PushedAll
    <3> QED
      BY <2>1, <3>1, <3>2
  <2>3. nextTask' = nextTask + n /\ outstanding' = outstanding - 1 + n
    BY <1>1
  <2> HIDE DEF n
  <2>4. ASSUME NEW t \in Nat, t < nextTask' PROVE t \in Issued'
    <3>1. CASE t < nextTask
      BY <1>2, <1>4, <3>1 DEF OInv, AllIssued
    <3>2. CASE ~(t < nextTask)
      BY <1>2, <1>3, <2>2, <2>3, <2>4, <3>2
    <3> QED
      BY <3>1, <3>2
  <2>5. nextTask' < Len(job.groups) => outstanding' > 0
    <3> SUFFICES ASSUME nextTask' < Len(job.groups) PROVE outstanding' > 0
      OBVIOUS
    <3>1. nextTask < Len(job.groups)
      BY <1>3, <2>2, <2>3
    <3>2. outstanding > 0
      BY <1>4, <3>1 DEF OInv, AllIssued
    <3> QED
      BY <1>3, <2>2, <2>3, <3>1, <3>2
  <2> QED
    BY <1>1, <1>4, <2>4, <2>5 DEF AllIssued
<1>5. CASE job.op # "compress"
  BY <1>1, <1>2, <1>5 DEF OInv, AllIssued
<1> QED
  BY <1>4, <1>5

\* The outputs of the answer are stored where they belong.
LEMMA AnsweredStored == ASSUME WellGrouped, OInv, NEW m, AnsweredBy(m), pc = "queue" PROVE Stored' /\ Results'
<1>1. /\ m = Reply(m.task) /\ m.task \in Nat /\ answered' = answered \cup {m.task} /\ job' = job
      /\ Outs' = Outs /\ job \in Jobs
  BY AnsweredIs DEF AnsweredBy, OInv, IInv, Typed, Outs
<1>2. Outputs(m) /\ Note(m)
  BY DEF AnsweredBy, Answered
<1>3. ret' \in 0..1 /\ error' \in {0, 1, 3}
  <2>1. m.code \in {0, 1, 3}
    BY <1>1, GuideIs DEF Reply, DecompressReply
  <2> QED
    BY <1>2, <2>1 DEF Note, OInv, Results
<1>4. CASE m.data = <<>> /\ Places(m.task) # {}
  <2>1. pc' = "crashed" /\ out' = out
    BY <1>2, <1>4 DEF Outputs
  <2> QED
    BY <1>1, <1>3, <2>1 DEF OInv, Stored, Results
<1>5. CASE ~(m.data = <<>> /\ Places(m.task) # {})
  <2>1. pc' = "queue" /\ out' = Store(m)
    BY <1>2, <1>5 DEF Outputs
  <2>2. ASSUME NEW i \in Outs
        PROVE  out'[i] = IF job.groups[i] = m.task THEN Made(i, m.task) ELSE out[i]
    <3>1. out'[i] = IF job.groups[i] = m.task THEN m.data[Place(m.task, i)] ELSE out[i]
      BY <2>1 DEF Store
    <3>2. CASE job.groups[i] = m.task
      <4>1. i \in Places(m.task)
        BY <3>2 DEF Places
      <4>2. Reply(m.task).data # <<>>
        BY <1>1, <1>5, <4>1
      <4>3. Reply(m.task).data[Place(m.task, i)] = Made(i, m.task)
        BY <1>1, <4>1, <4>2, ReplyOutput
      <4> QED
        BY <1>1, <3>1, <3>2, <4>3
    <3> QED
      BY <3>1, <3>2
  <2>3. DOMAIN out' = Outs /\ out' = [i \in Outs |-> out'[i]]
    BY <2>1 DEF Store
  <2>4. \A i \in Outs : Made(i, m.task) \in [is : {"caller", "made", "failed"}, of : Nat]
    BY <1>1 DEF Made, Outs
  <2>5. \A i \in Outs : out'[i] \in [is : {"caller", "made", "failed"}, of : Nat]
    BY <2>2, <2>4 DEF OInv, Results
  <2>6. Results'
    BY <1>1, <1>3, <2>1, <2>3, <2>5 DEF Results
  <2>7. Stored'
    BY <1>1, <2>1, <2>2, SameMade DEF OInv, Stored
  <2> QED
    BY <2>6, <2>7
<1> QED
  BY <1>4, <1>5

LEMMA OInvNext == WellGrouped /\ OInv /\ [Next]_vars => OInv'
<1> SUFFICES ASSUME WellGrouped, OInv, [Next]_vars PROVE OInv'
  OBVIOUS
<1>0. IInv' /\ IInv
  BY IInvStep DEF OInv
<1>1. ASSUME NEW w \in Workers, Assign(w) PROVE OInv'
  BY <1>0, <1>1, AssignOutcome
<1>2. ASSUME NEW m, AnsweredBy(m), pc = "queue" PROVE OInv'
  BY <1>0, <1>2, AnsweredCount, AnsweredAll, AnsweredStored DEF OInv
<1>3. ASSUME NEW m \in replies, Receive(m) PROVE OInv'
  BY <1>0, <1>2, <1>3, ReceiveAnswers DEF Receive
<1>4. CASE Alone
  BY <1>0, <1>2, <1>4, AloneAnswers DEF Alone
<1>5. CASE Return
  BY <1>0, <1>5, ReturnOutcome
<1>6. CASE (\E w \in Workers : Work(w)) \/ UNCHANGED vars
  <2>1. UNCHANGED <<job, pc, out, todo, given, answered, outstanding, nextTask, ret, error>>
    BY <1>6 DEF Work, vars
  <2>2. Stored' /\ Results'
    BY <2>1, StoredStays DEF OInv
  <2> QED
    BY <1>0, <2>1, <2>2, QueueStays DEF OInv
<1> QED
  BY <1>1, <1>3, <1>4, <1>5, <1>6 DEF Next, Step, Finished

\* What compress_many and decompress_many give the caller is the truth about every
\* buffer: the requests outstanding are counted right, so that none is forgotten, each
\* output is the one the child made for it, and an error tells of every failure.
THEOREM OutcomeTrue == ASSUME WellGrouped PROVE Spec => []Outcome
<1>1. OInv => Outcome
  <2> SUFFICES ASSUME OInv PROVE Outcome
    OBVIOUS
  <2>1. outstanding \in Nat /\ outstanding = Cardinality(todo) + Cardinality(GivenTasks)
    BY FS_CardinalityType DEF OInv, Count
  <2>2. TypeOK
    BY <2>1 DEF OInv, IInv, Typed, Requests, Results, TypeOK
  <2>3. AllMade
    BY DEF OInv, Stored, AllMade
  <2>4. ErrorKept
    BY DEF OInv, IInv, Telling, Failing, ErrorKept
  <2> QED
    BY <2>1, <2>2, <2>3, <2>4 DEF Outcome, Counted
<1> QED
  BY <1>1, OInvInit, OInvNext, PTL DEF Spec
=============================================================================

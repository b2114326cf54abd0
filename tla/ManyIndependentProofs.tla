------------------------ MODULE ManyIndependentProofs ------------------------
(***************************************************************************)
(* Proofs about ManyIndependent, for any call on any number of ranks: it    *)
(* works its queue as work_queue promises, and what each rank's caller gets *)
(* back is every output and, on the root, the truth about every group.      *)
(***************************************************************************)
EXTENDS ManyIndependent, FiniteSetTheorems, SequenceTheorems, WellFoundedInduction, TLAPS

\* The broadcast is from rank 0, of as many buffers as there are inputs.
Broadcastable == \A j \in Jobs : j.bcast => j.root = 0 /\ Len(j.outs) = Len(j.ins)

Tasks == TasksOf(job)
Done  == (Tasks \ todo) \ Running

\* What the code keeps in bounds: with another broadcast a rank may read past its outputs.
Typed ==
  /\ job \in Jobs
  /\ pc \in [Ranks -> {"enter", "queue", "bcast", "done"}]
  /\ todo \subseteq Tasks
  /\ given \in [Workers -> Tasks \cup {None}]
  /\ status \in [Ranks -> 0..2] /\ error \in [Ranks -> 0..2]
  /\ next \in [Ranks -> 1..(IF Valid(job) THEN Len(job.ins) ELSE 1)]
  /\ inbox \in [Ranks -> Seq(Tasks \cup {None})]
  /\ Broadcastable => out \in [Ranks -> [Outs -> Buffer]] /\ sent \in Seq(Buffer)

\* A task waits, or is with one group of ranks, or is answered.
Apart ==
  /\ \A g, h \in Workers : given[g] = given[h] /\ given[g] # None => g = h
  /\ \A g \in Workers : given[g] \notin todo

\* What group g answers for task t.
Answer(g, t) == [by |-> g, task |-> t, code |-> Code(t), data |-> OutputData(t)]

\* An answer is a group's, of the task it still has.
Honest == \A m \in replies :
  m.by \in Workers /\ given[m.by] # None /\ m = Answer(m.by, given[m.by])

\* Only the groups' ranks have tasks, and nothing follows the master's last word.  The
\* first rank of a group has none but the group's, and that only before it answers; the
\* others may lag behind.
Asked ==
  /\ \A r \in Ranks : \A k \in 1..Len(inbox[r]) :
       IF inbox[r][k] # None
       THEN job.group[r] # 0
       ELSE k = Len(inbox[r]) /\ r # job.root /\ pc[job.root] \in {"bcast", "done"}
  /\ \A g \in Workers : \A k \in 1..Len(inbox[Leader(g)]) :
       inbox[Leader(g)][k] # None =>
         k = 1 /\ inbox[Leader(g)][k] = given[g] /\ \A m \in replies : m.by # g

\* The ranks go from validating to the queue, and from there to the broadcasts, all of
\* them after the root, which leaves the queue when every task is answered.
Phased ==
  /\ \A r \in Ranks : pc[r] \in {"queue", "bcast"} => Valid(job)
  /\ \A r \in Ranks : pc[r] = "bcast" => job.bcast
  /\ \A r \in Ranks : inbox[r] # <<>> => pc[r] = "queue"
  /\ Valid(job) /\ pc[job.root] \in {"enter", "queue"} => \A r \in Ranks : pc[r] \in {"enter", "queue"}
  /\ pc[job.root] # "queue" => \A g \in Workers : given[g] = None
  /\ pc[job.root] \in {"bcast", "done"} => todo = {}

\* The outputs of the tasks answered are in the root's.
Stored == Broadcastable => \A i \in Outs : job.outs[i] \in Done => out[job.root][i] = Made(i)

\* The root's error tells of an answer that failed.
Telling == Valid(job) => (error[job.root] # 0 <=> \E t \in Done : t \in job.fails)

\* Where the broadcast is, on the rank that sends and on the others.
Passed == Broadcastable /\ Valid(job) /\ job.bcast =>
  /\ \A i \in 1..Len(sent) : sent[i] = Made(i)
  /\ pc[0] \in {"enter", "queue"} => sent = <<>>
  /\ pc[0] \in {"enter", "queue", "bcast"} => next[0] = Len(sent) + 1
  /\ \A r \in Ranks : pc[r] \in {"enter", "queue"} => next[r] = 1
  /\ \A r \in Ranks \ {0} : \A i \in Outs :
       pc[r] = "done" \/ (pc[r] = "bcast" /\ i < next[r]) => out[r][i] = Made(i)

IInv == Typed /\ Apart /\ Honest /\ Asked /\ Phased /\ Stored /\ Telling /\ Passed

USE JobAssumption, NoneAssumption

-----------------------------------------------------------------------------
(***************************************************************************)
(* The call: its ranks, groups and buffers.                                *)
(***************************************************************************)
\* A set of numbers that is not empty has a least one.
LEMMA LeastOf ==
  ASSUME NEW S \in SUBSET Nat, S # {}
  PROVE  Min(S) \in S
<1>1. PICK x \in S : \A y \in S : ~(<<y, x>> \in OpToRel(<, Nat))
  BY NatLessThanWellFounded, WFMin
<1>2. \A y \in S : ~(y < x)
  BY <1>1 DEF OpToRel
<1>3. \A y \in S : x <= y
  BY <1>2
<1> QED
  BY <1>3 DEF Min

\* The ranks are numbers from 0, the root one of the masters, and a group has a first rank.
LEMMA RanksAre ==
  ASSUME job \in Jobs
  PROVE  /\ Ranks \subseteq Nat /\ 0 \in Ranks /\ job.root \in Ranks /\ job.group[job.root] = 0
         /\ \A r \in Ranks : job.group[r] # 0 => job.group[r] \in Workers
         /\ \A g \in Workers : g # 0 /\ Leader(g) \in Ranks /\ job.group[Leader(g)] = g
<1>1. Cardinality(Ranks) \in Nat /\ Ranks = 0..(Cardinality(Ranks) - 1)
  BY FS_CardinalityType DEF Ranks
<1>2. Ranks \subseteq Nat /\ job.root \in Ranks /\ job.group[job.root] = 0
  BY <1>1 DEF Ranks
<1>3. 0 \in Ranks
  BY <1>1, <1>2
<1>4. ASSUME NEW g \in Workers PROVE g # 0 /\ Leader(g) \in Ranks /\ job.group[Leader(g)] = g
  <2>1. Members(g) \in SUBSET Nat /\ Members(g) # {} /\ g # 0
    BY <1>2 DEF Members, Workers
  <2>2. Leader(g) \in Members(g)
    BY <2>1, LeastOf DEF Leader
  <2> QED
    BY <2>1, <2>2 DEF Members
<1> QED
  BY <1>2, <1>3, <1>4 DEF Workers

\* The tasks are groups of buffers, and those of a valid call are the groups of its outputs.
LEMMA TasksAre ==
  ASSUME job \in Jobs
  PROVE  /\ Tasks \subseteq Nat /\ None \notin Tasks
         /\ Outs = 1..Len(job.outs) /\ Len(job.outs) \in Nat /\ Len(job.ins) \in Nat
         /\ Valid(job) => Len(job.ins) > 0 /\ \A i \in Outs : job.outs[i] \in Tasks
         /\ ~Valid(job) => Tasks = {}
<1>1. job.ins \in Seq(Nat) /\ job.outs \in Seq(Nat)
  OBVIOUS
<1>2. Len(job.ins) \in Nat /\ Len(job.outs) \in Nat /\ Outs = 1..Len(job.outs)
  BY <1>1 DEF Outs
<1>3. Tasks \subseteq Nat
  BY <1>1 DEF Tasks, TasksOf
<1>4. Valid(job) => Len(job.ins) > 0 /\ \A i \in Outs : job.outs[i] \in Tasks
  <2> SUFFICES ASSUME Valid(job) PROVE Len(job.ins) > 0 /\ \A i \in Outs : job.outs[i] \in Tasks
    OBVIOUS
  <2>1. Len(job.ins) > 0
    BY <1>1 DEF Valid
  <2>2. Tasks = {job.outs[i] : i \in DOMAIN job.outs}
    BY DEF Valid, Tasks, TasksOf
  <2> QED
    BY <2>1, <2>2 DEF Outs
<1> QED
  BY <1>2, <1>3, <1>4 DEF Tasks, TasksOf

\* What follows from the call alone stays while the call is the same.
LEMMA SameCall ==
  ASSUME job' = job
  PROVE  /\ Ranks' = Ranks /\ Workers' = Workers /\ Outs' = Outs /\ Tasks' = Tasks
         /\ Valid(job)' = Valid(job)
         /\ \A g : Members(g)' = Members(g) /\ Leader(g)' = Leader(g)
         /\ \A i : Made(i)' = Made(i)
         /\ \A g, t : Answer(g, t)' = Answer(g, t)
<1>1. Ranks' = Ranks /\ Outs' = Outs /\ Tasks' = Tasks /\ Valid(job)' = Valid(job)
  BY DEF Ranks, Outs, Tasks, TasksOf, Valid
<1>2. Workers' = Workers /\ \A g : Members(g)' = Members(g)
  BY <1>1 DEF Workers, Members
<1>3. \A g : Leader(g)' = Leader(g)
  BY <1>2 DEF Leader
<1>4. \A i : Made(i)' = Made(i)
  BY DEF Made
<1>5. \A g, t : Answer(g, t)' = Answer(g, t)
  <2>1. \A t : OutputData(t)' = OutputData(t)
    BY DEF OutputData, Made, Places, Place, Outs
  <2>2. \A t : Code(t)' = Code(t)
    BY DEF Code
  <2> QED
    BY <2>1, <2>2 DEF Answer
<1> QED
  BY <1>1, <1>2, <1>3, <1>4, <1>5

-----------------------------------------------------------------------------
(***************************************************************************)
(* What is answered reaches its place.                                     *)
(***************************************************************************)
\* Two buffers of a group have different places in it, from 1 to the size of the group.
LEMMA PlaceIs ==
  ASSUME job \in Jobs, NEW t, NEW i \in Places(t)
  PROVE  /\ IsFiniteSet(Places(t)) /\ Cardinality(Places(t)) \in Nat
         /\ Place(t, i) \in 1..Cardinality(Places(t))
         /\ \A j \in Places(t) : Place(t, j) = Place(t, i) => j = i
<1> DEFINE S == Places(t)
           To(x) == {y \in S : y <= x}
<1>1. S \in SUBSET Nat /\ IsFiniteSet(S)
  <2>1. Len(job.outs) \in Nat /\ Outs = 1..Len(job.outs)
    BY TasksAre
  <2>2. IsFiniteSet(Outs)
    <3>1. 1 \in Int /\ Len(job.outs) \in Int
      BY <2>1
    <3> QED
      BY <2>1, <3>1, FS_Interval
  <2>3. S \in SUBSET Outs
    BY DEF Places
  <2> QED
    BY <2>1, <2>2, <2>3, FS_Subset
<1>2. \A x : Place(t, x) = Cardinality(To(x))
  BY DEF Place
<1> HIDE DEF S
<1>3. Cardinality(S) \in Nat
  BY <1>1, FS_CardinalityType
<1>4. \A x : To(x) \in SUBSET S
  OBVIOUS
<1>5. \A x : IsFiniteSet(To(x)) /\ Cardinality(To(x)) <= Cardinality(S) /\ Cardinality(To(x)) \in Nat
  BY <1>1, <1>4, FS_Subset, FS_CardinalityType
<1>6. i \in S /\ i \in To(i)
  BY <1>1 DEF S
<1>7. Cardinality(To(i)) # 0
  BY <1>5, <1>6, FS_EmptySet
<1>8. ASSUME NEW x \in S, NEW y \in S, x < y PROVE Cardinality(To(x)) # Cardinality(To(y))
  <2>1. x \in Nat /\ y \in Nat
    BY <1>1
  <2>2. y \in To(y) /\ y \notin To(x)
    BY <1>8, <2>1
  <2>3. ASSUME NEW z \in To(x) PROVE z \in To(y)
    <3>1. z \in S /\ z \in Nat /\ z <= x
      BY <1>1
    <3> QED
      BY <1>8, <2>1, <3>1
  <2>4. To(x) \in SUBSET To(y) /\ To(x) # To(y) /\ IsFiniteSet(To(y))
    BY <1>5, <2>2, <2>3
  <2> HIDE DEF To
  <2> QED
    BY <2>4, FS_Subset
<1>9. ASSUME NEW j \in S, Cardinality(To(j)) = Cardinality(To(i)) PROVE j = i
  <2>1. ~(j < i) /\ ~(i < j)
    BY <1>6, <1>8, <1>9
  <2> QED
    BY <1>1, <1>6, <2>1
<1> HIDE DEF To
<1>10. Cardinality(To(i)) \in 1..Cardinality(S)
  BY <1>3, <1>5, <1>7
<1> QED
  BY <1>1, <1>2, <1>3, <1>9, <1>10 DEF S

\* An answer has, at a buffer's place in its group, that buffer's output.
LEMMA AnswerOutput ==
  ASSUME job \in Jobs, NEW t, NEW i \in Places(t)
  PROVE  OutputData(t)[Place(t, i)] = Made(i)
<1> DEFINE k == Place(t, i)
           c == CHOOSE x \in Places(t) : Place(t, x) = k
<1>1. k \in 1..Cardinality(Places(t))
  BY PlaceIs
<1>2. OutputData(t)[k] = Made(c)
  BY <1>1 DEF OutputData
<1>3. c \in Places(t) /\ Place(t, c) = k
  OBVIOUS
<1>4. c = i
  BY <1>3, PlaceIs
<1> QED
  BY <1>2, <1>4

\* The outputs after an answer's are stored: those of its task are made, the others stay.
LEMMA StoreIs ==
  ASSUME job \in Jobs, NEW o, NEW t
  PROVE  /\ Store(o, t, OutputData(t)) = [i \in Outs |-> Store(o, t, OutputData(t))[i]]
         /\ \A i \in Outs : Store(o, t, OutputData(t))[i] = IF job.outs[i] = t THEN Made(i) ELSE o[i]
<1>1. ASSUME NEW i \in Outs
      PROVE  Store(o, t, OutputData(t))[i] = IF job.outs[i] = t THEN Made(i) ELSE o[i]
  <2>1. Store(o, t, OutputData(t))[i] = IF job.outs[i] = t THEN OutputData(t)[Place(t, i)] ELSE o[i]
    BY DEF Store
  <2>2. job.outs[i] = t => i \in Places(t)
    BY DEF Places
  <2> QED
    BY <2>1, <2>2, AnswerOutput
<1> QED
  BY <1>1 DEF Store

\* What is made, left or moved from is a buffer.
LEMMA BuffersAre ==
  ASSUME job \in Jobs
  PROVE  /\ Untouched \in Buffer /\ Moved \in Buffer
         /\ \A i \in Outs : Made(i) \in Buffer
BY TasksAre DEF Untouched, Moved, Made, Buffer

-----------------------------------------------------------------------------
(***************************************************************************)
(* The initial state, and the ranks' validation.                           *)
(***************************************************************************)
LEMMA IInvInit == Init => IInv
<1> SUFFICES ASSUME Init PROVE IInv
  OBVIOUS
<1>1. /\ job \in Jobs /\ pc = [r \in Ranks |-> "enter"]
      /\ out = [r \in Ranks |-> [i \in Outs |-> Untouched]]
      /\ todo = Tasks /\ given = [g \in Workers |-> None]
      /\ inbox = [r \in Ranks |-> <<>>] /\ replies = {}
      /\ status = [r \in Ranks |-> 0] /\ error = [r \in Ranks |-> 0]
      /\ sent = <<>> /\ next = [r \in Ranks |-> 1]
  BY DEF Init, Tasks
<1>2. /\ Len(job.ins) \in Nat /\ Valid(job) => Len(job.ins) > 0
  BY <1>1, TasksAre
<1>3. Done = {}
  BY <1>1 DEF Done
<1>4. Typed
  BY <1>1, <1>2, BuffersAre DEF Typed, Tasks
<1>5. Apart
  BY <1>1, TasksAre DEF Apart
<1>6. Honest /\ Stored
  BY <1>1, <1>3 DEF Honest, Stored
<1>7. Asked
  BY <1>1, RanksAre DEF Asked
<1>8. Phased
  BY <1>1, RanksAre DEF Phased
<1>9. Telling
  BY <1>1, <1>3, RanksAre DEF Telling
<1>10. Passed
  BY <1>1, RanksAre DEF Passed
<1> QED
  BY <1>4, <1>5, <1>6, <1>7, <1>8, <1>9, <1>10 DEF IInv

\* A step that gives no task and takes no answer leaves what is done as it is.
LEMMA SameQueue ==
  ASSUME UNCHANGED <<job, todo, given>>
  PROVE  /\ Running' = Running /\ Done' = Done
         /\ Apart => Apart'
<1>1. Tasks' = Tasks /\ Workers' = Workers
  BY SameCall
<1>2. Running' = Running
  BY <1>1 DEF Running
<1> QED
  BY <1>1, <1>2 DEF Done, Apart

\* A step that changes no output of the root, nor what is done, keeps what is stored and told.
LEMMA SameOutcome ==
  ASSUME job' = job, Done' = Done,
         Broadcastable => out'[job.root] = out[job.root], error'[job.root] = error[job.root] \/ ~Valid(job)
  PROVE  (Stored => Stored') /\ (Telling => Telling')
<1>1. Outs' = Outs /\ Valid(job)' = Valid(job) /\ \A i : Made(i)' = Made(i)
  BY SameCall
<1> QED
  BY <1>1 DEF Stored, Telling

\* While nobody changes the requests and the answers, and the root stays where it is or has
\* not left the queue, the groups are asked as before.
LEMMA SameAsked ==
  ASSUME UNCHANGED <<job, inbox, given, replies>>,
         pc[job.root] \in {"bcast", "done"} => pc'[job.root] \in {"bcast", "done"}
  PROVE  (Asked => Asked') /\ (Honest => Honest')
<1>1. /\ Ranks' = Ranks /\ Workers' = Workers /\ \A g : Leader(g)' = Leader(g)
      /\ \A g, t : Answer(g, t)' = Answer(g, t)
  BY SameCall
<1> QED
  BY <1>1 DEF Asked, Honest

LEMMA EnterStep == ASSUME IInv, NEW r \in Ranks, Enter(r) PROVE IInv'
<1>1. /\ pc[r] = "enter" /\ pc' = [pc EXCEPT ![r] = IF Valid(job) THEN "queue" ELSE "done"]
      /\ UNCHANGED <<job, out, todo, given, inbox, replies, sent, next>>
      /\ status' \in [Ranks -> 0..2] /\ error' \in [Ranks -> 0..2]
      /\ Valid(job) => UNCHANGED <<status, error>>
  <2>1. status \in [Ranks -> 0..2] /\ error \in [Ranks -> 0..2]
    BY DEF IInv, Typed
  <2>2. CASE Valid(job)
    BY <2>1, <2>2 DEF Enter
  <2>3. CASE ~Valid(job)
    BY <2>1, <2>3 DEF Enter
  <2> QED
    BY <2>2, <2>3
<1>2. /\ Ranks' = Ranks /\ Workers' = Workers /\ Outs' = Outs /\ Tasks' = Tasks
      /\ Valid(job)' = Valid(job) /\ \A i : Made(i)' = Made(i)
  BY <1>1, SameCall
<1>3. /\ pc' \in [Ranks -> {"enter", "queue", "bcast", "done"}]
      /\ pc'[r] = IF Valid(job) THEN "queue" ELSE "done"
      /\ \A q \in Ranks \ {r} : pc'[q] = pc[q]
  BY <1>1 DEF IInv, Typed
<1>4. job.root \in Ranks /\ 0 \in Ranks /\ (~Valid(job) => Tasks = {})
  BY RanksAre, TasksAre DEF IInv, Typed
<1>5. Typed'
  BY <1>1, <1>2, <1>3 DEF IInv, Typed, Tasks
<1>6. Apart' /\ Done' = Done
  BY <1>1, SameQueue DEF IInv
<1>7. Asked' /\ Honest'
  <2>1. pc[job.root] \in {"bcast", "done"} => pc'[job.root] \in {"bcast", "done"}
    BY <1>1, <1>3, <1>4
  <2> QED
    BY <1>1, <2>1, SameAsked DEF IInv
<1>8. Phased'
  <2>1. todo \subseteq Tasks
    BY DEF IInv, Typed, Tasks
  <2> QED
    BY <1>1, <1>2, <1>3, <1>4, <2>1 DEF IInv, Phased
<1>9. Stored' /\ Telling'
  BY <1>1, <1>6, SameOutcome DEF IInv
<1>10. Passed'
  BY <1>1, <1>2, <1>3, <1>4 DEF IInv, Passed
<1> QED
  BY <1>5, <1>6, <1>7, <1>8, <1>9, <1>10 DEF IInv

-----------------------------------------------------------------------------
(***************************************************************************)
(* A group of ranks is given a task.                                       *)
(***************************************************************************)
LEMMA AssignIs ==
  ASSUME IInv, NEW g \in Workers, Assign(g)
  PROVE  /\ Min(todo) \in todo /\ Min(todo) \in Tasks /\ Min(todo) # None /\ given[g] = None
         /\ pc[job.root] = "queue" /\ \A r \in Ranks : pc[r] = "queue"
         /\ todo' = todo \ {Min(todo)} /\ todo' \subseteq Tasks
         /\ given' \in [Workers -> Tasks \cup {None}]
         /\ given'[g] = Min(todo) /\ \A h \in Workers \ {g} : given'[h] = given[h]
         /\ inbox' = [r \in Ranks |-> IF job.group[r] = g THEN Append(inbox[r], Min(todo)) ELSE inbox[r]]
         /\ UNCHANGED <<job, pc, out, replies, status, error, sent, next>>
         /\ Running' = Running \cup {Min(todo)} /\ Done' = Done
<1>1. job \in Jobs /\ todo \subseteq Tasks /\ given \in [Workers -> Tasks \cup {None}] /\ pc \in [Ranks -> {"enter", "queue", "bcast", "done"}]
  BY DEF IInv, Typed, Tasks
<1>2. /\ pc[job.root] = "queue" /\ \A r \in Ranks : pc[r] # "enter"
      /\ todo # {} /\ given[g] = None /\ todo' = todo \ {Min(todo)}
      /\ given' = [given EXCEPT ![g] = Min(todo)]
      /\ inbox' = [r \in Ranks |-> IF r \in Members(g) THEN Append(inbox[r], Min(todo)) ELSE inbox[r]]
      /\ UNCHANGED <<job, pc, out, replies, status, error, sent, next>>
  BY DEF Assign
<1>3. Min(todo) \in todo /\ Min(todo) \in Tasks /\ Min(todo) # None
  <2>1. todo \in SUBSET Nat /\ None \notin Tasks
    BY <1>1, TasksAre
  <2>2. Min(todo) \in todo
    BY <1>2, <2>1, LeastOf
  <2> QED
    BY <1>1, <2>1, <2>2
<1>4. \A r \in Ranks : pc[r] = "queue"
  BY <1>1, <1>2, RanksAre DEF IInv, Phased
<1>5. /\ given' \in [Workers -> Tasks \cup {None}]
      /\ given'[g] = Min(todo) /\ \A h \in Workers \ {g} : given'[h] = given[h]
  BY <1>1, <1>2, <1>3
<1>6. inbox' = [r \in Ranks |-> IF job.group[r] = g THEN Append(inbox[r], Min(todo)) ELSE inbox[r]]
  BY <1>2 DEF Members
<1>7. Workers' = Workers /\ Tasks' = Tasks
  BY <1>2, SameCall
<1>8. Running' = Running \cup {Min(todo)}
  BY <1>2, <1>3, <1>5, <1>7 DEF Running
<1>9. Done' = Done
  <2> DEFINE t == Min(todo)
  <2>1. t \in todo /\ todo' = todo \ {t} /\ Running' = Running \cup {t}
    BY <1>2, <1>3, <1>8
  <2> HIDE DEF t
  <2> QED
    BY <1>7, <2>1 DEF Done
<1> QED
  BY <1>1, <1>2, <1>3, <1>4, <1>5, <1>6, <1>8, <1>9

\* Where one thing is put at the end of a queue, the rest of it stays.
LEMMA AppendIs ==
  ASSUME NEW S, NEW q \in Seq(S), NEW x \in S
  PROVE  /\ Append(q, x) \in Seq(S) /\ Len(Append(q, x)) = Len(q) + 1 /\ Len(q) \in Nat
         /\ Append(q, x) # <<>> /\ Append(q, x)[Len(q) + 1] = x
         /\ \A k \in 1..Len(q) : Append(q, x)[k] = q[k]
BY AppendProperties

LEMMA AssignStep == ASSUME IInv, NEW g \in Workers, Assign(g) PROVE IInv'
<1> DEFINE t == Min(todo)
<1>1. /\ t \in todo /\ t \in Tasks /\ t # None /\ given[g] = None
      /\ pc[job.root] = "queue" /\ \A r \in Ranks : pc[r] = "queue"
      /\ todo' = todo \ {t} /\ todo' \subseteq Tasks
      /\ given' \in [Workers -> Tasks \cup {None}]
      /\ given'[g] = t /\ \A h \in Workers \ {g} : given'[h] = given[h]
      /\ inbox' = [r \in Ranks |-> IF job.group[r] = g THEN Append(inbox[r], t) ELSE inbox[r]]
      /\ UNCHANGED <<job, pc, out, replies, status, error, sent, next>>
      /\ Done' = Done
  BY AssignIs
<1> HIDE DEF t
<1>2. /\ Ranks' = Ranks /\ Workers' = Workers /\ Outs' = Outs /\ Tasks' = Tasks
      /\ Valid(job)' = Valid(job) /\ \A i : Made(i)' = Made(i) /\ \A h : Leader(h)' = Leader(h)
      /\ \A h, u : Answer(h, u)' = Answer(h, u)
  BY <1>1, SameCall
<1>3. job \in Jobs /\ inbox \in [Ranks -> Seq(Tasks \cup {None})] /\ todo \subseteq Tasks
  BY DEF IInv, Typed, Tasks
<1>4. /\ g # 0 /\ Leader(g) \in Ranks /\ job.root \in Ranks /\ job.group[job.root] = 0
      /\ \A h \in Workers : Leader(h) \in Ranks /\ job.group[Leader(h)] = h
  BY <1>3, RanksAre
<1>5. ASSUME NEW r \in Ranks
      PROVE  /\ inbox'[r] \in Seq(Tasks \cup {None})
             /\ job.group[r] # g => inbox'[r] = inbox[r]
             /\ job.group[r] = g => /\ Len(inbox[r]) \in Nat /\ Len(inbox'[r]) = Len(inbox[r]) + 1
                                    /\ inbox'[r][Len(inbox[r]) + 1] = t
                                    /\ \A k \in 1..Len(inbox[r]) : inbox'[r][k] = inbox[r][k]
  <2>1. inbox[r] \in Seq(Tasks \cup {None}) /\ t \in Tasks \cup {None}
    BY <1>1, <1>3
  <2>2. inbox'[r] = IF job.group[r] = g THEN Append(inbox[r], t) ELSE inbox[r]
    BY <1>1
  <2> QED
    BY <2>1, <2>2, AppendIs
<1>6. Typed'
  <2>1. inbox' \in [Ranks -> Seq(Tasks \cup {None})]
    BY <1>1, <1>5
  <2> QED
    BY <1>1, <1>2, <2>1 DEF IInv, Typed, Tasks
<1>7. Apart'
  <2>1. \A h \in Workers : given'[h] = IF h = g THEN t ELSE given[h]
    BY <1>1
  <2>2. \A h \in Workers : given[h] # t /\ given[h] \notin todo
    BY <1>1 DEF IInv, Apart
  <2>3. \A h, i \in Workers : given'[h] = given'[i] /\ given'[h] # None => h = i
    BY <2>1, <2>2 DEF IInv, Apart
  <2>4. \A h \in Workers : given'[h] \notin todo'
    BY <1>1, <2>1, <2>2
  <2> QED
    BY <1>2, <2>3, <2>4 DEF Apart
<1>8. Honest'
  BY <1>1, <1>2 DEF IInv, Honest
<1>9. ASSUME NEW h \in Workers, NEW k \in 1..Len(inbox'[Leader(h)]), inbox'[Leader(h)][k] # None
      PROVE  k = 1 /\ inbox'[Leader(h)][k] = given'[h] /\ \A m \in replies : m.by # h
  <2>1. CASE h # g
    <3>1. inbox'[Leader(h)] = inbox[Leader(h)]
      BY <1>4, <1>5, <2>1
    <3>2. k \in 1..Len(inbox[Leader(h)]) /\ inbox[Leader(h)][k] # None
      BY <1>9, <3>1
    <3>3. k = 1 /\ inbox[Leader(h)][k] = given[h] /\ \A m \in replies : m.by # h
      BY <3>2 DEF IInv, Asked
    <3>4. given'[h] = given[h]
      BY <1>1, <2>1
    <3> QED
      BY <3>1, <3>3, <3>4
  <2>2. CASE h = g
    <3>1. Len(inbox[Leader(g)]) = 0
      <4>1. \A l \in 1..Len(inbox[Leader(g)]) : inbox[Leader(g)][l] # None
        BY <1>1, <1>4 DEF IInv, Asked
      <4>2. \A l \in 1..Len(inbox[Leader(g)]) : FALSE
        BY <1>1, <4>1 DEF IInv, Asked
      <4>3. Len(inbox[Leader(g)]) \in Nat
        BY <1>4, <1>5
      <4> QED
        BY <4>2, <4>3
    <3>2. k = 1 /\ inbox'[Leader(g)][k] = t
      BY <1>4, <1>5, <1>9, <2>2, <3>1
    <3>3. \A m \in replies : m.by # g
      BY <1>1 DEF IInv, Honest
    <3> QED
      BY <1>1, <2>2, <3>2, <3>3
  <2> QED
    BY <2>1, <2>2
<1>10. Asked'
  <2>1. ASSUME NEW r \in Ranks, NEW k \in 1..Len(inbox'[r])
        PROVE  inbox'[r][k] # None /\ job.group[r] # 0
    <3>1. CASE job.group[r] # g
      BY <1>1, <1>5, <2>1, <3>1 DEF IInv, Asked
    <3>2. CASE job.group[r] = g
      <4>1. k \in 1..Len(inbox[r]) \/ k = Len(inbox[r]) + 1
        BY <1>5, <2>1, <3>2
      <4>2. CASE k \in 1..Len(inbox[r])
        BY <1>1, <1>4, <1>5, <3>2, <4>2 DEF IInv, Asked
      <4>3. CASE k = Len(inbox[r]) + 1
        BY <1>1, <1>4, <1>5, <3>2, <4>3
      <4> QED
        BY <4>1, <4>2, <4>3
    <3> QED
      BY <3>1, <3>2
  <2>2. \A h \in Workers : \A k \in 1..Len(inbox'[Leader(h)]) :
          inbox'[Leader(h)][k] # None =>
            k = 1 /\ inbox'[Leader(h)][k] = given'[h] /\ \A m \in replies : m.by # h
    BY <1>9
  <2>3. job' = job /\ replies' = replies /\ pc' = pc
    BY <1>1
  <2> QED
    BY <1>2, <2>1, <2>2, <2>3 DEF Asked
<1>11. Phased'
  BY <1>1, <1>2, <1>3, <1>4 DEF IInv, Phased
<1>12. Stored' /\ Telling'
  BY <1>1, SameOutcome DEF IInv
<1>13. Passed'
  BY <1>1, <1>2 DEF IInv, Passed
<1> QED
  BY <1>6, <1>7, <1>8, <1>10, <1>11, <1>12, <1>13 DEF IInv

-----------------------------------------------------------------------------
(***************************************************************************)
(* A rank of a group works.                                                *)
(***************************************************************************)
LEMMA WorkIs ==
  ASSUME IInv, NEW r \in Ranks, Work(r)
  PROVE  /\ job.group[r] \in Workers /\ r # job.root /\ pc[r] = "queue"
         /\ inbox[r] # <<>> /\ inbox[r] \in Seq(Tasks \cup {None}) /\ Head(inbox[r]) # None
         /\ Broadcastable => out' \in [Ranks -> [Outs -> Buffer]] /\ \A q \in Ranks \ {r} : out'[q] = out[q]
         /\ replies' = IF r = Leader(job.group[r])
                       THEN replies \cup {Answer(job.group[r], Head(inbox[r]))} ELSE replies
         /\ inbox' = [inbox EXCEPT ![r] = Tail(@)]
         /\ UNCHANGED <<job, pc, todo, given, status, error, sent, next>>
<1>1. job \in Jobs /\ inbox[r] \in Seq(Tasks \cup {None})
  BY DEF IInv, Typed
<1>2. /\ inbox[r] # <<>> /\ Head(inbox[r]) # None
      /\ inbox' = [inbox EXCEPT ![r] = Tail(@)]
      /\ UNCHANGED <<job, pc, todo, given, status, error, sent, next>>
  BY DEF Work
<1>3. /\ out' = [out EXCEPT ![r] = MoveOut(@, Head(inbox[r]))]
      /\ replies' = IF r = Leader(job.group[r])
                    THEN replies \cup {Answer(job.group[r], Head(inbox[r]))} ELSE replies
  BY DEF Work, Response, Answer
<1>4. 1 \in 1..Len(inbox[r]) /\ inbox[r][1] # None
  BY <1>1, <1>2
<1>5. job.group[r] # 0 /\ pc[r] = "queue"
  BY <1>2, <1>4 DEF IInv, Asked, Phased
<1>6. job.group[r] \in Workers /\ r # job.root
  BY <1>1, <1>5, RanksAre
<1>7. ASSUME Broadcastable PROVE out' \in [Ranks -> [Outs -> Buffer]] /\ \A q \in Ranks \ {r} : out'[q] = out[q]
  <2>1. out \in [Ranks -> [Outs -> Buffer]]
    BY <1>7 DEF IInv, Typed
  <2>2. MoveOut(out[r], Head(inbox[r])) \in [Outs -> Buffer]
    BY <1>1, <2>1, BuffersAre DEF MoveOut
  <2> QED
    BY <1>3, <2>1, <2>2
<1> QED
  BY <1>1, <1>2, <1>3, <1>5, <1>6, <1>7

\* What is left of a rank's requests when the first is taken.
LEMMA TailIs ==
  ASSUME Typed, NEW r \in Ranks, inbox[r] # <<>>, inbox' = [inbox EXCEPT ![r] = Tail(@)]
  PROVE  /\ inbox' \in [Ranks -> Seq(Tasks \cup {None})]
         /\ Len(inbox[r]) \in Nat \ {0} /\ Len(inbox'[r]) = Len(inbox[r]) - 1
         /\ \A k \in 1..Len(inbox'[r]) : inbox'[r][k] = inbox[r][k + 1]
         /\ \A q \in Ranks \ {r} : inbox'[q] = inbox[q]
<1>1. inbox \in [Ranks -> Seq(Tasks \cup {None})]
  BY DEF Typed
<1>2. inbox[r] \in Seq(Tasks \cup {None})
  BY <1>1
<1>3. /\ Tail(inbox[r]) \in Seq(Tasks \cup {None}) /\ Len(Tail(inbox[r])) = Len(inbox[r]) - 1
      /\ \A k \in 1..Len(Tail(inbox[r])) : Tail(inbox[r])[k] = inbox[r][k + 1]
  BY <1>2, HeadTailProperties
<1>4. inbox'[r] = Tail(inbox[r]) /\ \A q \in Ranks \ {r} : inbox'[q] = inbox[q]
  BY <1>1
<1>5. inbox' \in [Ranks -> Seq(Tasks \cup {None})]
  BY <1>1, <1>3
<1>6. Len(inbox[r]) \in Nat \ {0}
  BY <1>2
<1> QED
  BY <1>3, <1>4, <1>5, <1>6

LEMMA WorkStep == ASSUME IInv, NEW r \in Ranks, Work(r) PROVE IInv'
<1> DEFINE g == job.group[r]
           t == Head(inbox[r])
<1>1. /\ g \in Workers /\ r # job.root /\ pc[r] = "queue"
      /\ inbox[r] # <<>> /\ inbox[r] \in Seq(Tasks \cup {None}) /\ t # None
      /\ Broadcastable => out' \in [Ranks -> [Outs -> Buffer]] /\ \A q \in Ranks \ {r} : out'[q] = out[q]
      /\ replies' = IF r = Leader(g) THEN replies \cup {Answer(g, t)} ELSE replies
      /\ UNCHANGED <<job, pc, todo, given, status, error, sent, next>>
  BY WorkIs
<1>2. /\ Ranks' = Ranks /\ Workers' = Workers /\ Outs' = Outs /\ Tasks' = Tasks
      /\ Valid(job)' = Valid(job) /\ \A i : Made(i)' = Made(i) /\ \A h : Leader(h)' = Leader(h)
      /\ \A h, u : Answer(h, u)' = Answer(h, u)
  BY <1>1, SameCall
<1>3. /\ inbox' \in [Ranks -> Seq(Tasks \cup {None})]
      /\ Len(inbox[r]) \in Nat \ {0} /\ Len(inbox'[r]) = Len(inbox[r]) - 1
      /\ \A k \in 1..Len(inbox'[r]) : inbox'[r][k] = inbox[r][k + 1]
      /\ \A q \in Ranks \ {r} : inbox'[q] = inbox[q]
  BY <1>1, WorkIs, TailIs DEF IInv
<1>4. /\ job.root \in Ranks /\ 0 \in Ranks
      /\ \A h \in Workers : Leader(h) \in Ranks /\ job.group[Leader(h)] = h
  BY RanksAre DEF IInv, Typed
<1>5. r = Leader(g) => t = given[g] /\ \A m \in replies : m.by # g
  <2>1. 1 \in 1..Len(inbox[r]) /\ inbox[r][1] = t
    BY <1>1, <1>3
  <2> QED
    BY <1>1, <2>1 DEF IInv, Asked
<1> HIDE DEF g, t
<1>6. Typed'
  BY <1>1, <1>2, <1>3 DEF IInv, Typed, Tasks
<1>7. Apart' /\ Done' = Done
  BY <1>1, SameQueue DEF IInv
<1>8. Honest'
  <2>1. Answer(g, t).by = g
    BY DEF Answer
  <2> QED
    BY <1>1, <1>2, <1>5, <2>1 DEF IInv, Honest
<1>9. Asked'
  <2>1. ASSUME NEW q \in Ranks, NEW k \in 1..Len(inbox'[q])
        PROVE  IF inbox'[q][k] # None
               THEN job.group[q] # 0
               ELSE k = Len(inbox'[q]) /\ q # job.root /\ pc[job.root] \in {"bcast", "done"}
    <3>1. CASE q # r
      BY <1>3, <2>1, <3>1 DEF IInv, Asked
    <3>2. CASE q = r
      <4>1. k + 1 \in 1..Len(inbox[r]) /\ inbox'[r][k] = inbox[r][k + 1]
        BY <1>3, <2>1, <3>2
      <4>2. IF inbox[r][k + 1] # None
            THEN job.group[r] # 0
            ELSE k + 1 = Len(inbox[r]) /\ r # job.root /\ pc[job.root] \in {"bcast", "done"}
        BY <4>1 DEF IInv, Asked
      <4> QED
        BY <1>3, <2>1, <3>2, <4>1, <4>2
    <3> QED
      BY <3>1, <3>2
  <2>2. ASSUME NEW h \in Workers, NEW k \in 1..Len(inbox'[Leader(h)]), inbox'[Leader(h)][k] # None
        PROVE  k = 1 /\ inbox'[Leader(h)][k] = given[h] /\ \A m \in replies' : m.by # h
    <3>1. CASE Leader(h) # r
      <4>1. inbox'[Leader(h)] = inbox[Leader(h)]
        BY <1>3, <1>4, <3>1
      <4>2. k = 1 /\ inbox[Leader(h)][k] = given[h] /\ \A m \in replies : m.by # h
        BY <2>2, <4>1 DEF IInv, Asked
      <4>3. r = Leader(g) => Answer(g, t).by # h
        BY <3>1 DEF Answer
      <4> QED
        BY <1>1, <4>1, <4>2, <4>3
    <3>2. CASE Leader(h) = r
      <4>1. k \in Nat \ {0} /\ k + 1 \in 1..Len(inbox[r]) /\ inbox[r][k + 1] # None
        BY <1>3, <2>2, <3>2
      <4>2. k + 1 = 1
        BY <3>2, <4>1 DEF IInv, Asked
      <4> QED
        BY <4>1, <4>2
    <3> QED
      BY <3>1, <3>2
  <2>3. job' = job /\ pc' = pc /\ given' = given
    BY <1>1
  <2> QED
    BY <1>2, <2>1, <2>2, <2>3 DEF Asked
<1>10. Phased'
  <2>1. inbox[r] # <<>> /\ \A q \in Ranks \ {r} : inbox'[q] = inbox[q]
    BY <1>1, <1>3
  <2>2. \A q \in Ranks : inbox'[q] # <<>> => pc[q] = "queue"
    BY <2>1 DEF IInv, Phased
  <2>3. job' = job /\ pc' = pc /\ todo' = todo /\ given' = given
    BY <1>1
  <2> QED
    BY <1>2, <2>2, <2>3 DEF IInv, Phased
<1>11. Stored' /\ Telling'
  BY <1>1, <1>4, <1>7, SameOutcome DEF IInv
<1>12. Passed'
  BY <1>1, <1>2 DEF IInv, Passed
<1> QED
  BY <1>6, <1>7, <1>8, <1>9, <1>10, <1>11, <1>12 DEF IInv

-----------------------------------------------------------------------------
(***************************************************************************)
(* The master takes an answer, or does the task itself.                    *)
(***************************************************************************)
\* One more task is done: its outputs are stored, among o for the others, and its code noted.
DoneWith(o, t) ==
  /\ t \in Tasks /\ job' = job /\ Done' = Done \cup {t} /\ Note(Code(t))
  /\ Broadcastable => o \in [Outs -> Buffer] /\ \A i \in Outs : job.outs[i] # t => o[i] = out[job.root][i]
  /\ out' = [out EXCEPT ![job.root] = Store(o, t, OutputData(t))]

LEMMA MoreDone ==
  ASSUME IInv, NEW o, NEW t, DoneWith(o, t)
  PROVE  /\ Stored' /\ Telling'
         /\ Broadcastable => out' \in [Ranks -> [Outs -> Buffer]]
         /\ status' \in [Ranks -> 0..2] /\ error' \in [Ranks -> 0..2]
<1>1. /\ job \in Jobs /\ job.root \in Ranks
      /\ status \in [Ranks -> 0..2] /\ error \in [Ranks -> 0..2]
  BY RanksAre DEF IInv, Typed
<1>2. /\ Outs' = Outs /\ Valid(job)' = Valid(job) /\ \A i : Made(i)' = Made(i)
  BY SameCall DEF DoneWith
<1> DEFINE s == Store(o, t, OutputData(t))
<1>3. s = [i \in Outs |-> s[i]] /\ \A i \in Outs : s[i] = IF job.outs[i] = t THEN Made(i) ELSE o[i]
  BY <1>1, StoreIs
<1>4. out' = [out EXCEPT ![job.root] = s]
  BY DEF DoneWith
<1> HIDE DEF s
<1>5. Broadcastable => s \in [Outs -> Buffer]
  BY <1>1, <1>3, BuffersAre DEF DoneWith
<1>6. Broadcastable => out' \in [Ranks -> [Outs -> Buffer]] /\ out'[job.root] = s
  BY <1>1, <1>4, <1>5 DEF IInv, Typed
<1>7. Stored'
  BY <1>2, <1>3, <1>6 DEF IInv, Stored, DoneWith
<1>8. Code(t) \in 0..1 /\ (Code(t) # 0 <=> t \in job.fails)
  BY DEF Code
<1>9. /\ status' \in [Ranks -> 0..2] /\ error' \in [Ranks -> 0..2]
      /\ error'[job.root] = IF Code(t) # 0 THEN Code(t) ELSE error[job.root]
  BY <1>1, <1>8 DEF Note, DoneWith
<1>10. Telling'
  BY <1>2, <1>8, <1>9 DEF IInv, Telling, DoneWith
<1> QED
  BY <1>6, <1>7, <1>9, <1>10

\* While the root is in the queue no rank is at the broadcasts.
LEMMA PassedLater ==
  ASSUME IInv, pc[job.root] = "queue", UNCHANGED <<job, pc, sent, next>>
  PROVE  Passed'
<1>1. \A r \in Ranks : pc[r] \in {"enter", "queue"}
  BY RanksAre DEF IInv, Typed, Phased
<1>2. Ranks' = Ranks /\ Outs' = Outs /\ Valid(job)' = Valid(job) /\ \A i : Made(i)' = Made(i)
  BY SameCall
<1> QED
  BY <1>1, <1>2 DEF IInv, Passed

LEMMA ReceiveIs ==
  ASSUME IInv, NEW m \in replies, Receive(m)
  PROVE  /\ m.by \in Workers /\ given[m.by] # None /\ given[m.by] \in Tasks
         /\ m = Answer(m.by, given[m.by]) /\ pc[job.root] = "queue"
         /\ Note(Code(given[m.by]))
         /\ out' = [out EXCEPT ![job.root] = Store(@, given[m.by], OutputData(given[m.by]))]
         /\ given' \in [Workers -> Tasks \cup {None}]
         /\ given'[m.by] = None /\ \A h \in Workers \ {m.by} : given'[h] = given[h]
         /\ replies' = replies \ {m}
         /\ UNCHANGED <<job, pc, todo, inbox, sent, next>>
         /\ Running' = Running \ {given[m.by]} /\ Done' = Done \cup {given[m.by]}
<1>1. /\ job \in Jobs /\ given \in [Workers -> Tasks \cup {None}]
      /\ m.by \in Workers /\ given[m.by] # None /\ m = Answer(m.by, given[m.by])
  BY DEF IInv, Typed, Honest
<1>2. given[m.by] \in Tasks /\ given[m.by] \notin todo
  BY <1>1 DEF IInv, Apart
<1>3. m.task = given[m.by] /\ m.code = Code(given[m.by]) /\ m.data = OutputData(given[m.by])
  BY <1>1 DEF Answer
<1>4. pc[job.root] = "queue"
  BY <1>1 DEF IInv, Phased
<1>5. /\ Note(Code(given[m.by]))
      /\ out' = [out EXCEPT ![job.root] = Store(@, given[m.by], OutputData(given[m.by]))]
      /\ given' = [given EXCEPT ![m.by] = None] /\ replies' = replies \ {m}
      /\ UNCHANGED <<job, pc, todo, inbox, sent, next>>
  BY <1>3 DEF Receive
<1>6. /\ given' \in [Workers -> Tasks \cup {None}]
      /\ given'[m.by] = None /\ \A h \in Workers \ {m.by} : given'[h] = given[h]
  BY <1>1, <1>5
<1>7. Workers' = Workers /\ Tasks' = Tasks
  BY <1>5, SameCall
<1>8. Running' = Running \ {given[m.by]}
  <2>1. \A h \in Workers \ {m.by} : given[h] # given[m.by]
    BY <1>1 DEF IInv, Apart
  <2> QED
    BY <1>1, <1>6, <1>7, <2>1 DEF Running
<1>9. Done' = Done \cup {given[m.by]}
  BY <1>2, <1>5, <1>7, <1>8 DEF Done
<1> QED
  BY <1>1, <1>2, <1>4, <1>5, <1>6, <1>8, <1>9

LEMMA ReceiveStep == ASSUME IInv, NEW m \in replies, Receive(m) PROVE IInv'
<1> DEFINE g == m.by
           t == given[g]
<1>1. /\ g \in Workers /\ t # None /\ t \in Tasks /\ m = Answer(g, t) /\ pc[job.root] = "queue"
      /\ given' \in [Workers -> Tasks \cup {None}]
      /\ given'[g] = None /\ \A h \in Workers \ {g} : given'[h] = given[h]
      /\ replies' = replies \ {m}
      /\ UNCHANGED <<job, pc, todo, inbox, sent, next>>
  BY ReceiveIs
<1>2. /\ Ranks' = Ranks /\ Workers' = Workers /\ Outs' = Outs /\ Tasks' = Tasks
      /\ Valid(job)' = Valid(job) /\ \A h : Leader(h)' = Leader(h)
      /\ \A h, u : Answer(h, u)' = Answer(h, u)
  BY <1>1, SameCall
<1>3. /\ Stored' /\ Telling' /\ (Broadcastable => out' \in [Ranks -> [Outs -> Buffer]])
      /\ status' \in [Ranks -> 0..2] /\ error' \in [Ranks -> 0..2]
  <2>1. Broadcastable => out[job.root] \in [Outs -> Buffer]
    BY RanksAre DEF IInv, Typed
  <2>2. Note(Code(t)) /\ Done' = Done \cup {t} /\ out' = [out EXCEPT ![job.root] = Store(out[job.root], t, OutputData(t))]
    BY ReceiveIs
  <2> QED
    BY <1>1, <2>1, <2>2, MoreDone DEF DoneWith
<1> HIDE DEF t
<1>4. Typed'
  BY <1>1, <1>2, <1>3 DEF IInv, Typed, Tasks
<1>5. Apart'
  <2>1. None \notin todo
    BY TasksAre DEF IInv, Typed, Tasks
  <2> QED
    BY <1>1, <1>2, <2>1 DEF IInv, Apart
<1>6. Honest'
  <2>1. \A n \in replies' : n.by # g
    BY <1>1 DEF IInv, Honest, t
  <2> QED
    BY <1>1, <1>2, <2>1 DEF IInv, Honest
<1>7. Asked'
  <2>1. \A h \in Workers : \A k \in 1..Len(inbox[Leader(h)]) :
          inbox[Leader(h)][k] # None =>
            h # g /\ k = 1 /\ inbox[Leader(h)][k] = given[h] /\ \A n \in replies : n.by # h
    BY DEF IInv, Asked
  <2>2. \A h \in Workers : \A k \in 1..Len(inbox[Leader(h)]) :
          inbox[Leader(h)][k] # None =>
            k = 1 /\ inbox[Leader(h)][k] = given'[h] /\ \A n \in replies' : n.by # h
    BY <1>1, <2>1
  <2> QED
    BY <1>1, <1>2, <2>2 DEF IInv, Asked
<1>8. Phased'
  BY <1>1, <1>2 DEF IInv, Phased
<1>9. Passed'
  BY <1>1, PassedLater
<1> QED
  BY <1>3, <1>4, <1>5, <1>6, <1>7, <1>8, <1>9 DEF IInv

LEMMA AloneStep == ASSUME IInv, Alone PROVE /\ IInv' /\ Min(todo) \in todo /\ todo' = todo \ {Min(todo)}
                                            /\ Running' = Running /\ Done' = Done \cup {Min(todo)}
<1> DEFINE t == Min(todo)
           o == MoveOut(out[job.root], t)
<1>1. /\ Ranks = {job.root} /\ pc[job.root] = "queue" /\ todo' = todo \ {t} /\ Note(Code(t))
      /\ out' = [out EXCEPT ![job.root] = Store(MoveOut(@, t), t, OutputData(t))]
      /\ UNCHANGED <<job, pc, given, inbox, replies, sent, next>>
  BY DEF Alone
<1>2. job \in Jobs /\ todo \subseteq Tasks /\ (Broadcastable => out[job.root] \in [Outs -> Buffer])
  BY RanksAre DEF IInv, Typed, Tasks
<1>3. t \in todo /\ t \in Tasks
  <2>1. todo \in SUBSET Nat /\ todo # {}
    BY <1>2, TasksAre DEF Alone
  <2> QED
    BY <1>2, <2>1, LeastOf
<1>4. /\ Ranks' = Ranks /\ Workers' = Workers /\ Outs' = Outs /\ Tasks' = Tasks
      /\ Valid(job)' = Valid(job)
  BY <1>1, SameCall
<1>5. Workers = {}
  BY <1>1, <1>2, RanksAre DEF Workers
<1>6. Running' = Running /\ Running = {}
  BY <1>4, <1>5 DEF Running
<1>7. Broadcastable => o \in [Outs -> Buffer] /\ \A i \in Outs : job.outs[i] # t => o[i] = out[job.root][i]
  BY <1>2, BuffersAre DEF MoveOut
<1>8. out' = [out EXCEPT ![job.root] = Store(o, t, OutputData(t))]
  BY <1>1
<1> HIDE DEF t, o
<1>9. Done' = Done \cup {t}
  BY <1>1, <1>2, <1>3, <1>4, <1>6 DEF Done
<1>10. /\ Stored' /\ Telling' /\ (Broadcastable => out' \in [Ranks -> [Outs -> Buffer]])
       /\ status' \in [Ranks -> 0..2] /\ error' \in [Ranks -> 0..2]
  <2>1. DoneWith(o, t)
    BY <1>1, <1>3, <1>7, <1>8, <1>9 DEF DoneWith
  <2> QED
    BY <2>1, MoreDone
<1>11. Typed'
  BY <1>1, <1>2, <1>4, <1>10 DEF IInv, Typed, Tasks
<1>12. Apart'
  BY <1>4, <1>5 DEF Apart
<1>13. Honest' /\ Asked'
  BY <1>1, SameAsked DEF IInv
<1>14. Phased'
  BY <1>1, <1>4 DEF IInv, Phased
<1>15. Passed'
  BY <1>1, PassedLater
<1> QED
  BY <1>1, <1>3, <1>6, <1>9, <1>10, <1>11, <1>12, <1>13, <1>14, <1>15 DEF IInv, t

-----------------------------------------------------------------------------
(***************************************************************************)
(* The end of the queue.                                                   *)
(***************************************************************************)
\* A rank leaves the queue for the broadcasts, if there are any, or for good.
LEMMA ReturnIs ==
  ASSUME Typed, NEW r \in Ranks, Return(r)
  PROVE  /\ status' \in [Ranks -> 0..2]
         /\ pc' \in [Ranks -> {"enter", "queue", "bcast", "done"}]
         /\ pc'[r] = (IF job.bcast THEN "bcast" ELSE "done")
         /\ \A q \in Ranks \ {r} : pc'[q] = pc[q]
<1>1. status \in [Ranks -> 0..2] /\ pc \in [Ranks -> {"enter", "queue", "bcast", "done"}]
  BY DEF Typed
<1>2. /\ status' = [status EXCEPT ![r] = 0]
      /\ pc' = [pc EXCEPT ![r] = IF job.bcast THEN "bcast" ELSE "done"]
  BY DEF Return
<1> QED
  BY <1>1, <1>2

\* A rank that leaves the queue is at the first broadcast.
LEMMA PassedOnReturn ==
  ASSUME IInv, NEW r \in Ranks, pc[r] = "queue",
         pc'[r] = (IF job.bcast THEN "bcast" ELSE "done"),
         \A q \in Ranks \ {r} : pc'[q] = pc[q],
         UNCHANGED <<job, out, sent, next>>
  PROVE  Passed'
<1>1. Ranks' = Ranks /\ Outs' = Outs /\ Valid(job)' = Valid(job) /\ \A i : Made(i)' = Made(i)
  BY SameCall
<1>2. 0 \in Ranks /\ Outs = 1..Len(job.outs)
  BY RanksAre, TasksAre DEF IInv, Typed
<1> SUFFICES ASSUME Broadcastable, Valid(job), job.bcast PROVE Passed'
  BY <1>1 DEF Passed
<1>3. pc'[r] = "bcast" /\ next[r] = 1
  BY DEF IInv, Passed
<1>4. \A i \in 1..Len(sent) : sent[i] = Made(i)
  BY DEF IInv, Passed
<1>5. /\ pc'[0] \in {"enter", "queue"} => sent = <<>>
      /\ pc'[0] \in {"enter", "queue", "bcast"} => next[0] = Len(sent) + 1
  BY <1>2, <1>3 DEF IInv, Passed
<1>6. \A q \in Ranks : pc'[q] \in {"enter", "queue"} => next[q] = 1
  BY <1>3 DEF IInv, Passed
<1>7. ASSUME NEW q \in Ranks \ {0}, NEW i \in Outs, pc'[q] = "done" \/ (pc'[q] = "bcast" /\ i < next[q])
      PROVE  out[q][i] = Made(i)
  <2>1. q # r
    BY <1>2, <1>3, <1>7
  <2> QED
    BY <1>7, <2>1 DEF IInv, Passed
<1> QED
  BY <1>1, <1>4, <1>5, <1>6, <1>7 DEF Passed

LEMMA StopStep == ASSUME IInv, Stop PROVE IInv'
<1>1. /\ pc[job.root] = "queue" /\ \A r \in Ranks : pc[r] # "enter"
      /\ todo = {} /\ \A g \in Workers : given[g] = None
      /\ Return(job.root)
      /\ inbox' = [r \in Ranks |-> IF r = job.root THEN <<>> ELSE Append(inbox[r], None)]
      /\ UNCHANGED <<job, out, todo, given, replies, error, sent, next>>
  BY DEF Stop
<1>2. /\ Ranks' = Ranks /\ Workers' = Workers /\ Outs' = Outs /\ Tasks' = Tasks
      /\ Valid(job)' = Valid(job) /\ \A i : Made(i)' = Made(i) /\ \A h : Leader(h)' = Leader(h)
      /\ \A h, u : Answer(h, u)' = Answer(h, u)
  BY <1>1, SameCall
<1>3. /\ job.root \in Ranks /\ 0 \in Ranks
      /\ \A h \in Workers : Leader(h) \in Ranks /\ Leader(h) # job.root
  BY RanksAre DEF IInv, Typed
<1>4. /\ status' \in [Ranks -> 0..2]
      /\ pc' \in [Ranks -> {"enter", "queue", "bcast", "done"}]
      /\ pc'[job.root] = (IF job.bcast THEN "bcast" ELSE "done")
      /\ \A q \in Ranks \ {job.root} : pc'[q] = pc[q]
  BY <1>1, <1>3, ReturnIs DEF IInv
<1>5. \A r \in Ranks : pc[r] = "queue"
  BY <1>1, <1>3 DEF IInv, Phased
<1>6. ASSUME NEW r \in Ranks
      PROVE  /\ inbox'[r] \in Seq(Tasks \cup {None})
             /\ r = job.root => inbox'[r] = <<>>
             /\ r # job.root => /\ Len(inbox[r]) \in Nat /\ Len(inbox'[r]) = Len(inbox[r]) + 1
                                /\ inbox'[r][Len(inbox[r]) + 1] = None
                                /\ \A k \in 1..Len(inbox[r]) : inbox'[r][k] = inbox[r][k]
  <2>1. inbox[r] \in Seq(Tasks \cup {None}) /\ None \in Tasks \cup {None}
    BY DEF IInv, Typed
  <2>2. inbox'[r] = IF r = job.root THEN <<>> ELSE Append(inbox[r], None)
    BY <1>1
  <2>3. <<>> \in Seq(Tasks \cup {None})
    OBVIOUS
  <2> QED
    BY <2>1, <2>2, <2>3, AppendIs
<1>7. Typed'
  <2>1. inbox' \in [Ranks -> Seq(Tasks \cup {None})]
    BY <1>1, <1>6
  <2> QED
    BY <1>1, <1>2, <1>4, <2>1 DEF IInv, Typed, Tasks
<1>8. Apart' /\ Done' = Done
  BY <1>1, SameQueue DEF IInv
<1>9. Honest'
  BY <1>1, <1>2 DEF IInv, Honest
<1>10. Asked'
  <2>1. ASSUME NEW r \in Ranks, NEW k \in 1..Len(inbox'[r])
        PROVE  /\ r # job.root
               /\ \/ k = Len(inbox'[r]) /\ inbox'[r][k] = None
                  \/ k \in 1..Len(inbox[r]) /\ inbox'[r][k] = inbox[r][k] /\ inbox[r][k] # None
    <3>1. r # job.root
      BY <1>6, <2>1
    <3>2. k = Len(inbox[r]) + 1 \/ k \in 1..Len(inbox[r])
      BY <1>6, <2>1, <3>1
    <3>3. k \in 1..Len(inbox[r]) => inbox[r][k] # None
      BY <1>1 DEF IInv, Asked
    <3> QED
      BY <1>6, <3>1, <3>2, <3>3
  <2>2. ASSUME NEW r \in Ranks, NEW k \in 1..Len(inbox'[r])
        PROVE  IF inbox'[r][k] # None
               THEN job.group[r] # 0
               ELSE k = Len(inbox'[r]) /\ r # job.root /\ pc'[job.root] \in {"bcast", "done"}
    <3>1. CASE k = Len(inbox'[r]) /\ inbox'[r][k] = None
      BY <1>4, <2>1, <2>2, <3>1
    <3>2. CASE k \in 1..Len(inbox[r]) /\ inbox'[r][k] = inbox[r][k] /\ inbox[r][k] # None
      BY <3>2 DEF IInv, Asked
    <3> QED
      BY <2>1, <2>2, <3>1, <3>2
  <2>3. ASSUME NEW h \in Workers, NEW k \in 1..Len(inbox'[Leader(h)]) PROVE inbox'[Leader(h)][k] = None
    <3>1. \/ inbox'[Leader(h)][k] = None
          \/ k \in 1..Len(inbox[Leader(h)]) /\ inbox[Leader(h)][k] # None
      BY <1>3, <2>1, <2>3
    <3>2. k \in 1..Len(inbox[Leader(h)]) /\ inbox[Leader(h)][k] # None => inbox[Leader(h)][k] = given[h]
      BY DEF IInv, Asked
    <3> QED
      BY <1>1, <3>1, <3>2
  <2>4. job' = job
    BY <1>1
  <2> QED
    BY <1>2, <2>2, <2>3, <2>4 DEF Asked
<1>11. Phased'
  <2>1. \A r \in Ranks : inbox'[r] # <<>> => pc'[r] = "queue"
    BY <1>3, <1>4, <1>5, <1>6
  <2> QED
    BY <1>1, <1>2, <1>3, <1>4, <1>5, <2>1 DEF IInv, Phased
<1>12. Stored' /\ Telling'
  BY <1>1, <1>8, SameOutcome DEF IInv
<1>13. Passed'
  BY <1>1, <1>3, <1>4, <1>5, PassedOnReturn
<1> QED
  BY <1>7, <1>8, <1>9, <1>10, <1>11, <1>12, <1>13 DEF IInv

LEMMA LeaveStep == ASSUME IInv, NEW r \in Ranks, Leave(r) PROVE IInv'
<1>1. /\ inbox[r] # <<>> /\ Head(inbox[r]) = None /\ Return(r)
      /\ inbox' = [inbox EXCEPT ![r] = Tail(@)]
      /\ UNCHANGED <<job, out, todo, given, replies, error, sent, next>>
  BY DEF Leave
<1>2. /\ Ranks' = Ranks /\ Workers' = Workers /\ Outs' = Outs /\ Tasks' = Tasks
      /\ Valid(job)' = Valid(job) /\ \A i : Made(i)' = Made(i) /\ \A h : Leader(h)' = Leader(h)
      /\ \A h, u : Answer(h, u)' = Answer(h, u)
  BY <1>1, SameCall
<1>3. /\ job.root \in Ranks /\ 0 \in Ranks /\ \A h \in Workers : Leader(h) \in Ranks
  BY RanksAre DEF IInv, Typed
<1>4. /\ inbox' \in [Ranks -> Seq(Tasks \cup {None})]
      /\ Len(inbox[r]) \in Nat \ {0} /\ Len(inbox'[r]) = Len(inbox[r]) - 1
      /\ \A q \in Ranks \ {r} : inbox'[q] = inbox[q]
  BY <1>1, TailIs DEF IInv
<1>5. /\ Len(inbox[r]) = 1 /\ r # job.root /\ pc[job.root] \in {"bcast", "done"} /\ pc[r] = "queue"
  <2>1. inbox[r] \in Seq(Tasks \cup {None})
    BY DEF IInv, Typed
  <2>2. 1 \in 1..Len(inbox[r]) /\ inbox[r][1] = None
    BY <1>1, <1>4, <2>1
  <2>3. 1 = Len(inbox[r]) /\ r # job.root /\ pc[job.root] \in {"bcast", "done"}
    BY <2>2 DEF IInv, Asked
  <2> QED
    BY <1>1, <2>3 DEF IInv, Phased
<1>6. /\ status' \in [Ranks -> 0..2]
      /\ pc' \in [Ranks -> {"enter", "queue", "bcast", "done"}]
      /\ pc'[r] = (IF job.bcast THEN "bcast" ELSE "done")
      /\ \A q \in Ranks \ {r} : pc'[q] = pc[q]
  BY <1>1, ReturnIs DEF IInv
<1>7. Len(inbox'[r]) = 0 /\ inbox'[r] = <<>>
  <2>1. inbox'[r] \in Seq(Tasks \cup {None}) /\ Len(inbox'[r]) = 0
    BY <1>4, <1>5
  <2> QED
    BY <2>1
<1>8. Typed'
  BY <1>1, <1>2, <1>4, <1>6 DEF IInv, Typed, Tasks
<1>9. Apart' /\ Done' = Done
  BY <1>1, SameQueue DEF IInv
<1>10. Honest'
  BY <1>1, <1>2 DEF IInv, Honest
<1>11. Asked'
  <2>1. \A q \in Ranks : \A k \in 1..Len(inbox'[q]) : q # r /\ k \in 1..Len(inbox[q]) /\ inbox'[q][k] = inbox[q][k]
    BY <1>4, <1>7
  <2>2. ASSUME NEW q \in Ranks, NEW k \in 1..Len(inbox'[q])
        PROVE  IF inbox'[q][k] # None
               THEN job.group[q] # 0
               ELSE k = Len(inbox'[q]) /\ q # job.root /\ pc'[job.root] \in {"bcast", "done"}
    <3>1. q # r /\ inbox'[q] = inbox[q]
      BY <1>4, <2>1, <2>2
    <3> QED
      BY <1>5, <1>6, <2>2, <3>1, <1>3 DEF IInv, Asked
  <2>3. ASSUME NEW h \in Workers, NEW k \in 1..Len(inbox'[Leader(h)]), inbox'[Leader(h)][k] # None
        PROVE  k = 1 /\ inbox'[Leader(h)][k] = given[h] /\ \A m \in replies : m.by # h
    <3>1. k \in 1..Len(inbox[Leader(h)]) /\ inbox'[Leader(h)][k] = inbox[Leader(h)][k]
      BY <1>3, <2>1, <2>3
    <3> QED
      BY <2>3, <3>1 DEF IInv, Asked
  <2>4. job' = job /\ given' = given /\ replies' = replies
    BY <1>1
  <2> QED
    BY <1>2, <2>2, <2>3, <2>4 DEF Asked
<1>12. Phased'
  <2>1. \A q \in Ranks : inbox'[q] # <<>> => pc'[q] = "queue"
    BY <1>4, <1>6, <1>7 DEF IInv, Phased
  <2>2. pc'[job.root] = pc[job.root] /\ Valid(job)
    BY <1>3, <1>5, <1>6 DEF IInv, Phased
  <2> QED
    BY <1>1, <1>2, <1>3, <1>5, <1>6, <2>1, <2>2 DEF IInv, Phased
<1>13. Stored' /\ Telling'
  BY <1>1, <1>9, SameOutcome DEF IInv
<1>14. Passed'
  BY <1>1, <1>5, <1>6, PassedOnReturn
<1> QED
  BY <1>8, <1>9, <1>10, <1>11, <1>12, <1>13, <1>14 DEF IInv

-----------------------------------------------------------------------------
(***************************************************************************)
(* The broadcasts.                                                         *)
(***************************************************************************)
\* The loop goes on to the next buffer, or ends after the last.
LEMMA NextCallIs ==
  ASSUME Typed, Valid(job), NEW r \in Ranks, NextCall(r)
  PROVE  /\ next' \in [Ranks -> 1..Len(job.ins)] /\ next[r] \in 1..Len(job.ins)
         /\ pc' \in [Ranks -> {"enter", "queue", "bcast", "done"}]
         /\ next'[r] = (IF next[r] = Len(job.ins) THEN next[r] ELSE next[r] + 1)
         /\ pc'[r] = (IF next[r] = Len(job.ins) THEN "done" ELSE pc[r])
         /\ \A q \in Ranks \ {r} : next'[q] = next[q] /\ pc'[q] = pc[q]
<1>1. /\ next \in [Ranks -> 1..Len(job.ins)] /\ pc \in [Ranks -> {"enter", "queue", "bcast", "done"}]
      /\ Len(job.ins) \in Nat /\ Len(job.ins) > 0
  BY TasksAre DEF Typed
<1>2. /\ next' = [next EXCEPT ![r] = IF @ = Len(job.ins) THEN @ ELSE @ + 1]
      /\ pc' = [pc EXCEPT ![r] = IF next[r] = Len(job.ins) THEN "done" ELSE @]
  BY DEF NextCall
<1> DEFINE n == IF next[r] = Len(job.ins) THEN next[r] ELSE next[r] + 1
<1>3. next[r] \in 1..Len(job.ins) /\ n \in 1..Len(job.ins)
  BY <1>1
<1>4. next' = [next EXCEPT ![r] = n]
  BY <1>2
<1> QED
  BY <1>1, <1>2, <1>3, <1>4

\* A broadcast changes neither the queue nor the requests, and a rank at the broadcasts has
\* no requests left.
LEMMA BcastKeeps ==
  ASSUME IInv, NEW r \in Ranks, pc[r] = "bcast", NextCall(r),
         UNCHANGED <<job, todo, given, inbox, replies, status, error>>
  PROVE  Apart' /\ Honest' /\ Asked' /\ Phased' /\ Done' = Done
<1>1. Valid(job) /\ job.bcast /\ job \in Jobs /\ job.root \in Ranks
  BY RanksAre DEF IInv, Typed, Phased
<1>2. /\ pc'[r] = (IF next[r] = Len(job.ins) THEN "done" ELSE pc[r])
      /\ \A q \in Ranks \ {r} : pc'[q] = pc[q]
  BY <1>1, NextCallIs DEF IInv
<1>3. /\ Ranks' = Ranks /\ Workers' = Workers /\ Valid(job)' = Valid(job)
  BY SameCall
<1>4. /\ pc[job.root] \in {"bcast", "done"} => pc'[job.root] \in {"bcast", "done"}
      /\ pc[job.root] \in {"bcast", "done"}
  BY <1>1, <1>2 DEF IInv, Phased, Typed
<1>5. Asked' /\ Honest'
  BY <1>4, SameAsked DEF IInv
<1>6. Apart' /\ Done' = Done
  BY SameQueue DEF IInv
<1>7. \A q \in Ranks : pc'[q] \in {"queue", "bcast"} => pc'[q] = pc[q]
  BY <1>2
<1>8. \A q \in Ranks : inbox[q] # <<>> => pc'[q] = "queue"
  BY <1>2 DEF IInv, Phased
<1>9. Phased'
  BY <1>1, <1>3, <1>4, <1>7, <1>8 DEF IInv, Phased
<1> QED
  BY <1>5, <1>6, <1>9

\* When the root has left the queue all is done.
LEMMA AllDone ==
  ASSUME IInv, pc[job.root] \in {"bcast", "done"}
  PROVE  Done = Tasks
<1>1. todo = {} /\ \A g \in Workers : given[g] = None
  BY DEF IInv, Phased
<1>2. Running = {}
  BY <1>1 DEF Running
<1> QED
  BY <1>1, <1>2 DEF Done

\* Its outputs are then all there.
LEMMA RootHas ==
  ASSUME Broadcastable, IInv, Valid(job), pc[job.root] \in {"bcast", "done"}
  PROVE  \A i \in Outs : out[job.root][i] = Made(i)
<1>1. \A i \in Outs : job.outs[i] \in Done
  BY AllDone, TasksAre DEF IInv, Typed
<1> QED
  BY <1>1 DEF IInv, Stored

\* Whatever is broadcast from where, the loop is as it should be but for the outputs.
LEMMA LooseStep ==
  ASSUME ~Broadcastable, IInv, NEW r \in Ranks, pc[r] = "bcast", NextCall(r),
         UNCHANGED <<job, todo, given, inbox, replies, status, error>>
  PROVE  IInv'
<1>1. Valid(job)
  BY DEF IInv, Phased
<1>2. /\ next' \in [Ranks -> 1..Len(job.ins)]
      /\ pc' \in [Ranks -> {"enter", "queue", "bcast", "done"}]
  BY <1>1, NextCallIs DEF IInv
<1>3. Ranks' = Ranks /\ Workers' = Workers /\ Tasks' = Tasks /\ Valid(job)' = Valid(job)
  BY SameCall
<1>4. Typed'
  BY <1>1, <1>2, <1>3 DEF IInv, Typed, Tasks
<1>5. Apart' /\ Honest' /\ Asked' /\ Phased' /\ Done' = Done
  BY BcastKeeps
<1>6. Stored' /\ Telling'
  BY <1>5, SameOutcome DEF IInv
<1>7. Passed'
  BY DEF Passed
<1> QED
  BY <1>4, <1>5, <1>6, <1>7 DEF IInv

LEMMA BcastSendStep == ASSUME Broadcastable, IInv, BcastSend PROVE IInv'
<1>1. /\ pc[0] = "bcast" /\ sent' = Append(sent, out[0][next[0]]) /\ NextCall(0)
      /\ UNCHANGED <<job, out, todo, given, inbox, replies, status, error>>
  BY DEF BcastSend
<1>2. /\ job \in Jobs /\ 0 \in Ranks /\ sent \in Seq(Buffer)
      /\ Len(job.outs) \in Nat /\ Outs = 1..Len(job.outs)
  BY RanksAre, TasksAre DEF IInv, Typed
<1>3. Valid(job) /\ job.bcast
  BY <1>1, <1>2 DEF IInv, Phased
<1>4. job.root = 0 /\ Len(job.outs) = Len(job.ins)
  BY <1>2, <1>3 DEF Broadcastable
<1>5. /\ next' \in [Ranks -> 1..Len(job.ins)] /\ next[0] \in 1..Len(job.ins)
      /\ pc' \in [Ranks -> {"enter", "queue", "bcast", "done"}]
      /\ next'[0] = (IF next[0] = Len(job.ins) THEN next[0] ELSE next[0] + 1)
      /\ pc'[0] = (IF next[0] = Len(job.ins) THEN "done" ELSE pc[0])
      /\ \A q \in Ranks \ {0} : next'[q] = next[q] /\ pc'[q] = pc[q]
  BY <1>1, <1>2, <1>3, NextCallIs DEF IInv
<1>6. next[0] \in Outs /\ next[0] = Len(sent) + 1
  BY <1>1, <1>2, <1>3, <1>4, <1>5 DEF IInv, Passed
<1>7. out[0][next[0]] = Made(next[0]) /\ Made(next[0]) \in Buffer
  BY <1>1, <1>2, <1>3, <1>4, <1>6, RootHas, BuffersAre
<1>8. /\ sent' \in Seq(Buffer) /\ Len(sent') = Len(sent) + 1 /\ Len(sent) \in Nat
      /\ sent'[Len(sent) + 1] = Made(next[0]) /\ \A i \in 1..Len(sent) : sent'[i] = sent[i]
  BY <1>1, <1>2, <1>7, AppendIs
<1>9. /\ Ranks' = Ranks /\ Workers' = Workers /\ Outs' = Outs /\ Tasks' = Tasks
      /\ Valid(job)' = Valid(job) /\ \A i : Made(i)' = Made(i)
  BY <1>1, SameCall
<1>10. Typed'
  BY <1>1, <1>3, <1>5, <1>8, <1>9 DEF IInv, Typed, Tasks
<1>11. Apart' /\ Honest' /\ Asked' /\ Phased' /\ Done' = Done
  BY <1>1, <1>2, <1>4, BcastKeeps
<1>12. Stored' /\ Telling'
  BY <1>1, <1>11, SameOutcome DEF IInv
<1>13. Passed'
  <2>1. \A i \in 1..Len(sent') : sent'[i] = Made(i)
    <3>1. ASSUME NEW i \in 1..Len(sent') PROVE sent'[i] = Made(i)
      <4>1. i \in 1..Len(sent) \/ i = Len(sent) + 1
        BY <1>8, <3>1
      <4>2. i \in 1..Len(sent) => sent[i] = Made(i)
        BY <1>3 DEF IInv, Passed
      <4> QED
        BY <1>6, <1>8, <4>1, <4>2
    <3> QED
      BY <3>1
  <2>2. /\ pc'[0] \notin {"enter", "queue"}
        /\ pc'[0] = "bcast" => next'[0] = Len(sent') + 1
    BY <1>1, <1>5, <1>6, <1>8
  <2>3. \A r \in Ranks : pc'[r] \in {"enter", "queue"} => next'[r] = 1
    BY <1>3, <1>5, <2>2 DEF IInv, Passed
  <2>4. \A r \in Ranks \ {0} : \A i \in Outs :
          pc'[r] = "done" \/ (pc'[r] = "bcast" /\ i < next'[r]) => out[r][i] = Made(i)
    BY <1>3, <1>5 DEF IInv, Passed
  <2>5. out' = out
    BY <1>1
  <2> QED
    BY <1>9, <2>1, <2>2, <2>3, <2>4, <2>5 DEF Passed
<1> QED
  BY <1>10, <1>11, <1>12, <1>13 DEF IInv

LEMMA BcastReceiveStep == ASSUME Broadcastable, IInv, NEW r \in Ranks, BcastReceive(r) PROVE IInv'
<1>1. /\ r # 0 /\ pc[r] = "bcast" /\ next[r] <= Len(sent) /\ NextCall(r)
      /\ out' = [out EXCEPT ![r][next[r]] = sent[next[r]]]
      /\ UNCHANGED <<job, todo, given, inbox, replies, status, error, sent>>
  BY DEF BcastReceive
<1>2. /\ job \in Jobs /\ 0 \in Ranks /\ sent \in Seq(Buffer) /\ out \in [Ranks -> [Outs -> Buffer]]
      /\ Len(job.outs) \in Nat /\ Outs = 1..Len(job.outs)
  BY RanksAre, TasksAre DEF IInv, Typed
<1>3. Valid(job) /\ job.bcast
  BY <1>1 DEF IInv, Phased
<1>4. job.root = 0 /\ Len(job.outs) = Len(job.ins)
  BY <1>2, <1>3 DEF Broadcastable
<1>5. /\ next' \in [Ranks -> 1..Len(job.ins)] /\ next[r] \in 1..Len(job.ins)
      /\ pc' \in [Ranks -> {"enter", "queue", "bcast", "done"}]
      /\ next'[r] = (IF next[r] = Len(job.ins) THEN next[r] ELSE next[r] + 1)
      /\ pc'[r] = (IF next[r] = Len(job.ins) THEN "done" ELSE pc[r])
      /\ \A q \in Ranks \ {r} : next'[q] = next[q] /\ pc'[q] = pc[q]
  BY <1>1, <1>3, NextCallIs DEF IInv
<1>6. next[r] \in Outs /\ next[r] \in 1..Len(sent)
  BY <1>1, <1>2, <1>4, <1>5
<1>7. sent[next[r]] = Made(next[r]) /\ Made(next[r]) \in Buffer
  BY <1>2, <1>3, <1>6, BuffersAre DEF IInv, Passed
<1>8. /\ out' \in [Ranks -> [Outs -> Buffer]] /\ \A q \in Ranks \ {r} : out'[q] = out[q]
      /\ out'[r][next[r]] = Made(next[r])
      /\ \A i \in Outs \ {next[r]} : out'[r][i] = out[r][i]
  BY <1>1, <1>2, <1>6, <1>7
<1>9. /\ Ranks' = Ranks /\ Workers' = Workers /\ Outs' = Outs /\ Tasks' = Tasks
      /\ Valid(job)' = Valid(job) /\ \A i : Made(i)' = Made(i)
  BY <1>1, SameCall
<1>10. Typed'
  BY <1>1, <1>3, <1>5, <1>8, <1>9 DEF IInv, Typed, Tasks
<1>11. Apart' /\ Honest' /\ Asked' /\ Phased' /\ Done' = Done
  BY <1>1, BcastKeeps
<1>12. Stored' /\ Telling'
  BY <1>1, <1>2, <1>4, <1>8, <1>11, SameOutcome DEF IInv
<1>13. Passed'
  <2>1. ASSUME NEW q \in Ranks \ {0}, NEW i \in Outs, pc'[q] = "done" \/ (pc'[q] = "bcast" /\ i < next'[q])
        PROVE  out'[q][i] = Made(i)
    <3>1. CASE q # r
      BY <1>3, <1>5, <1>8, <2>1, <3>1 DEF IInv, Passed
    <3>2. CASE q = r
      <4>1. i < next[r] \/ i = next[r]
        <5>1. next[r] \in 1..Len(job.ins) /\ i \in 1..Len(job.ins) /\ Len(job.ins) \in Nat
          BY <1>2, <1>4, <1>5
        <5>2. next[r] # Len(job.ins) => pc'[r] = "bcast" /\ i < next[r] + 1
          BY <1>1, <1>5, <2>1, <3>2
        <5> QED
          BY <5>1, <5>2
      <4>2. i < next[r] => out[r][i] = Made(i)
        BY <1>1, <1>3 DEF IInv, Passed
      <4> QED
        BY <1>8, <3>2, <4>1, <4>2
    <3> QED
      BY <3>1, <3>2
  <2>2. /\ \A i \in 1..Len(sent) : sent[i] = Made(i)
        /\ pc'[0] \in {"enter", "queue"} => sent = <<>>
        /\ pc'[0] \in {"enter", "queue", "bcast"} => next'[0] = Len(sent) + 1
    BY <1>1, <1>2, <1>3, <1>5 DEF IInv, Passed
  <2>3. \A q \in Ranks : pc'[q] \in {"enter", "queue"} => next'[q] = 1
    BY <1>1, <1>3, <1>5 DEF IInv, Passed
  <2>4. sent' = sent
    BY <1>1
  <2> QED
    BY <1>9, <2>1, <2>2, <2>3, <2>4 DEF Passed
<1> QED
  BY <1>10, <1>11, <1>12, <1>13 DEF IInv

-----------------------------------------------------------------------------
(***************************************************************************)
(* The theorems.                                                           *)
(***************************************************************************)
LEMMA IInvNext == IInv /\ [Next]_vars => IInv'
<1> SUFFICES ASSUME IInv, [Next]_vars PROVE IInv'
  OBVIOUS
<1>1. ASSUME NEW r \in Ranks, RankStep(r) PROVE IInv'
  <2>1. CASE Enter(r)
    BY <2>1, EnterStep
  <2>2. CASE Work(r)
    BY <2>2, WorkStep
  <2>3. CASE Leave(r)
    BY <2>3, LeaveStep
  <2>4. CASE BcastReceive(r)
    <3>1. CASE Broadcastable
      BY <2>4, <3>1, BcastReceiveStep
    <3>2. CASE ~Broadcastable
      BY <2>4, <3>2, LooseStep DEF BcastReceive
    <3> QED
      BY <3>1, <3>2
  <2> QED
    BY <1>1, <2>1, <2>2, <2>3, <2>4 DEF RankStep
<1>2. CASE MasterStep
  BY <1>2, AssignStep, ReceiveStep, AloneStep, StopStep DEF MasterStep
<1>3. CASE BcastSend
  <2>1. CASE Broadcastable
    BY <1>3, <2>1, BcastSendStep
  <2>2. CASE ~Broadcastable
    <3>1. 0 \in Ranks
      BY RanksAre DEF IInv, Typed
    <3> QED
      BY <1>3, <2>2, <3>1, LooseStep DEF BcastSend
  <2> QED
    BY <2>1, <2>2
<1>4. CASE UNCHANGED vars
  <2>1. /\ Ranks' = Ranks /\ Workers' = Workers /\ Outs' = Outs /\ Tasks' = Tasks
        /\ Valid(job)' = Valid(job) /\ \A i : Made(i)' = Made(i)
    BY <1>4, SameCall DEF vars
  <2>2. Apart' /\ Done' = Done
    BY <1>4, SameQueue DEF vars, IInv
  <2>3. Asked' /\ Honest'
    BY <1>4, SameAsked DEF vars, IInv
  <2>4. Typed' /\ Phased'
    BY <1>4, <2>1 DEF vars, IInv, Typed, Phased, Tasks
  <2>5. Stored' /\ Telling'
    BY <1>4, <2>2, SameOutcome DEF vars, IInv
  <2>6. Passed'
    BY <1>4, <2>1 DEF vars, IInv, Passed
  <2> QED
    BY <2>2, <2>3, <2>4, <2>5, <2>6 DEF IInv
<1> QED
  BY <1>1, <1>2, <1>3, <1>4 DEF Next, Finished

LEMMA Invariant == Spec => []IInv
BY IInvInit, IInvNext, PTL DEF Spec

\* Every task is handed out once and answered once, from the state alone.
LEMMA QueueInit == Init => Queue!Init
<1> SUFFICES ASSUME Init PROVE Queue!Init
  OBVIOUS
<1>1. job \in Jobs /\ todo = TasksOf(job) /\ given = [g \in Workers |-> None]
  BY DEF Init
<1>2. Running = {}
  BY <1>1 DEF Running
<1>3. todo \subseteq AllTasks
  BY <1>1 DEF AllTasks
<1>4. (TasksOf(job) \ todo) \ Running = {}
  BY <1>1
<1> QED
  BY <1>2, <1>3, <1>4 DEF Queue!Init

LEMMA QueueStep == IInv /\ [Next]_vars => [Queue!Next]_(Queue!vars)
<1> SUFFICES ASSUME IInv, [Next]_vars PROVE Queue!Next \/ UNCHANGED <<todo, Running, Done>>
  BY DEF Queue!vars, Done, Tasks
<1>1. todo \subseteq Tasks /\ \A t \in Tasks : t \in AllTasks
  BY DEF IInv, Typed, Tasks, AllTasks
<1>2. ASSUME UNCHANGED <<job, todo, given>> PROVE UNCHANGED <<todo, Running, Done>>
  BY <1>2, SameQueue
<1>3. ASSUME NEW g \in Workers, Assign(g) PROVE Queue!Next
  <2> DEFINE t == Min(todo)
  <2>1. t \in todo /\ t \in Tasks /\ todo' = todo \ {t} /\ Running' = Running \cup {t} /\ Done' = Done
    BY <1>3, AssignIs
  <2> HIDE DEF t
  <2>2. Queue!Take(t)
    BY <2>1 DEF Queue!Take, Done, Tasks
  <2> QED
    BY <1>1, <2>1, <2>2 DEF Queue!Next
<1>4. ASSUME NEW m \in replies, Receive(m) PROVE Queue!Next
  <2> DEFINE t == given[m.by]
  <2>1. /\ t \in Tasks /\ m.by \in Workers /\ t # None /\ job' = job /\ todo' = todo
        /\ Running' = Running \ {t} /\ Done' = Done \cup {t}
    BY <1>4, ReceiveIs
  <2>2. t \in Running
    BY <2>1 DEF Running
  <2> HIDE DEF t
  <2>3. Queue!Answer(t, {})
    BY <2>1, <2>2 DEF Queue!Answer, Done, Tasks
  <2> QED
    BY <1>1, <2>1, <2>3 DEF Queue!Next
<1>5. CASE Alone
  <2> DEFINE t == Min(todo)
  <2>1. t \in todo /\ todo' = todo \ {t} /\ Running' = Running /\ Done' = Done \cup {t}
    BY <1>5, AloneStep
  <2> HIDE DEF t
  <2>2. Queue!DoAlone(t, {})
    BY <2>1 DEF Queue!DoAlone, Done, Tasks
  <2> QED
    BY <1>1, <2>1, <2>2 DEF Queue!Next
<1>6. ASSUME NEW r \in Ranks, RankStep(r) PROVE UNCHANGED <<todo, Running, Done>>
  BY <1>2, <1>6 DEF RankStep, Enter, Work, Leave, BcastReceive
<1>7. CASE Stop \/ BcastSend \/ UNCHANGED vars
  BY <1>2, <1>7 DEF Stop, BcastSend, vars
<1> QED
  BY <1>3, <1>4, <1>5, <1>6, <1>7 DEF Next, MasterStep, Finished

\* compress_many and decompress_many work their queue as work_queue promises: the master
\* hands out every group of buffers once, and takes one answer for it.
THEOREM QueueWorked == Spec => Queue!Safe
<1>1. Init /\ [][Next]_vars /\ []IInv => Queue!Safe
  BY QueueInit, QueueStep, PTL DEF Queue!Safe
<1> QED
  BY <1>1, Invariant, PTL DEF Spec

\* A root that is done tells of every failure.
LEMMA ErrorFollows == IInv => ErrorKept
<1> SUFFICES ASSUME IInv, Valid(job), pc[job.root] = "done"
             PROVE  error[job.root] # 0 <=> job.fails \cap TasksOf(job) # {}
  BY DEF ErrorKept
<1>1. Done = Tasks
  BY AllDone
<1>2. error[job.root] # 0 <=> \E t \in Tasks : t \in job.fails
  BY <1>1 DEF IInv, Telling
<1> QED
  BY <1>2 DEF Tasks

\* Whatever is broadcast, the root's error code says whether the child failed on any group,
\* in whatever order the answers came (common_many_impl's set_error on each answer).
THEOREM ErrorTold == Spec => []ErrorKept
BY ErrorFollows, Invariant, PTL

\* When the broadcast, if any, is from rank 0 as the master's and of as many buffers as there
\* are inputs, a call gives every rank what it promises: the root each of its outputs, made of
\* that output's own group, and the truth about the failures, and every other rank what was
\* broadcast (common_many_impl).
THEOREM OutcomesTrue == ASSUME Broadcastable PROVE Spec => []Outcomes
<1>1. IInv => Outcomes
  <2> SUFFICES ASSUME IInv PROVE Outcomes
    OBVIOUS
  <2>1. TypeOK
    BY DEF IInv, Typed, TypeOK, Tasks
  <2>2. RootHasAll
    BY RootHas DEF RootHasAll, Fine
  <2>3. ErrorKept
    BY ErrorFollows
  <2>4. AllHaveAll
    <3> SUFFICES ASSUME NEW r \in Ranks, Valid(job), job.bcast, job.root = 0, pc[r] = "done"
                 PROVE  \A i \in Outs : out[r][i] = Made(i)
      BY DEF AllHaveAll, Fine
    <3>1. CASE r = 0
      BY <3>1, RootHas
    <3>2. CASE r # 0
      BY <3>2 DEF IInv, Passed
    <3> QED
      BY <3>1, <3>2
  <2> QED
    BY <2>1, <2>2, <2>3, <2>4 DEF Outcomes
<1> QED
  BY <1>1, Invariant, PTL
=============================================================================

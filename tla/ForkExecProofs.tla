--------------------------- MODULE ForkExecProofs ---------------------------
(***************************************************************************)
(* Proofs about ForkExec, for any number of concurrent launches, any        *)
(* programs and any capacity of the pipes: a call that succeeds returns     *)
(* what its own program wrote and how that program ended, and leaves no     *)
(* pipe open.                                                              *)
(***************************************************************************)
EXTENDS ForkExec, SequenceTheorems, TLAPS

PCs    == {"begin", "pipe", "fork", "close", "loop", "wait", "done"}
States == {"none", "forked", "running", "zombie", "reaped"}

Typed ==
  /\ prog \in [Launches -> Programs]
  /\ pc \in [Launches -> PCs]
  /\ pipe \in [Pipes -> Seq(Nat)]
  /\ writers \in [Pipes -> SUBSET Processes]
  /\ readers \in [Pipes -> SUBSET Processes]
  /\ child \in [Launches -> States]
  /\ todo \in [Launches -> Seq(Streams)]
  /\ wrote \in [Launches -> [Streams -> Seq(Nat)]]
  /\ text \in [Launches -> [Streams -> Seq(Nat)]]
  /\ closed \in [Launches -> SUBSET Streams]
  /\ result \in [Launches -> [error : {"none", "success", "fork_error", "pipe_error"}, code : -1..255]]

\* Len(pipe[p]) <= Capacity
Bounded == \A p \in Pipes : Len(pipe[p]) <= Capacity

\* A child lives from the call's fork to its waitpid; the call that succeeds has its code.
Lives == \A l \in Launches :
  /\ pc[l] \in {"begin", "pipe", "fork"} => child[l] = "none"
  /\ pc[l] \in {"close", "loop", "wait"} => child[l] \in {"forked", "running", "zombie"}
  /\ pc[l] # "done" => result[l].error # "success"
  /\ pc[l] = "done" => IF result[l].error = "success"
                       THEN child[l] = "reaped" /\ result[l].code = Status(l)
                       ELSE child[l] = "none"

\* What holds a descriptor: the parent from pipe() to the close of that end, a child
\* while it lives.
Holds == \A l \in Launches : \A p \in Pipes :
  l \in writers[p] \cup readers[p] => child[l] \in {"forked", "running"}
ParentHolds == \A l \in Launches :
  /\ pc[l] \in {"pipe", "fork"} => Parent \in writers[<<l, "out">>]
  /\ pc[l] = "fork" => Parent \in writers[<<l, "err">>]
  /\ Returned(l) => \A s \in Streams : Parent \notin readers[<<l, s>>]
\* A child has the write ends of its own pipes to its end: no end of file comes before.
ChildHolds == \A l \in Launches : \A s \in Streams :
  child[l] \in {"forked", "running"} => l \in writers[<<l, s>>]

\* A stream that is closed is at its end: nobody can write to its pipe any more.
AtEnds == \A l \in Launches :
  /\ \A s \in closed[l] : writers[<<l, s>>] = {} /\ pipe[<<l, s>>] = <<>>
  /\ pc[l] \in {"begin", "pipe", "fork", "close"} => closed[l] = {}
  /\ pc[l] = "wait" \/ Returned(l) => closed[l] = Streams
  /\ pc[l] = "done" /\ ~Returned(l) => closed[l] = {}

\* A program that has ended wrote all it had to.
Emptied == \A l \in Launches : child[l] \in {"zombie", "reaped"} => todo[l] = <<>>

IInv == /\ Typed /\ Bounded /\ Lives /\ Holds /\ ParentHolds /\ ChildHolds /\ AtEnds /\ Emptied
        /\ NothingLost

\* Reads join to the same text however they are grouped.
LEMMA ReadsJoin ==
  ASSUME NEW a \in Seq(Nat), NEW b \in Seq(Nat), NEW c \in Seq(Nat)
  PROVE  (a \o b) \o c = a \o (b \o c)
OBVIOUS

USE CapacityAssumption, ParentAssumption

(***************************************************************************)
(* Sequences.                                                              *)
(***************************************************************************)
\* A write at the end of a pipe is a write at the end of what has been read and will be.
LEMMA WrittenLast ==
  ASSUME NEW a \in Seq(Nat), NEW b \in Seq(Nat), NEW x \in Nat
  PROVE  a \o Append(b, x) = Append(a \o b, x)
<1>1. Append(b, x) \in Seq(Nat) /\ Append(a \o b, x) \in Seq(Nat) /\ a \o b \in Seq(Nat)
  BY ConcatProperties
<1>2. Append(b, x) = b \o <<x>> /\ Append(a \o b, x) = (a \o b) \o <<x>>
  BY <1>1
<1>3. <<x>> \in Seq(Nat)
  OBVIOUS
<1> QED
  BY <1>2, <1>3, ConcatAssociative

\* A read moves a chunk from one to the other.
LEMMA ReadMoves ==
  ASSUME NEW a \in Seq(Nat), NEW q \in Seq(Nat)
  PROVE  /\ Taken(q) \in Seq(Nat) /\ Left(q) \in Seq(Nat)
         /\ Len(Left(q)) <= Len(q)
         /\ (a \o Taken(q)) \o Left(q) = a \o q
<1>1. CASE q = <<>>
  BY <1>1, ConcatEmptySeq, ConcatProperties, EmptySeq DEF Taken, Left
<1>2. CASE q # <<>>
  <2>1. Head(q) \in Nat /\ Tail(q) \in Seq(Nat) /\ Len(Tail(q)) = Len(q) - 1
    BY <1>2, HeadTailProperties
  <2>2. <<Head(q)>> \o Tail(q) = q
    <3>1. Len(q) \in Nat \ {0}
      BY <1>2, EmptySeq
    <3>2. <<Head(q)>> \in Seq(Nat)
      BY <2>1
    <3>3. Len(<<Head(q)>> \o Tail(q)) = Len(q) /\ <<Head(q)>> \o Tail(q) \in Seq(Nat)
      BY <2>1, <3>1, <3>2, ConcatProperties
    <3>4. \A i \in 1..Len(q) : (<<Head(q)>> \o Tail(q))[i] = q[i]
      BY <1>2, <2>1, <3>1, <3>2, HeadTailProperties, ConcatProperties
    <3> QED
      BY <3>3, <3>4, SeqEqual
  <2>3. <<Head(q)>> \in Seq(Nat)
    BY <2>1
  <2>4. (a \o <<Head(q)>>) \o Tail(q) = a \o q
    <3> DEFINE h == <<Head(q)>>
               r == Tail(q)
    <3>1. h \in Seq(Nat) /\ r \in Seq(Nat) /\ h \o r = q
      BY <2>1, <2>2, <2>3
    <3> HIDE DEF h, r
    <3>2. (a \o h) \o r = a \o (h \o r)
      BY <3>1, ReadsJoin, Zenon
    <3> QED
      BY <3>1, <3>2 DEF h, r
  <2> QED
    BY <1>2, <2>1, <2>3, <2>4, LenProperties DEF Taken, Left
<1> QED
  BY <1>1, <1>2

(***************************************************************************)
(* The initial state, and each step.                                       *)
(***************************************************************************)
LEMMA IInvInit == Init => IInv
<1> SUFFICES ASSUME Init PROVE IInv
  OBVIOUS
<1>1. Typed
  BY DEF Init, Typed, PCs, States, Empty, NoResult
<1>2. NothingLost
  BY ConcatEmptySeq, EmptySeq DEF Init, NothingLost, Empty, Pipes
<1>3. Bounded
  BY EmptySeq DEF Init, Bounded
<1>4. Lives /\ Holds /\ ParentHolds /\ ChildHolds /\ AtEnds /\ Emptied
  BY DEF Init, Lives, Holds, ParentHolds, ChildHolds, AtEnds, Emptied, NoResult, Returned
<1> QED
  BY <1>1, <1>2, <1>3, <1>4 DEF IInv

\* The call returns before there is a child.
LEMMA RefuseStep ==
  ASSUME IInv, NEW l \in Launches, NEW step, NEW error \in {"fork_error", "pipe_error"}, NEW code \in {-1, 0},
         pc[l] \in {"begin", "pipe", "fork"}, Refuse(l, step, error, code)
  PROVE  IInv'
<1>1. Typed'
  BY DEF IInv, Refuse, Finish, Typed, PCs
<1>2. NothingLost' /\ Bounded' /\ Holds' /\ ChildHolds' /\ Emptied'
  BY DEF IInv, Refuse, NothingLost, Bounded, Holds, ChildHolds, Emptied
<1>3. Lives' /\ ParentHolds' /\ AtEnds'
  BY DEF IInv, Refuse, Finish, Typed, PCs, Lives, ParentHolds, AtEnds, Returned, Status, ExitCode
<1> QED
  BY <1>1, <1>2, <1>3 DEF IInv

LEMMA OpenStep ==
  ASSUME IInv, NEW l \in Launches, NEW s \in Streams, NEW after \in PCs, OpenPipe(l, s), pc' = [pc EXCEPT ![l] = after],
         \/ pc[l] = "begin" /\ s = "out" /\ after = "pipe"
         \/ pc[l] = "pipe" /\ s = "err" /\ after = "fork",
         UNCHANGED <<prog, pipe, child, todo, wrote, text, closed, result>>
  PROVE  IInv'
<1>1. <<l, s>> \in Pipes /\ Parent \in Processes
  BY DEF Pipes, Processes
<1>2. /\ writers' = [p \in Pipes |-> IF p = <<l, s>> THEN writers[p] \cup {Parent} ELSE writers[p]]
      /\ readers' = [p \in Pipes |-> IF p = <<l, s>> THEN readers[p] \cup {Parent} ELSE readers[p]]
  BY DEF OpenPipe, Open
<1>3. Typed'
  BY <1>1, <1>2 DEF IInv, Typed
<1>4. NothingLost' /\ Bounded' /\ Emptied'
  BY DEF IInv, NothingLost, Bounded, Emptied
<1>5. Lives'
  BY DEF IInv, Typed, Lives, Status, ExitCode
<1>6. Holds' /\ ChildHolds'
  BY <1>1, <1>2 DEF IInv, Holds, ChildHolds, Pipes
<1>7. ParentHolds'
  BY <1>1, <1>2 DEF IInv, Typed, ParentHolds, Pipes, Streams, Returned
<1>8. AtEnds'
  BY <1>1, <1>2 DEF IInv, Typed, AtEnds, Pipes, Streams, Returned
<1> QED
  BY <1>3, <1>4, <1>5, <1>6, <1>7, <1>8 DEF IInv

LEMMA PipeOutStep == ASSUME IInv, NEW l \in Launches, PipeOut(l) PROVE IInv'
BY RefuseStep, OpenStep DEF PipeOut, Streams, PCs

LEMMA PipeErrStep == ASSUME IInv, NEW l \in Launches, PipeErr(l) PROVE IInv'
BY RefuseStep, OpenStep DEF PipeErr, Streams, PCs

\* The child inherits no end of a stream that is closed: the parent has none.
LEMMA ForkStep == ASSUME IInv, NEW l \in Launches, Fork(l) PROVE IInv'
<1>1. CASE Refuse(l, "fork", "fork_error", -1)
  BY <1>1, RefuseStep DEF Fork
<1>2. CASE ~Refuse(l, "fork", "fork_error", -1)
  <2>1. /\ pc[l] = "fork"
        /\ writers' = [p \in Pipes |-> IF Parent \in writers[p] THEN writers[p] \cup {l} ELSE writers[p]]
        /\ readers' = [p \in Pipes |-> IF Parent \in readers[p] THEN readers[p] \cup {l} ELSE readers[p]]
        /\ child' = [child EXCEPT ![l] = "forked"]
        /\ pc' = [pc EXCEPT ![l] = "close"]
        /\ UNCHANGED <<prog, pipe, todo, wrote, text, closed, result>>
    BY <1>2 DEF Fork, Open, Inherited
  <2>2. Typed'
    BY <2>1 DEF IInv, Typed, PCs, States, Processes
  <2>3. NothingLost' /\ Bounded'
    BY <2>1 DEF IInv, NothingLost, Bounded
  <2>4. Lives' /\ Emptied'
    BY <2>1 DEF IInv, Typed, Lives, Emptied, Status, ExitCode
  <2>5. Holds'
    BY <2>1 DEF IInv, Typed, Holds, Lives
  <2>6. ChildHolds'
    BY <2>1 DEF IInv, Typed, ChildHolds, ParentHolds, Lives, Pipes, Streams
  <2>7. ParentHolds'
    BY <2>1 DEF IInv, Typed, ParentHolds, Pipes, Streams, Returned
  <2>8. AtEnds'
    BY <2>1 DEF IInv, Typed, AtEnds, Pipes, Returned
  <2> QED
    BY <2>2, <2>3, <2>4, <2>5, <2>6, <2>7, <2>8 DEF IInv
<1> QED
  BY <1>1, <1>2

LEMMA ExecStep == ASSUME IInv, NEW l \in Launches, Exec(l) PROVE IInv'
<1>1. /\ readers' \in [Pipes -> SUBSET Processes]
      /\ \A p \in Pipes : readers'[p] = IF p \in Both(l) THEN readers[p] \ {l} ELSE readers[p]
  BY DEF IInv, Typed, Exec, Shut
<1>2. Writes(l) \in Seq(Streams)
  <2>1. prog[l].writes \in Seq(Streams)
    BY ProgramAssumption DEF IInv, Typed, Streams
  <2>2. <<"err">> \in Seq(Streams) /\ <<"err", "err", "out">> \in Seq(Streams)
    BY DEF Streams
  <2> QED
    BY <2>1, <2>2 DEF Writes
<1>3. Typed'
  BY <1>1, <1>2 DEF IInv, Typed, Exec, States, parentVars
<1>4. NothingLost' /\ Bounded' /\ AtEnds'
  BY DEF IInv, NothingLost, Bounded, AtEnds, Exec, parentVars, Returned
<1>5. Lives' /\ Emptied'
  BY DEF IInv, Typed, Lives, Emptied, Exec, parentVars, Status, ExitCode
<1>6. Holds'
  <2>1. /\ child[l] = "forked" /\ child'[l] = "running" /\ \A k \in Launches \ {l} : child'[k] = child[k]
        /\ UNCHANGED writers
    BY DEF IInv, Typed, Exec
  <2> SUFFICES ASSUME NEW k \in Launches, NEW p \in Pipes, k \in writers'[p] \cup readers'[p]
               PROVE  child'[k] \in {"forked", "running"}
    BY DEF Holds
  <2>2. k \in writers[p] \cup readers[p]
    BY <1>1, <2>1
  <2>3. child[k] \in {"forked", "running"}
    BY <2>2 DEF IInv, Holds
  <2> QED
    BY <2>1, <2>3
<1>7. ParentHolds'
  BY <1>1 DEF IInv, ParentHolds, Exec, parentVars, Returned, Pipes
<1>8. ChildHolds'
  BY DEF IInv, Typed, ChildHolds, Exec, parentVars
<1> QED
  BY <1>3, <1>4, <1>5, <1>6, <1>7, <1>8 DEF IInv

\* A child that writes has the write end, so its stream is not closed.
LEMMA WriteStep == ASSUME IInv, NEW l \in Launches, Write(l) PROVE IInv'
<1> DEFINE s == Head(todo[l])
           p == <<l, s>>
           chunk == Len(wrote[l][s]) + 1
<1>1. /\ child[l] = "running" /\ todo[l] # <<>> /\ Len(pipe[p]) < Capacity
      /\ pipe' = [pipe EXCEPT ![p] = Append(@, chunk)]
      /\ wrote' = [wrote EXCEPT ![l][s] = Append(@, chunk)]
      /\ todo' = [todo EXCEPT ![l] = Tail(@)]
      /\ UNCHANGED <<prog, pc, writers, readers, child, text, closed, result>>
  BY DEF Write, parentVars
<1>2. s \in Streams /\ Tail(todo[l]) \in Seq(Streams) /\ p \in Pipes
  BY <1>1, HeadTailProperties DEF IInv, Typed, Pipes
<1>3. /\ pipe[p] \in Seq(Nat) /\ wrote[l][s] \in Seq(Nat) /\ text[l][s] \in Seq(Nat) /\ chunk \in Nat
      /\ text[l][s] \o pipe[p] = wrote[l][s]
  <2>1. /\ pipe[p] \in Seq(Nat) /\ wrote[l] \in [Streams -> Seq(Nat)] /\ text[l] \in [Streams -> Seq(Nat)]
        /\ text[l][s] \o pipe[p] = wrote[l][s]
    <3>1. \A r \in Streams : text[l][r] \o pipe[<<l, r>>] = wrote[l][r]
      BY DEF IInv, NothingLost
    <3> HIDE DEF s
    <3>2. pipe \in [Pipes -> Seq(Nat)] /\ wrote \in [Launches -> [Streams -> Seq(Nat)]]
          /\ text \in [Launches -> [Streams -> Seq(Nat)]]
      BY DEF IInv, Typed
    <3>3. pipe[p] \in Seq(Nat)
      BY <1>2, <3>2
    <3>4. wrote[l] \in [Streams -> Seq(Nat)] /\ text[l] \in [Streams -> Seq(Nat)]
      BY <3>2
    <3>5. text[l][s] \o pipe[p] = wrote[l][s]
      BY <1>2, <3>1
    <3> QED
      BY <3>3, <3>4, <3>5
  <2>2. wrote[l][s] \in Seq(Nat) /\ text[l][s] \in Seq(Nat)
    BY <1>2, <2>1
  <2>3. chunk \in Nat
    BY <2>2, LenProperties
  <2> QED
    BY <2>1, <2>2, <2>3
<1> HIDE DEF s, p, chunk
<1>4. /\ Append(pipe[p], chunk) \in Seq(Nat) /\ Append(wrote[l][s], chunk) \in Seq(Nat)
      /\ Len(Append(pipe[p], chunk)) = Len(pipe[p]) + 1
  BY <1>3
<1>5. Typed'
  BY <1>1, <1>2, <1>4 DEF IInv, Typed
<1>6. NothingLost'
  <2> SUFFICES ASSUME NEW k \in Launches, NEW r \in Streams
               PROVE  text'[k][r] \o pipe'[<<k, r>>] = wrote'[k][r]
    BY DEF NothingLost
  <2>1. CASE <<k, r>> = p
    <3>1. k = l /\ r = s
      BY <2>1 DEF p
    <3>2. pipe'[p] = Append(pipe[p], chunk) /\ wrote'[l][s] = Append(wrote[l][s], chunk)
      <4>1. p \in DOMAIN pipe /\ l \in DOMAIN wrote /\ s \in DOMAIN wrote[l]
        BY <1>2 DEF IInv, Typed
      <4> QED
        BY <1>1, <4>1
    <3>3. text'[l][s] \o Append(pipe[p], chunk) = Append(wrote[l][s], chunk)
      <4>1. text[l][s] \o Append(pipe[p], chunk) = Append(text[l][s] \o pipe[p], chunk)
        BY <1>3, WrittenLast
      <4> QED
        BY <1>1, <1>3, <4>1
    <3> QED
      BY <2>1, <3>1, <3>2, <3>3
  <2>2. CASE <<k, r>> # p
    <3>1. <<k, r>> \in Pipes /\ (k # l \/ r # s)
      BY <2>2 DEF p, Pipes
    <3>2. pipe'[<<k, r>>] = pipe[<<k, r>>] /\ wrote'[k][r] = wrote[k][r]
      BY <1>1, <1>2, <2>2, <3>1 DEF IInv, Typed
    <3> QED
      BY <1>1, <3>2 DEF IInv, NothingLost
  <2> QED
    BY <2>1, <2>2
<1>7. Bounded'
  <2>1. Len(pipe[p]) \in Nat
    BY <1>3, LenProperties
  <2> QED
    BY <1>1, <1>2, <1>4, <2>1 DEF IInv, Typed, Bounded
<1>8. AtEnds'
  <2>1. s \notin closed[l]
    BY <1>1, <1>2 DEF IInv, AtEnds, ChildHolds, p
  <2>2. \A k \in Launches : \A r \in closed[k] : <<k, r>> # p
    BY <2>1 DEF p
  <2>3. \A k \in Launches : \A r \in closed[k] : pipe'[<<k, r>>] = pipe[<<k, r>>]
    BY <1>1, <1>2, <2>2 DEF IInv, Typed, Pipes
  <2>4. UNCHANGED <<pc, writers, closed, result>>
    BY <1>1
  <2> QED
    BY <2>3, <2>4 DEF IInv, AtEnds, Returned
<1>9. Lives' /\ Holds' /\ ParentHolds' /\ ChildHolds' /\ Emptied'
  BY <1>1 DEF IInv, Typed, Lives, Holds, ParentHolds, ChildHolds, Emptied, Returned, Status, ExitCode
<1> QED
  BY <1>5, <1>6, <1>7, <1>8, <1>9 DEF IInv

LEMMA ExitStep == ASSUME IInv, NEW l \in Launches, Exit(l) PROVE IInv'
<1>1. /\ writers' \in [Pipes -> SUBSET Processes] /\ readers' \in [Pipes -> SUBSET Processes]
      /\ \A p \in Pipes : writers'[p] = writers[p] \ {l} /\ readers'[p] = readers[p] \ {l}
  BY DEF IInv, Typed, Exit, Shut
<1>2. Typed'
  BY <1>1 DEF IInv, Typed, Exit, States, parentVars
<1>3. NothingLost' /\ Bounded'
  BY DEF IInv, NothingLost, Bounded, Exit, parentVars
<1>4. Lives' /\ Emptied'
  BY DEF IInv, Typed, Lives, Emptied, Exit, parentVars, Status, ExitCode
<1>5. Holds'
  <2> SUFFICES ASSUME NEW k \in Launches, NEW p \in Pipes, k \in writers'[p] \cup readers'[p]
               PROVE  child'[k] \in {"forked", "running"}
    BY DEF Holds
  <2>1. k # l /\ k \in writers[p] \cup readers[p]
    BY <1>1
  <2> QED
    BY <2>1 DEF IInv, Typed, Holds, Exit
<1>6. ParentHolds'
  <2>1. \A p \in Pipes : /\ Parent \in writers[p] => Parent \in writers'[p]
                         /\ Parent \in readers'[p] => Parent \in readers[p]
    BY <1>1
  <2>2. \A k \in Launches : \A s \in Streams : <<k, s>> \in Pipes
    BY DEF Pipes
  <2>3. UNCHANGED <<pc, result>> /\ "out" \in Streams /\ "err" \in Streams
    BY DEF Exit, parentVars, Streams
  <2> QED
    BY <2>1, <2>2, <2>3 DEF IInv, ParentHolds, Returned
<1>7. ChildHolds'
  <2>1. child'[l] = "zombie" /\ \A k \in Launches \ {l} : child'[k] = child[k]
    BY DEF IInv, Typed, Exit
  <2> SUFFICES ASSUME NEW k \in Launches, NEW s \in Streams, child'[k] \in {"forked", "running"}
               PROVE  k \in writers'[<<k, s>>]
    BY DEF ChildHolds
  <2>2. k # l /\ k \in writers[<<k, s>>] /\ <<k, s>> \in Pipes
    BY <2>1 DEF IInv, ChildHolds, Pipes
  <2> QED
    BY <1>1, <2>2
<1>8. AtEnds'
  <2>1. \A k \in Launches : \A s \in closed[k] : <<k, s>> \in Pipes
    BY DEF IInv, Typed, Pipes
  <2>2. UNCHANGED <<pc, pipe, closed, result>>
    BY DEF Exit, parentVars
  <2>3. \A p \in Pipes : writers[p] = {} => writers'[p] = {}
    BY <1>1
  <2> QED
    BY <2>1, <2>2, <2>3 DEF IInv, AtEnds, Returned
<1> QED
  BY <1>2, <1>3, <1>4, <1>5, <1>6, <1>7, <1>8 DEF IInv

LEMMA CloseStep == ASSUME IInv, NEW l \in Launches, Close(l) PROVE IInv'
<1>1. /\ writers' \in [Pipes -> SUBSET Processes]
      /\ \A p \in Pipes : writers'[p] = IF p \in Both(l) THEN writers[p] \ {Parent} ELSE writers[p]
  BY DEF IInv, Typed, Close, Shut
<1>2. Typed'
  BY <1>1 DEF IInv, Typed, PCs, Close, parentVars
<1>3. NothingLost' /\ Bounded' /\ Emptied'
  BY DEF IInv, NothingLost, Bounded, Emptied, Close, parentVars
<1>4. Lives'
  BY DEF IInv, Typed, Lives, Close, parentVars, Status, ExitCode
<1>a. /\ pc[l] = "close" /\ pc'[l] = "loop" /\ \A k \in Launches \ {l} : pc'[k] = pc[k]
      /\ UNCHANGED <<prog, pipe, readers, child, closed, result>>
  BY DEF IInv, Typed, Close, parentVars
<1>5. Holds' /\ ChildHolds'
  <2>1. \A k \in Launches : \A p \in Pipes : k \in writers'[p] <=> k \in writers[p]
    BY <1>1
  <2>2. \A k \in Launches : \A s \in Streams : <<k, s>> \in Pipes
    BY DEF Pipes
  <2>3. Holds'
    BY <1>a, <2>1 DEF IInv, Holds
  <2>4. ChildHolds'
    BY <1>a, <2>1, <2>2 DEF IInv, ChildHolds
  <2> QED
    BY <2>3, <2>4
<1>6. ParentHolds'
  <2>1. \A k \in Launches \ {l} : \A s \in Streams : <<k, s>> \in Pipes /\ <<k, s>> \notin Both(l)
    BY DEF Pipes, Both
  <2>2. \A k \in Launches \ {l} : \A s \in Streams : writers'[<<k, s>>] = writers[<<k, s>>]
    BY <1>1, <2>1
  <2>3. "out" \in Streams /\ "err" \in Streams
    BY DEF Streams
  <2> QED
    BY <1>a, <2>2, <2>3 DEF IInv, ParentHolds, Returned
<1>7. AtEnds'
  <2>1. \A k \in Launches : \A s \in closed[k] : <<k, s>> \in Pipes
    BY DEF IInv, Typed, Pipes
  <2>2. \A p \in Pipes : writers[p] = {} => writers'[p] = {}
    BY <1>1
  <2>3. closed[l] = {}
    BY <1>a DEF IInv, AtEnds
  <2> QED
    BY <1>a, <2>1, <2>2, <2>3 DEF IInv, AtEnds, Returned
<1> QED
  BY <1>2, <1>3, <1>4, <1>5, <1>6, <1>7 DEF IInv

\* One turn of the loop reads of every stream that is ready what its pipe gives.
LEMMA TurnStep == ASSUME IInv, NEW l \in Launches, Turn(l) PROVE IInv'
<1> DEFINE R == Ready(l)
           chunks == [s \in Streams |-> IF s \in R THEN Taken(pipe[<<l, s>>]) ELSE <<>>]
<1>1. /\ pc[l] = "loop"
      /\ text' = [text EXCEPT ![l] = Appended(l, chunks)]
      /\ pipe' = [p \in Pipes |-> IF p[1] = l /\ p[2] \in R THEN Left(pipe[p]) ELSE pipe[p]]
      /\ closed' = [closed EXCEPT ![l] = @ \cup {s \in R : AtEnd(l, s)}]
      /\ UNCHANGED <<prog, pc, writers, readers, child, todo, wrote, result>>
  BY DEF Turn
<1>2. R \subseteq Streams /\ \A s \in R : AtEnd(l, s) => pipe[<<l, s>>] = <<>> /\ writers[<<l, s>>] = {}
  BY DEF Ready, Selected, AtEnd
<1>3. \A s \in Streams : <<l, s>> \in Pipes /\ pipe[<<l, s>>] \in Seq(Nat) /\ text[l][s] \in Seq(Nat)
  <2>1. pipe \in [Pipes -> Seq(Nat)] /\ text \in [Launches -> [Streams -> Seq(Nat)]]
    BY DEF IInv, Typed
  <2>2. \A s \in Streams : <<l, s>> \in Pipes
    BY DEF Pipes
  <2>3. text[l] \in [Streams -> Seq(Nat)]
    BY <2>1
  <2> QED
    BY <2>1, <2>2, <2>3
<1> HIDE DEF R
<1>4. \A s \in Streams : /\ chunks[s] \in Seq(Nat) /\ text[l][s] \o chunks[s] \in Seq(Nat)
                          /\ text'[l][s] = text[l][s] \o chunks[s]
  <2> SUFFICES ASSUME NEW s \in Streams
               PROVE  /\ chunks[s] \in Seq(Nat) /\ text[l][s] \o chunks[s] \in Seq(Nat)
                      /\ text'[l][s] = text[l][s] \o chunks[s]
    OBVIOUS
  <2>1. chunks[s] \in Seq(Nat)
    BY <1>3, ReadMoves, EmptySeq
  <2> HIDE DEF chunks
  <2>2. text[l][s] \o chunks[s] \in Seq(Nat)
    BY <1>3, <2>1, ConcatProperties
  <2>3. text'[l] = Appended(l, chunks)
    BY <1>1 DEF IInv, Typed
  <2> QED
    BY <2>1, <2>2, <2>3 DEF Appended
<1>5. /\ \A p \in Pipes : pipe'[p] \in Seq(Nat) /\ Len(pipe'[p]) <= Len(pipe[p])
      /\ \A s \in Streams : (text[l][s] \o chunks[s]) \o pipe'[<<l, s>>] = text[l][s] \o pipe[<<l, s>>]
  <2>1. ASSUME NEW p \in Pipes PROVE pipe'[p] \in Seq(Nat) /\ Len(pipe'[p]) <= Len(pipe[p])
    <3>1. pipe[p] \in Seq(Nat)
      BY DEF IInv, Typed
    <3>2. Len(pipe[p]) \in Nat
      BY <3>1, LenProperties
    <3>3. Left(pipe[p]) \in Seq(Nat) /\ Len(Left(pipe[p])) <= Len(pipe[p])
      BY <3>1, ReadMoves, EmptySeq
    <3> QED
      BY <1>1, <3>1, <3>2, <3>3
  <2>2. ASSUME NEW s \in Streams
        PROVE  (text[l][s] \o chunks[s]) \o pipe'[<<l, s>>] = text[l][s] \o pipe[<<l, s>>]
    <3>1. pipe'[<<l, s>>] = IF s \in R THEN Left(pipe[<<l, s>>]) ELSE pipe[<<l, s>>]
      BY <1>1, <1>3
    <3>2. CASE s \in R
      <4>1. (text[l][s] \o Taken(pipe[<<l, s>>])) \o Left(pipe[<<l, s>>]) = text[l][s] \o pipe[<<l, s>>]
        BY <1>3, ReadMoves
      <4> QED
        BY <3>1, <3>2, <4>1
    <3>3. CASE s \notin R
      <4>1. text[l][s] \o <<>> = text[l][s]
        BY <1>3, ConcatEmptySeq
      <4> QED
        BY <3>1, <3>3, <4>1
    <3> QED
      BY <3>2, <3>3
  <2> QED
    BY <2>1, <2>2
<1> HIDE DEF chunks
<1>6. NothingLost'
  <2> SUFFICES ASSUME NEW k \in Launches, NEW s \in Streams
               PROVE  text'[k][s] \o pipe'[<<k, s>>] = wrote'[k][s]
    BY DEF NothingLost
  <2>1. CASE k = l
    <3>1. text[l][s] \o pipe[<<l, s>>] = wrote[l][s]
      BY DEF IInv, NothingLost
    <3> QED
      <4>1. text'[l][s] \o pipe'[<<l, s>>] = text[l][s] \o pipe[<<l, s>>]
        BY <1>4, <1>5
      <4>2. wrote' = wrote
        BY <1>1
      <4> QED
        BY <2>1, <3>1, <4>1, <4>2
  <2>2. CASE k # l
    <3>1. <<k, s>> \in Pipes /\ pipe'[<<k, s>>] = pipe[<<k, s>>]
      BY <1>1, <2>2 DEF Pipes
    <3>2. text'[k] = text[k]
      BY <1>1, <2>2 DEF IInv, Typed
    <3> QED
      BY <1>1, <3>1, <3>2 DEF IInv, NothingLost
  <2> QED
    BY <2>1, <2>2
<1>7. Typed'
  <2>1. pipe' \in [Pipes -> Seq(Nat)]
    BY <1>1, <1>5
  <2>2. text' \in [Launches -> [Streams -> Seq(Nat)]]
    <3>1. Appended(l, chunks) \in [Streams -> Seq(Nat)]
      BY <1>4 DEF Appended
    <3> QED
      BY <1>1, <3>1 DEF IInv, Typed
  <2>3. closed' \in [Launches -> SUBSET Streams]
    BY <1>1, <1>2 DEF IInv, Typed
  <2> QED
    BY <1>1, <2>1, <2>2, <2>3 DEF IInv, Typed
<1>8. Bounded'
  <2> SUFFICES ASSUME NEW p \in Pipes PROVE Len(pipe'[p]) <= Capacity
    BY DEF Bounded
  <2>1. pipe[p] \in Seq(Nat) /\ Len(pipe[p]) <= Capacity
    BY DEF IInv, Typed, Bounded
  <2>2. Len(pipe[p]) \in Nat /\ Len(pipe'[p]) \in Nat /\ Len(pipe'[p]) <= Len(pipe[p])
    BY <1>5, <2>1, LenProperties
  <2> QED
    BY <2>1, <2>2
<1>9. AtEnds'
  <2>1. ASSUME NEW k \in Launches, NEW s \in closed'[k]
        PROVE  writers'[<<k, s>>] = {} /\ pipe'[<<k, s>>] = <<>>
    <3>1. s \in Streams
      BY <1>7 DEF Typed
    <3>2. <<k, s>> \in Pipes
      BY <3>1 DEF Pipes
    <3>3. writers[<<k, s>>] = {} /\ pipe[<<k, s>>] = <<>>
      BY <1>1, <1>2 DEF IInv, Typed, AtEnds
    <3> QED
      BY <1>1, <3>2, <3>3 DEF Left
  <2>2. \A k \in Launches : closed'[k] = closed[k] \/ k = l
    BY <1>1 DEF IInv, Typed
  <2> QED
    BY <1>1, <2>1, <2>2 DEF IInv, AtEnds, Returned
<1>10. Lives' /\ Holds' /\ ParentHolds' /\ ChildHolds' /\ Emptied'
  BY <1>1 DEF IInv, Typed, Lives, Holds, ParentHolds, ChildHolds, Emptied, Returned, Status, ExitCode
<1> QED
  BY <1>6, <1>7, <1>8, <1>9, <1>10 DEF IInv

LEMMA BreakStep == ASSUME IInv, NEW l \in Launches, Break(l) PROVE IInv'
<1>1. Typed'
  BY DEF IInv, Typed, PCs, Break, parentVars
<1>2. NothingLost' /\ Bounded' /\ Emptied' /\ Holds' /\ ChildHolds'
  BY DEF IInv, NothingLost, Bounded, Emptied, Holds, ChildHolds, Break, parentVars
<1>3. Lives' /\ ParentHolds' /\ AtEnds'
  BY DEF IInv, Typed, Lives, ParentHolds, AtEnds, Break, parentVars, Returned, Status, ExitCode
<1> QED
  BY <1>1, <1>2, <1>3 DEF IInv

LEMMA StatusTyped == ASSUME IInv, NEW l \in Launches PROVE Status(l) \in -1..255
BY ProgramAssumption DEF IInv, Typed, Status, ExitCode

LEMMA WaitStep == ASSUME IInv, NEW l \in Launches, Wait(l) PROVE IInv'
<1>1. /\ pc[l] = "wait" /\ child[l] = "zombie"
      /\ child' = [child EXCEPT ![l] = "reaped"]
      /\ pc' = [pc EXCEPT ![l] = "done"]
      /\ result' = [result EXCEPT ![l] = [error |-> "success", code |-> Status(l)]]
      /\ UNCHANGED <<prog, pipe, writers, todo, wrote, text, closed>>
  BY DEF Wait, Awaited, Finish
<1>2. /\ readers' \in [Pipes -> SUBSET Processes]
      /\ \A p \in Pipes : readers'[p] = IF p \in Both(l) THEN readers[p] \ {Parent} ELSE readers[p]
  BY DEF IInv, Typed, Wait, CloseReadEnds, Shut
<1>3. Typed'
  BY <1>1, <1>2, StatusTyped DEF IInv, Typed, PCs, States
<1>4. NothingLost' /\ Bounded' /\ Emptied'
  BY <1>1 DEF IInv, Typed, NothingLost, Bounded, Emptied
<1>5. Lives'
  BY <1>1 DEF IInv, Typed, Lives, Status, ExitCode
<1>6. Holds' /\ ChildHolds'
  <2>1. child'[l] = "reaped" /\ \A k \in Launches \ {l} : child'[k] = child[k]
    BY <1>1 DEF IInv, Typed
  <2>2. \A p \in Pipes : readers'[p] \subseteq readers[p] /\ writers'[p] = writers[p]
    BY <1>1, <1>2
  <2>3. ASSUME NEW k \in Launches, NEW p \in Pipes, k \in writers'[p] \cup readers'[p]
        PROVE  child'[k] \in {"forked", "running"}
    <3>1. child[k] \in {"forked", "running"}
      BY <2>2, <2>3 DEF IInv, Holds
    <3> QED
      BY <1>1, <2>1, <3>1
  <2>4. ASSUME NEW k \in Launches, NEW s \in Streams, child'[k] \in {"forked", "running"}
        PROVE  k \in writers'[<<k, s>>]
    BY <1>1, <2>1, <2>4 DEF IInv, ChildHolds
  <2> QED
    BY <2>3, <2>4 DEF Holds, ChildHolds
<1>7. ParentHolds'
  <2> SUFFICES ASSUME NEW k \in Launches
               PROVE  /\ pc'[k] \in {"pipe", "fork"} => Parent \in writers'[<<k, "out">>]
                      /\ pc'[k] = "fork" => Parent \in writers'[<<k, "err">>]
                      /\ Returned(k)' => \A s \in Streams : Parent \notin readers'[<<k, s>>]
    BY DEF ParentHolds
  <2>1. \A s \in Streams : <<k, s>> \in Pipes
    BY DEF Pipes
  <2>2. CASE k = l
    BY <1>1, <1>2, <2>1, <2>2 DEF IInv, Typed, Both
  <2>3. CASE k # l
    <3>1. pc'[k] = pc[k] /\ result'[k] = result[k] /\ writers' = writers
      BY <1>1, <2>3 DEF IInv, Typed
    <3>2. \A s \in Streams : readers'[<<k, s>>] \subseteq readers[<<k, s>>]
      BY <1>2, <2>1
    <3> QED
      BY <3>1, <3>2 DEF IInv, ParentHolds, Returned
  <2> QED
    BY <2>2, <2>3
<1>8. AtEnds'
  BY <1>1 DEF IInv, Typed, AtEnds, Returned
<1> QED
  BY <1>3, <1>4, <1>5, <1>6, <1>7, <1>8 DEF IInv

LEMMA StutterStep == ASSUME IInv, UNCHANGED vars PROVE IInv'
<1>1. Typed' /\ Bounded' /\ NothingLost' /\ Emptied'
  BY DEF IInv, vars, Typed, Bounded, NothingLost, Emptied
<1>2. Lives' /\ Holds' /\ ChildHolds'
  BY DEF IInv, vars, Lives, Holds, ChildHolds, Status, ExitCode
<1>3. ParentHolds' /\ AtEnds'
  BY DEF IInv, vars, ParentHolds, AtEnds, Returned
<1> QED
  BY <1>1, <1>2, <1>3 DEF IInv

LEMMA IInvStep == IInv /\ [Next]_vars => IInv'
<1> SUFFICES ASSUME IInv, [Next]_vars PROVE IInv'
  OBVIOUS
<1>1. ASSUME NEW l \in Launches, CallStep(l) PROVE IInv'
  BY <1>1, PipeOutStep, PipeErrStep, ForkStep, CloseStep, TurnStep, BreakStep, WaitStep DEF CallStep
<1>2. ASSUME NEW l \in Launches, ChildStep(l) PROVE IInv'
  BY <1>2, ExecStep, WriteStep, ExitStep DEF ChildStep
<1> QED
  BY <1>1, <1>2, StutterStep DEF Next, Finished

\* Every behaviour of the launches keeps the invariant (launch_impl as a whole).
THEOREM Invariant == Spec => []IInv
BY IInvInit, IInvStep, PTL DEF Spec

-----------------------------------------------------------------------------
(***************************************************************************)
(* What the invariant gives.                                               *)
(***************************************************************************)
LEMMA ImpliesAllRead == IInv => AllRead
<1> SUFFICES ASSUME IInv PROVE AllRead
  OBVIOUS
<1>1. TypeOK
  <2>1. \A l \in Launches : result[l].code \in -1..255
    BY DEF IInv, Typed
  <2> QED
    BY <2>1 DEF IInv, Typed, Bounded, TypeOK, PCs, States
<1>2. ASSUME NEW l \in Launches, Returned(l) PROVE text[l] = wrote[l] /\ todo[l] = <<>>
  <2>1. closed[l] = Streams /\ todo[l] = <<>>
    BY <1>2 DEF IInv, AtEnds, Lives, Emptied, Returned
  <2>2. text[l] \in [Streams -> Seq(Nat)] /\ wrote[l] \in [Streams -> Seq(Nat)]
    BY DEF IInv, Typed
  <2>3. ASSUME NEW s \in Streams PROVE text[l][s] = wrote[l][s]
    <3>1. pipe[<<l, s>>] = <<>> /\ text[l][s] \o pipe[<<l, s>>] = wrote[l][s]
      BY <2>1 DEF IInv, AtEnds, NothingLost
    <3>2. text[l][s] \o <<>> = text[l][s]
      BY <2>2, ConcatEmptySeq
    <3> QED
      BY <3>1, <3>2
  <2> QED
    BY <2>1, <2>2, <2>3
<1> QED
  BY <1>1, <1>2 DEF AllRead, IInv

LEMMA ImpliesOwnChild == IInv => OwnChild
BY DEF IInv, Typed, PCs, Lives, OwnChild, Returned, Status

LEMMA ImpliesNoneOpen == IInv => NoneOpen
<1> SUFFICES ASSUME IInv, \A l \in Launches : Returned(l), NEW p \in Pipes
             PROVE  writers[p] = {} /\ readers[p] = {}
  BY DEF NoneOpen
<1>1. PICK l \in Launches, s \in Streams : p = <<l, s>>
  BY DEF Pipes
<1>2. writers[p] = {}
  BY <1>1 DEF IInv, AtEnds
<1>3. Parent \notin readers[p]
  BY <1>1 DEF IInv, ParentHolds
<1>4. \A k \in Launches : k \notin readers[p]
  BY DEF IInv, Holds, Lives, Returned
<1>5. readers[p] \subseteq Launches \cup {Parent}
  BY DEF IInv, Typed, Processes
<1> QED
  BY <1>2, <1>3, <1>4, <1>5

\* A call that succeeds returns all its program wrote to each stream, in order and
\* unmixed with what the programs of other launches wrote (launch_impl's select loop).
THEOREM OutputWhole == Spec => []AllRead
BY Invariant, ImpliesAllRead, PTL

\* A call reaps its own child and returns that child's exit code, whichever children of
\* other launches end meanwhile (launch_impl's waitpid).
THEOREM ChildIsOwn == Spec => []OwnChild
BY Invariant, ImpliesOwnChild, PTL

\* When every call has succeeded no end of a pipe is open, though every fork copied those
\* other launches had open (launch_impl's calls of close).
THEOREM PipesShut == Spec => []NoneOpen
BY Invariant, ImpliesNoneOpen, PTL
=============================================================================

------------------------- MODULE ManyThreadedProofs -------------------------
(***************************************************************************)
(* Proofs about ManyThreaded, for any threads, setups, calls and number of *)
(* calls: the loop works on each group once, its status is that of the     *)
(* groups it worked on, and metrics that are kept stay with their group.   *)
(***************************************************************************)
EXTENDS ManyThreaded, SequenceTheorems, TLAPS

PCs  == {"idle", "loop", "clone", "act", "collect", "archive", "note", "barrier", "crashed"}
Busy == {"clone", "act", "collect", "archive", "note"}

Typed ==
  /\ setup \in Setups /\ made \in Setups /\ number \in 0..MaxCalls
  /\ call.op \in {"compress", "decompress"} /\ call.groups \in Seq(Nat)
  /\ mem \in Seq(Watched \cup {Null})
  /\ pc \in [Threads -> PCs]
  /\ idx \in [Threads -> Nat \cup {Null}]
  /\ watch \in [Threads -> Watched \cup {Null}]
  /\ nextIdx \in Nat \ {0}
  /\ out \in [Iterations -> Seq(Threads)]
  /\ tmp \in [Children -> Watched] /\ results \in [Children -> Watched]
  /\ status \in 0..2 /\ error \in 0..2

\* All threads are in a call or none is; a call that got to the loop keeps its setup.
Together == /\ (\A t \in Threads : pc[t] = "idle") \/ (\A t \in Threads : pc[t] # "idle")
            /\ (\E t \in Threads : pc[t] # "idle") => made = setup /\ status # 2 /\ number > 0

\* An iteration is handed out once, to one thread.
Handed == /\ \A t \in Threads : pc[t] \in Busy => idx[t] \in Iterations /\ idx[t] < nextIdx
          /\ \A t, u \in Threads : t # u /\ pc[t] \in Busy /\ pc[u] \in Busy => idx[t] # idx[u]

\* A group's outputs are made at most once, and not before its iteration is handed out.
MadeOnce == /\ \A i \in Iterations : out[i] = <<>> \/ Len(out[i]) = 1
            /\ \A i \in Iterations : i >= nextIdx => out[i] = <<>>
            /\ \A t \in Threads : pc[t] \in {"clone", "act"} => out[idx[t]] = <<>>

\* An iteration that was handed out is done, or somebody is about to do it.
InHand == \A i \in Iterations : i < nextIdx /\ out[i] = <<>> =>
            \E t \in Threads : idx[t] = i /\ pc[t] \in {"clone", "act", "crashed"}

\* Who leaves the loop leaves nothing, or was cancelled.
Over(s) == nextIdx > Len(call.groups) \/ (s.cancels /\ status # 0)
Left == /\ \A t \in Threads : pc[t] = "barrier" => Over(setup)
        /\ (\A t \in Threads : pc[t] = "idle") /\ status # 2 /\ number > 0 => Over(made)

FailedGroup(i) == out[i] # <<>> /\ call.groups[i] \in call.fails
\* A failure that is told is one of this call; one that is not told yet soon will be.
Told == status = 1 => \E i \in Iterations : FailedGroup(i)
Kept == \A i \in Iterations : FailedGroup(i) =>
          status = 1 \/ \E t \in Threads : idx[t] = i /\ pc[t] \in {"collect", "archive", "note"}

IInv == Typed /\ Together /\ Handed /\ MadeOnce /\ InHand /\ Left /\ Told /\ Kept

USE SetupAssumption, CallAssumption, NullAssumption, BoundAssumption

(***************************************************************************)
(* The initial state, and each step.                                       *)
(***************************************************************************)
LEMMA IInvInit == Init => IInv
<1> SUFFICES ASSUME Init PROVE IInv
  OBVIOUS
<1>1. Fresh \in Watched
  BY EmptySeq DEF Fresh, Watched
<1>2. Iterations = {} /\ call.groups \in Seq(Nat) /\ call.op \in {"compress", "decompress"} /\ Len(call.groups) = 0
  BY EmptySeq DEF Init, Iterations
<1>3. mem \in Seq(Watched \cup {Null}) /\ out \in [Iterations -> Seq(Threads)]
  BY <1>2, EmptySeq DEF Init
<1>4. Typed
  BY <1>1, <1>2, <1>3 DEF Init, Typed, PCs
<1>5. Together /\ Handed /\ MadeOnce /\ InHand /\ Left /\ Told /\ Kept
  BY <1>2 DEF Init, Together, Handed, MadeOnce, InHand, Left, Over, Told, Kept, Busy
<1> QED
  BY <1>4, <1>5 DEF IInv

LEMMA SetOptionsStep == ASSUME IInv, NEW s \in Setups, SetOptions(s) PROVE IInv'
<1>1. \A t \in Threads : pc[t] = "idle"
  BY DEF SetOptions, Running, Crashed
<1>2. Typed'
  BY DEF IInv, Typed, SetOptions, Iterations
<1>3. Together' /\ Handed' /\ MadeOnce' /\ InHand' /\ Left' /\ Told' /\ Kept'
  BY <1>1 DEF IInv, SetOptions, Together, Handed, MadeOnce, InHand, Left, Over, Told, Kept, FailedGroup, Busy, Iterations
<1> QED
  BY <1>2, <1>3 DEF IInv

\* vector::resize keeps a sequence one.
LEMMA ResizedTyped ==
  ASSUME NEW m \in Seq(Watched \cup {Null}), NEW n \in Nat
  PROVE  /\ Resized(m, n) \in Seq(Watched \cup {Null})
         /\ Len(Resized(m, n)) = n
<1>1. \A i \in 1..n : (IF i <= Len(m) THEN m[i] ELSE Null) \in Watched \cup {Null}
  BY ElementOfSeq, LenProperties
<1>2. Resized(m, n) \in [1..n -> Watched \cup {Null}]
  BY <1>1 DEF Resized
<1> QED
  BY <1>2

LEMMA BeginStep == ASSUME IInv, NEW c \in Calls, Begin(c) PROVE IInv'
<1>1. \A t \in Threads : pc[t] = "idle"
  BY DEF Begin, Running, Crashed
<1>2. /\ c.op \in {"compress", "decompress"} /\ c.groups \in Seq(Nat) /\ Len(c.groups) \in Nat
      /\ call' = c /\ Iterations' = 1..Len(c.groups)
  BY LenProperties DEF Begin, Iterations
<1>3. mem' \in Seq(Watched \cup {Null})
  BY <1>2, ResizedTyped DEF IInv, Typed, Begin
<1>4. out' = [i \in Iterations' |-> <<>>] /\ nextIdx' = 1 /\ number' = number + 1 /\ made' = setup /\ setup' = setup
  BY <1>2 DEF Begin
<1>5. \/ pc' = pc /\ status' = 2
      \/ pc' = [t \in Threads |-> "loop"] /\ status' = 0
  BY DEF Begin
<1>6. Typed'
  <2>1. out' \in [Iterations' -> Seq(Threads)]
    BY <1>4, EmptySeq
  <2>2. tmp' \in [Children -> Watched]
    BY EmptySeq DEF Begin, Fresh, Watched
  <2>3. number' \in 0..MaxCalls
    BY DEF IInv, Typed, Begin
  <2>4. pc' \in [Threads -> PCs]
    BY <1>5 DEF IInv, Typed, PCs
  <2>5. setup' \in Setups /\ made' \in Setups /\ nextIdx' \in Nat \ {0}
    BY <1>4 DEF IInv, Typed
  <2>6. status' \in 0..2 /\ error' \in 0..2
    BY DEF Begin
  <2> QED
    BY <1>2, <1>3, <2>1, <2>2, <2>3, <2>4, <2>5, <2>6 DEF IInv, Typed, Begin
<1>7. Together'
  BY <1>1, <1>4, <1>5 DEF IInv, Typed, Together
<1>8. Handed' /\ MadeOnce' /\ InHand' /\ Told' /\ Kept'
  <2>1. \A t \in Threads : pc'[t] \in {"idle", "loop"}
    BY <1>1, <1>5
  <2>2. (\A i \in Iterations' : out'[i] = <<>>) /\ Iterations' \subseteq Nat \ {0}
    BY <1>2, <1>4
  <2>3. Handed' /\ Told'
    BY <1>5, <2>1 DEF Handed, Told, Busy
  <2>4. MadeOnce' /\ Kept'
    BY <2>1, <2>2 DEF MadeOnce, Kept, FailedGroup
  <2>5. InHand'
    BY <1>4, <2>2 DEF InHand
  <2> QED
    BY <2>3, <2>4, <2>5
<1>9. Left'
  BY <1>1, <1>5 DEF Left
<1> QED
  BY <1>6, <1>7, <1>8, <1>9 DEF IInv

(***************************************************************************)
(* The steps of a thread in the loop.                                      *)
(***************************************************************************)
LEMMA TakeStep == ASSUME IInv, NEW t \in Threads, Take(t) PROVE IInv'
<1>1. Iterations = 1..Len(call.groups) /\ Len(call.groups) \in Nat
  BY LenProperties DEF IInv, Typed, Iterations
<1>2. CASE More
  <2>1. /\ pc[t] = "loop" /\ nextIdx \in Iterations
        /\ idx' = [idx EXCEPT ![t] = nextIdx] /\ nextIdx' = nextIdx + 1
        /\ pc' = [pc EXCEPT ![t] = "clone"]
        /\ UNCHANGED <<setup, call, number, mem, watch, out, tmp, results, status, error, made>>
    BY <1>1, <1>2 DEF IInv, Typed, Take, More, Advance
  <2>2. Typed'
    BY <2>1 DEF IInv, Typed, PCs, Iterations
  <2>3. Together'
    BY <2>1 DEF IInv, Typed, Together
  <2>4. Handed'
    BY <2>1 DEF IInv, Typed, Handed, Busy, Iterations
  <2>5. MadeOnce'
    BY <1>1, <2>1 DEF IInv, Typed, MadeOnce, Iterations, Handed, Busy
  <2>6. InHand'
    <3> SUFFICES ASSUME NEW i \in Iterations, i < nextIdx + 1, out[i] = <<>>
                 PROVE  \E u \in Threads : idx'[u] = i /\ pc'[u] \in {"clone", "act", "crashed"}
      BY <2>1 DEF InHand, Iterations
    <3>1. CASE i = nextIdx
      BY <2>1, <3>1 DEF IInv, Typed
    <3>2. CASE i # nextIdx
      <4>1. i < nextIdx
        BY <1>1, <3>2 DEF IInv, Typed
      <4>2. PICK u \in Threads : idx[u] = i /\ pc[u] \in {"clone", "act", "crashed"}
        BY <4>1 DEF IInv, InHand
      <4> QED
        BY <2>1, <4>2 DEF IInv, Typed
    <3> QED
      BY <3>1, <3>2
  <2>7. Left'
    BY <1>1, <1>2, <2>1 DEF IInv, Typed, Left, Over
  <2>8. Told' /\ Kept'
    <3>1. Iterations' = Iterations /\ \A i \in Iterations : FailedGroup(i)' <=> FailedGroup(i)
      BY <2>1 DEF FailedGroup, Iterations
    <3>2. Told'
      BY <2>1, <3>1 DEF IInv, Told
    <3>3. ASSUME NEW i \in Iterations, FailedGroup(i), status # 1
          PROVE  \E u \in Threads : idx'[u] = i /\ pc'[u] \in {"collect", "archive", "note"}
      <4>1. PICK u \in Threads : idx[u] = i /\ pc[u] \in {"collect", "archive", "note"}
        BY <3>3 DEF IInv, Kept
      <4> QED
        BY <2>1, <4>1 DEF IInv, Typed
    <3> QED
      BY <2>1, <3>1, <3>2, <3>3 DEF Kept
  <2> QED
    BY <2>2, <2>3, <2>4, <2>5, <2>6, <2>7, <2>8 DEF IInv
<1>3. CASE ~More
  <2>1. /\ pc[t] = "loop" /\ nextIdx > Len(call.groups)
        /\ pc' = [pc EXCEPT ![t] = "barrier"]
        /\ UNCHANGED <<setup, call, number, mem, idx, nextIdx, watch, out, tmp, results, status, error, made>>
    BY <1>1, <1>3 DEF IInv, Typed, Take, More
  <2>2. Typed'
    BY <2>1 DEF IInv, Typed, PCs, Iterations
  <2>3. Together' /\ Handed'
    BY <2>1 DEF IInv, Typed, Together, Handed, Busy, Iterations
  <2>4. MadeOnce' /\ InHand'
    <3>1. UNCHANGED <<call, idx, nextIdx, out>> /\ Iterations' = Iterations
      BY <2>1 DEF Iterations
    <3>2. \A u \in Threads : \A s \in {"clone", "act", "crashed"} : pc'[u] = s <=> pc[u] = s
      BY <2>1 DEF IInv, Typed
    <3>3. MadeOnce'
      BY <3>1, <3>2 DEF IInv, MadeOnce
    <3>4. InHand'
      BY <3>1, <3>2 DEF IInv, InHand
    <3> QED
      BY <3>3, <3>4
  <2>5. Left'
    BY <2>1 DEF IInv, Typed, Left, Over
  <2>6. Told' /\ Kept'
    BY <2>1 DEF IInv, Typed, Told, Kept, FailedGroup, Iterations
  <2> QED
    BY <2>2, <2>3, <2>4, <2>5, <2>6 DEF IInv
<1> QED
  BY <1>2, <1>3

LEMMA CloneStep == ASSUME IInv, NEW t \in Threads, Clone(t) PROVE IInv'
<1>1. /\ pc[t] = "clone"
      /\ pc' = [pc EXCEPT ![t] = "crashed"] \/ pc' = [pc EXCEPT ![t] = "act"]
      /\ UNCHANGED <<setup, call, number, idx, nextIdx, out, tmp, results, status, error, made>>
  BY DEF Clone
<1>2. mem' \in Seq(Watched \cup {Null}) /\ watch' \in [Threads -> Watched \cup {Null}]
  <2>1. CASE UNCHANGED <<watch, mem>>
    BY <2>1 DEF IInv, Typed
  <2>2. CASE /\ ~(Restores /\ Slot(t) > Len(mem))
             /\ watch' = [watch EXCEPT ![t] = IF Restores THEN mem[Slot(t)] ELSE Fresh]
             /\ mem' = IF Restores THEN [mem EXCEPT ![Slot(t)] = Null] ELSE mem
    <3>1. Fresh \in Watched
      BY EmptySeq DEF Fresh, Watched
    <3>2. CASE ~Restores
      BY <2>2, <3>1, <3>2 DEF IInv, Typed
    <3>3. CASE Restores
      <4>1. Len(mem) \in Nat /\ mem \in Seq(Watched \cup {Null})
        BY LenProperties DEF IInv, Typed
      <4>2. Slot(t) \in Nat \ {0}
        BY <1>1, LenProperties DEF IInv, Typed, Handed, Busy, Slot, Iterations
      <4>3. Slot(t) \in 1..Len(mem)
        BY <2>2, <3>3, <4>1, <4>2
      <4>4. mem[Slot(t)] \in Watched \cup {Null}
        BY <4>1, <4>3, ElementOfSeq
      <4>5. [mem EXCEPT ![Slot(t)] = Null] \in Seq(Watched \cup {Null})
        BY <4>1, <4>3, ExceptSeq
      <4> QED
        BY <2>2, <3>3, <4>4, <4>5 DEF IInv, Typed
    <3> QED
      BY <3>2, <3>3
  <2> QED
    BY <2>1, <2>2 DEF Clone
<1>3. Typed'
  BY <1>1, <1>2 DEF IInv, Typed, PCs, Iterations
<1>4. Together' /\ Handed' /\ MadeOnce'
  <2>1. Together'
    BY <1>1 DEF IInv, Typed, Together
  <2>2. Handed'
    <3>1. \A u \in Threads : pc'[u] \in Busy => pc[u] \in Busy
      BY <1>1 DEF IInv, Typed, Busy
    <3> QED
      BY <1>1, <3>1 DEF IInv, Handed, Iterations
  <2>3. MadeOnce'
    BY <1>1 DEF IInv, Typed, MadeOnce, Iterations
  <2> QED
    BY <2>1, <2>2, <2>3
<1>5. InHand'
  <2> SUFFICES ASSUME NEW i \in Iterations, i < nextIdx, out[i] = <<>>
               PROVE  \E u \in Threads : idx[u] = i /\ pc'[u] \in {"clone", "act", "crashed"}
    BY <1>1 DEF InHand, Iterations
  <2>1. PICK u \in Threads : idx[u] = i /\ pc[u] \in {"clone", "act", "crashed"}
    BY DEF IInv, InHand
  <2> QED
    BY <1>1, <2>1 DEF IInv, Typed
<1>6. Left'
  BY <1>1 DEF IInv, Typed, Left, Over
<1>7. Told' /\ Kept'
  <2>1. Told'
    BY <1>1 DEF IInv, Told, FailedGroup, Iterations
  <2>2. Kept'
    <3> SUFFICES ASSUME NEW i \in Iterations, FailedGroup(i), status # 1
                 PROVE  \E u \in Threads : idx[u] = i /\ pc'[u] \in {"collect", "archive", "note"}
      BY <1>1 DEF Kept, FailedGroup, Iterations
    <3>1. PICK u \in Threads : idx[u] = i /\ pc[u] \in {"collect", "archive", "note"}
      BY DEF IInv, Kept
    <3> QED
      BY <1>1, <3>1 DEF IInv, Typed
  <2> QED
    BY <2>1, <2>2
<1> QED
  BY <1>3, <1>4, <1>5, <1>6, <1>7 DEF IInv

LEMMA ActStep == ASSUME IInv, NEW t \in Threads, Act(t) PROVE IInv'
<1> DEFINE i == idx[t]
<1>1. /\ pc[t] = "act" /\ pc' = [pc EXCEPT ![t] = "collect"]
      /\ out' = [out EXCEPT ![i] = Append(@, t)]
      /\ UNCHANGED <<setup, call, number, mem, idx, nextIdx, tmp, results, status, error, made>>
  BY DEF Act
<1>2. i \in Iterations /\ i < nextIdx /\ out[i] = <<>>
  BY <1>1 DEF IInv, Handed, MadeOnce, Busy
<1>3. Append(out[i], t) \in Seq(Threads) /\ Len(Append(out[i], t)) = 1 /\ Append(out[i], t) # <<>>
  BY <1>2, EmptySeq
<1>4. /\ out' \in [Iterations -> Seq(Threads)] /\ Len(out'[i]) = 1 /\ out'[i] # <<>>
      /\ \A j \in Iterations : j # i => out'[j] = out[j]
  BY <1>1, <1>2, <1>3 DEF IInv, Typed
<1>5. watch' \in [Threads -> Watched \cup {Null}]
  <2>1. call.groups[i] \in Nat
    BY <1>2, ElementOfSeq DEF IInv, Typed, Iterations
  <2>2. number \in 1..MaxCalls
    BY <1>1 DEF IInv, Typed, Together
  <2>3. Seen(call, call.groups[i]) \in [number : 1..MaxCalls, op : {"compress", "decompress"}, group : Nat]
    BY <2>1, <2>2 DEF IInv, Typed, Seen
  <2>4. ASSUME watch[t] # Null PROVE Append(watch[t], Seen(call, call.groups[i])) \in Watched
    <3>1. watch[t] \in Watched
      BY <2>4 DEF IInv, Typed
    <3> QED
      BY <2>3, <3>1 DEF Watched
  <2>5. (IF watch[t] = Null THEN Null ELSE Append(watch[t], Seen(call, call.groups[i]))) \in Watched \cup {Null}
    BY <2>4
  <2> QED
    BY <2>5 DEF IInv, Typed, Act
<1> HIDE DEF i
<1>6. Typed'
  BY <1>1, <1>4, <1>5 DEF IInv, Typed, PCs, Iterations
<1>7. Together' /\ Left'
  BY <1>1 DEF IInv, Typed, Together, Left, Over
<1>8. Handed'
  BY <1>1 DEF IInv, Typed, Handed, Busy, Iterations
<1>9. MadeOnce'
  <2>1. \A u \in Threads : pc'[u] \in {"clone", "act"} => pc[u] \in {"clone", "act"} /\ idx[u] # i /\ idx[u] \in Iterations
    BY <1>1 DEF IInv, Typed, Handed, Busy, i
  <2>2. i < nextIdx /\ nextIdx \in Nat /\ Iterations \subseteq Nat
    BY <1>2, LenProperties DEF IInv, Typed, Iterations
  <2>3. \A j \in Iterations : out'[j] = <<>> \/ Len(out'[j]) = 1
    BY <1>4 DEF IInv, MadeOnce
  <2>4. \A j \in Iterations : j >= nextIdx => out'[j] = <<>>
    BY <1>2, <1>4, <2>2 DEF IInv, MadeOnce
  <2>5. \A u \in Threads : pc'[u] \in {"clone", "act"} => out'[idx[u]] = <<>>
    BY <1>4, <2>1 DEF IInv, MadeOnce
  <2> QED
    BY <1>1, <2>3, <2>4, <2>5 DEF MadeOnce, Iterations
<1>10. InHand'
  <2> SUFFICES ASSUME NEW j \in Iterations, j < nextIdx, out'[j] = <<>>
               PROVE  \E u \in Threads : idx[u] = j /\ pc'[u] \in {"clone", "act", "crashed"}
    BY <1>1 DEF InHand, Iterations
  <2>1. j # i /\ out[j] = <<>>
    BY <1>4
  <2>2. PICK u \in Threads : idx[u] = j /\ pc[u] \in {"clone", "act", "crashed"}
    BY <2>1 DEF IInv, InHand
  <2>3. u # t
    BY <2>1, <2>2 DEF i
  <2> QED
    BY <1>1, <2>2, <2>3 DEF IInv, Typed
<1>11. Told'
  <2>1. \A j \in Iterations : FailedGroup(j) => FailedGroup(j)'
    BY <1>1, <1>4 DEF FailedGroup
  <2> QED
    BY <1>1, <2>1 DEF IInv, Told, Iterations
<1>12. Kept'
  <2> SUFFICES ASSUME NEW j \in Iterations, FailedGroup(j)', status # 1
               PROVE  \E u \in Threads : idx[u] = j /\ pc'[u] \in {"collect", "archive", "note"}
    BY <1>1 DEF Kept, Iterations
  <2>1. CASE j = i
    BY <1>1, <2>1 DEF IInv, Typed, i
  <2>2. CASE j # i
    <3>1. FailedGroup(j)
      BY <1>1, <1>4, <2>2 DEF FailedGroup
    <3>2. PICK u \in Threads : idx[u] = j /\ pc[u] \in {"collect", "archive", "note"}
      BY <3>1 DEF IInv, Kept
    <3> QED
      BY <1>1, <3>2 DEF IInv, Typed
  <2> QED
    BY <2>1, <2>2
<1> QED
  BY <1>6, <1>7, <1>8, <1>9, <1>10, <1>11, <1>12 DEF IInv

\* A thread that collects or archives stays with its iteration.
LEMMA StayStep ==
  ASSUME IInv, NEW t \in Threads, NEW after \in {"archive", "note"}, pc[t] \in {"collect", "archive"},
         pc' = [pc EXCEPT ![t] = after], Typed',
         UNCHANGED <<setup, call, number, idx, nextIdx, out, status, made>>
  PROVE  IInv'
<1>1. \A u \in Threads : /\ pc'[u] \in {"collect", "archive", "note"} <=> pc[u] \in {"collect", "archive", "note"}
                         /\ pc[u] \notin {"collect", "archive"} => pc'[u] = pc[u]
                         /\ pc'[u] \notin {"archive", "note"} => pc'[u] = pc[u]
  BY DEF IInv, Typed
<1>2. Together' /\ Left'
  BY <1>1 DEF IInv, Together, Left, Over
<1>3. Handed'
  BY <1>1 DEF IInv, Handed, Busy, Iterations
<1>4. MadeOnce' /\ InHand'
  <2>1. UNCHANGED <<call, idx, nextIdx, out>> /\ Iterations' = Iterations
    BY DEF Iterations
  <2>2. \A u \in Threads : \A s \in {"clone", "act", "crashed"} : pc'[u] = s <=> pc[u] = s
    BY <1>1
  <2>3. MadeOnce'
    BY <2>1, <2>2 DEF IInv, MadeOnce
  <2>4. InHand'
    BY <2>1, <2>2 DEF IInv, InHand
  <2> QED
    BY <2>3, <2>4
<1>5. Told' /\ Kept'
  BY <1>1 DEF IInv, Told, Kept, FailedGroup, Iterations
<1> QED
  BY <1>2, <1>3, <1>4, <1>5 DEF IInv

LEMMA CollectStep == ASSUME IInv, NEW t \in Threads, Collect(t) PROVE IInv'
<1>1. tmp' \in [Children -> Watched]
  <2>1. watch[t] # Null => watch[t] \in Watched
    BY DEF IInv, Typed
  <2> QED
    BY <2>1 DEF IInv, Typed, Collect
<1>2. Typed'
  BY <1>1 DEF IInv, Typed, Collect, PCs, Iterations
<1> QED
  BY <1>2, StayStep DEF Collect

LEMMA ArchiveStep == ASSUME IInv, NEW t \in Threads, Archive(t) PROVE IInv'
<1>1. mem' \in Seq(Watched \cup {Null})
  <2> DEFINE W == Watched \cup {Null}
  <2>1. mem \in Seq(W) /\ watch[t] \in W
    BY DEF IInv, Typed
  <2> HIDE DEF W
  <2>2. [mem EXCEPT ![idx[t]] = watch[t]] \in Seq(W)
    <3>1. CASE idx[t] \in 1..Len(mem)
      BY <2>1, <3>1, ExceptSeq
    <3>2. CASE idx[t] \notin 1..Len(mem)
      <4>1. [mem EXCEPT ![idx[t]] = watch[t]] = mem
        BY <2>1, <3>2, LenProperties
      <4> QED
        BY <2>1, <4>1
    <3> QED
      BY <3>1, <3>2
  <2> QED
    BY <2>1, <2>2 DEF Archive, W
<1>2. Typed'
  BY <1>1 DEF IInv, Typed, Archive, PCs, Iterations
<1> QED
  BY <1>2, StayStep DEF Archive

LEMMA NoteStep == ASSUME IInv, ~Crashed, NEW t \in Threads, Note(t) PROVE IInv'
<1>1. /\ pc[t] = "note"
      /\ pc' = [pc EXCEPT ![t] = IF Fails(t) /\ setup.cancels THEN "barrier" ELSE "loop"]
      /\ status' = IF Fails(t) THEN 1 ELSE status
      /\ error' = IF Fails(t) THEN 1 ELSE error
      /\ UNCHANGED <<setup, call, number, mem, idx, watch, nextIdx, out, tmp, results, made>>
  BY DEF Note, Noted, AfterIteration
<1>2. idx[t] \in Iterations /\ idx[t] < nextIdx
  BY <1>1 DEF IInv, Handed, Busy
<1>3. \A u \in Threads : pc'[u] \notin {"loop", "barrier"} => pc'[u] = pc[u] /\ u # t
  BY <1>1 DEF IInv, Typed
<1>4. Typed'
  BY <1>1 DEF IInv, Typed, PCs, Iterations
<1>5. Together'
  BY <1>1 DEF IInv, Typed, Together
<1>6. Handed'
  BY <1>1, <1>3 DEF IInv, Handed, Busy, Iterations
<1>7. MadeOnce'
  BY <1>1, <1>3 DEF IInv, MadeOnce, Iterations
<1>8. InHand'
  <2> SUFFICES ASSUME NEW j \in Iterations, j < nextIdx, out[j] = <<>>
               PROVE  \E u \in Threads : idx[u] = j /\ pc'[u] \in {"clone", "act", "crashed"}
    BY <1>1 DEF InHand, Iterations
  <2>1. PICK u \in Threads : idx[u] = j /\ pc[u] \in {"clone", "act", "crashed"}
    BY DEF IInv, InHand
  <2>2. u # t
    BY <1>1, <2>1
  <2> QED
    BY <1>1, <2>1, <2>2 DEF IInv, Typed
<1>9. Left'
  <2>1. ~\A u \in Threads : pc'[u] = "idle"
    BY <1>1 DEF IInv, Typed
  <2>2. Over(setup) => Over(setup)'
    BY <1>1 DEF Over
  <2>3. \A u \in Threads : pc'[u] = "barrier" => Over(setup)'
    <3> SUFFICES ASSUME NEW u \in Threads, pc'[u] = "barrier" PROVE Over(setup)'
      OBVIOUS
    <3>1. CASE u = t
      BY <1>1, <3>1 DEF IInv, Typed, Over
    <3>2. CASE u # t
      BY <1>1, <2>2, <3>2 DEF IInv, Typed, Left
    <3> QED
      BY <3>1, <3>2
  <2> QED
    BY <1>1, <2>1, <2>3 DEF Left
<1>10. Told'
  <2>1. CASE Fails(t)
    <3>1. out[idx[t]] # <<>>
      <4>1. ASSUME out[idx[t]] = <<>> PROVE FALSE
        <5>1. PICK u \in Threads : idx[u] = idx[t] /\ pc[u] \in {"clone", "act", "crashed"}
          BY <1>2, <4>1 DEF IInv, InHand
        <5>2. pc[u] # "crashed"
          BY <5>1 DEF Crashed
        <5> QED
          BY <1>1, <5>1, <5>2 DEF IInv, Handed, Busy
      <4> QED
        BY <4>1
    <3>2. FailedGroup(idx[t])'
      BY <1>1, <2>1, <3>1 DEF FailedGroup, Fails
    <3> QED
      BY <1>1, <1>2, <3>2 DEF Told, Iterations
  <2>2. CASE ~Fails(t)
    BY <1>1, <2>2 DEF IInv, Told, FailedGroup, Iterations
  <2> QED
    BY <2>1, <2>2
<1>11. Kept'
  <2> SUFFICES ASSUME NEW j \in Iterations, FailedGroup(j), status' # 1
               PROVE  \E u \in Threads : idx[u] = j /\ pc'[u] \in {"collect", "archive", "note"}
    BY <1>1 DEF Kept, FailedGroup, Iterations
  <2>1. ~Fails(t) /\ status # 1
    BY <1>1
  <2>2. PICK u \in Threads : idx[u] = j /\ pc[u] \in {"collect", "archive", "note"}
    BY <2>1 DEF IInv, Kept
  <2>3. u # t
    BY <2>1, <2>2 DEF FailedGroup, Fails
  <2> QED
    BY <1>1, <2>2, <2>3 DEF IInv, Typed
<1> QED
  BY <1>4, <1>5, <1>6, <1>7, <1>8, <1>9, <1>10, <1>11 DEF IInv

LEMMA ReturnStep == ASSUME IInv, Return PROVE IInv'
<1>1. /\ \A t \in Threads : pc[t] = "barrier" /\ pc'[t] = "idle"
      /\ UNCHANGED <<setup, call, number, mem, nextIdx, out, tmp, status, error, made>>
  BY DEF Return, Joined
<1>2. results' \in [Children -> Watched]
  BY DEF IInv, Typed, Return
<1>3. Typed'
  <2>1. Fresh \in Watched
    BY EmptySeq DEF Fresh, Watched
  <2> QED
    BY <1>1, <1>2, <2>1 DEF IInv, Typed, Return, PCs, Iterations
<1>4. Together' /\ Handed' /\ MadeOnce' /\ Told'
  <2>1. Together' /\ Handed'
    BY <1>1 DEF Together, Handed, Busy
  <2>2. MadeOnce' /\ Told'
    BY <1>1 DEF IInv, MadeOnce, Told, FailedGroup, Iterations
  <2> QED
    BY <2>1, <2>2
<1>5. InHand' /\ Kept'
  BY <1>1 DEF IInv, InHand, Kept, FailedGroup, Iterations
<1>6. Left'
  <2>1. made = setup /\ Over(setup)
    BY <1>1 DEF IInv, Together, Left
  <2> QED
    BY <1>1, <2>1 DEF Left, Over
<1> QED
  BY <1>3, <1>4, <1>5, <1>6 DEF IInv

LEMMA StutterStep == ASSUME IInv, UNCHANGED vars PROVE IInv'
<1>1. Typed' /\ Together' /\ Handed'
  BY DEF IInv, vars, Typed, Together, Handed, Busy, Iterations
<1>2. MadeOnce' /\ InHand' /\ Left'
  BY DEF IInv, vars, MadeOnce, InHand, Left, Over, Iterations
<1>3. Told' /\ Kept'
  BY DEF IInv, vars, Told, Kept, FailedGroup, Iterations
<1> QED
  BY <1>1, <1>2, <1>3 DEF IInv

LEMMA IInvStep == IInv /\ [Next]_vars => IInv'
<1> SUFFICES ASSUME IInv, [Next]_vars PROVE IInv'
  OBVIOUS
<1>1. ASSUME NEW t \in Threads, ThreadStep(t) PROVE IInv'
  BY <1>1, TakeStep, CloneStep, ActStep, CollectStep, ArchiveStep, NoteStep DEF ThreadStep
<1> QED
  BY <1>1, BeginStep, SetOptionsStep, ReturnStep, StutterStep DEF Next, Finished

\* Every behaviour of a program with the plugin keeps the invariant (compress_many).
THEOREM Invariant == Spec => []IInv
BY IInvInit, IInvStep, PTL DEF Spec

-----------------------------------------------------------------------------
(***************************************************************************)
(* What the invariant gives.                                               *)
(***************************************************************************)
\* A call that returned handed every iteration out, unless it was cancelled.
LEMMA WhenWorked ==
  ASSUME IInv, Worked
  PROVE  (\A t \in Threads : pc[t] = "idle") /\ status # 2 /\ Over(made)
BY DEF IInv, Worked, Returned, Running, Left

LEMMA ImpliesEachOnce == IInv => EachOnce
<1> SUFFICES ASSUME IInv PROVE EachOnce
  OBVIOUS
<1>1. TypeOK
  <2>1. \A t \in Threads : pc[t] \in {"clone", "act", "collect", "archive", "note"} => idx[t] \in Iterations
    BY DEF IInv, Handed, Busy
  <2> QED
    BY <2>1 DEF IInv, Typed, TypeOK, PCs
<1>2. ASSUME Worked, NEW i \in DOMAIN out
      PROVE  Len(out[i]) = 1 \/ (made.cancels /\ status # 0 /\ out[i] = <<>>)
  <2>1. i \in Iterations /\ i \in Nat /\ i <= Len(call.groups) /\ Len(call.groups) \in Nat
    BY LenProperties DEF IInv, Typed, Iterations
  <2>2. i < nextIdx => out[i] # <<>>
    BY <1>2, <2>1, WhenWorked DEF IInv, InHand
  <2>3. nextIdx > Len(call.groups) \/ (made.cancels /\ status # 0)
    BY <1>2, WhenWorked DEF Over
  <2>4. out[i] = <<>> \/ Len(out[i]) = 1
    BY <2>1 DEF IInv, MadeOnce
  <2> QED
    BY <2>1, <2>2, <2>3, <2>4 DEF IInv, Typed
<1> QED
  BY <1>1, <1>2 DEF EachOnce

LEMMA ImpliesFailureKept == IInv => FailureKept
<1> SUFFICES ASSUME IInv, Worked PROVE status # 0 <=> \E i \in DOMAIN out : FailedGroup(i)
  BY DEF FailureKept, FailedGroup
<1>1. DOMAIN out = Iterations /\ status \in {0, 1}
  BY WhenWorked DEF IInv, Typed
<1>2. status = 1 => \E i \in Iterations : FailedGroup(i)
  BY DEF IInv, Told
<1>3. (\E i \in Iterations : FailedGroup(i)) => status = 1
  BY WhenWorked DEF IInv, Kept
<1> QED
  BY <1>1, <1>2, <1>3

\* When compress_many or decompress_many of many_independent_threaded returns, every group
\* was worked on by one thread, once, unless the loop was cancelled.
THEOREM WorkedOnce == Spec => []EachOnce
BY Invariant, ImpliesEachOnce, PTL

\* Its status says a child failed just when a child did, whichever thread noted it and
\* whichever finished last.
THEOREM FailureTold == Spec => []FailureKept
BY Invariant, ImpliesFailureKept, PTL

-----------------------------------------------------------------------------
(***************************************************************************)
(* The metrics, over any number of calls: those that are kept stay with    *)
(* their group, from a compression to its decompression, and each child    *)
(* reports on its own.                                                     *)
(***************************************************************************)
LastOf(s) == s[Len(s)]
SeenOf(i) == Seen(call, call.groups[i])
\* What the compression that was the call before has left for a group.
Packs(i) == <<[number |-> number - 1, op |-> "compress", group |-> call.groups[i]]>>

\* What is remembered of the last compression that kept its metrics.
PackedTrue ==
  /\ packed \in [number : Nat, groups : Seq(Nat)] /\ packed.number <= number
  /\ packed.number = 0 => packed.groups = <<>>
  /\ packed.number = number /\ number > 0 =>
       made.preserve /\ ~made.cancels /\ call.op = "compress" /\ status # 2 /\ packed.groups = call.groups

\* A compression that keeps its metrics: those of a group that was done are in place, or
\* a thread is about to put them there.
Archiving == made.preserve /\ call.op = "compress" /\ status # 2 /\ number > 0
Filled == Archiving =>
  /\ Len(mem) = Len(call.groups)
  /\ \A t \in Threads : pc[t] = "act" => watch[t] = Fresh
  /\ \A t \in Threads : pc[t] \in {"collect", "archive"} => watch[t] = <<SeenOf(idx[t])>>
  /\ \A i \in Iterations : out[i] # <<>> =>
       mem[i] = <<SeenOf(i)>> \/ \E u \in Threads : idx[u] = i /\ pc[u] \in {"collect", "archive"}

\* The decompression that follows it: what was kept is where it was until it is taken.
Following == /\ made.preserve /\ call.op = "decompress" /\ status # 2
             /\ packed.number > 0 /\ packed.number = number - 1 /\ packed.groups = call.groups
Restoring == Following =>
  /\ Len(mem) = Len(call.groups)
  /\ \A i \in Iterations : i >= nextIdx => mem[i] = Packs(i)
  /\ \A t \in Threads : pc[t] = "clone" => mem[idx[t]] = Packs(idx[t])
  /\ \A t \in Threads : pc[t] = "act" => watch[t] = Packs(idx[t])

\* What is collected was last reported for the group of the iteration.
Reports ==
  /\ \A t \in Threads : pc[t] = "collect" /\ watch[t] # Null => LastOf(watch[t]) = SeenOf(idx[t])
  /\ made.children = Len(call.groups) => \A k \in Iterations : tmp[k] # Fresh => LastOf(tmp[k]) = SeenOf(k)
Collected == (\A t \in Threads : pc[t] = "idle") /\ status # 2 /\ number > 0 /\ made.collect =>
               \A k \in Children : tmp[k] # Fresh => results[k] = tmp[k]

MInv == PackedTrue /\ Filled /\ Restoring /\ Reports /\ Collected

LEMMA MInvInit == Init => MInv
<1> SUFFICES ASSUME Init PROVE MInv
  OBVIOUS
<1>1. Iterations = {} /\ number = 0
  BY EmptySeq DEF Init, Iterations
<1>2. PackedTrue
  BY EmptySeq DEF Init, PackedTrue
<1>3. Filled /\ Restoring /\ Collected
  BY <1>1, <1>2 DEF Init, Filled, Archiving, Restoring, Following, Collected, PackedTrue
<1>4. Reports
  BY <1>1 DEF Init, Reports
<1> QED
  BY <1>2, <1>3, <1>4 DEF MInv

LEMMA SetOptionsKeeps == ASSUME MInv, NEW s \in Setups, SetOptions(s) PROVE MInv'
<1>1. UNCHANGED <<call, number, mem, pc, idx, watch, nextIdx, out, tmp, results, status, made, packed>>
  BY DEF SetOptions
<1>2. PackedTrue' /\ Collected' /\ Reports'
  BY <1>1 DEF MInv, PackedTrue, Collected, Reports, SeenOf, Seen, Iterations, LastOf
<1>3. Filled'
  BY <1>1 DEF MInv, Filled, Archiving, SeenOf, Seen, Iterations
<1>4. Restoring'
  BY <1>1 DEF MInv, Restoring, Following, Packs, Iterations
<1> QED
  BY <1>2, <1>3, <1>4 DEF MInv

LEMMA StutterKeeps == ASSUME MInv, UNCHANGED vars PROVE MInv'
<1>1. UNCHANGED <<call, number, mem, pc, idx, watch, nextIdx, out, tmp, results, status, made, packed>>
  BY DEF vars
<1>2. PackedTrue' /\ Collected' /\ Reports'
  BY <1>1 DEF MInv, PackedTrue, Collected, Reports, SeenOf, Seen, Iterations, LastOf
<1>3. Filled'
  BY <1>1 DEF MInv, Filled, Archiving, SeenOf, Seen, Iterations
<1>4. Restoring'
  BY <1>1 DEF MInv, Restoring, Following, Packs, Iterations
<1> QED
  BY <1>2, <1>3, <1>4 DEF MInv

\* A compression whose every group was done, and that kept its metrics, has all of them.
LEMMA AllKept ==
  ASSUME IInv, MInv, Worked, Archiving, \A i \in Iterations : out[i] # <<>>
  PROVE  Len(mem) = Len(call.groups) /\ \A i \in Iterations : mem[i] = <<SeenOf(i)>>
BY WhenWorked DEF MInv, Filled

\* A step that takes no group and disturbs nothing kept leaves the rest where it was.
LEMMA RestoringStays ==
  ASSUME Restoring, UNCHANGED <<call, number, mem, idx, watch, nextIdx, made, packed>>,
         status' # 2 => status # 2,
         \A u \in Threads : pc'[u] \in {"clone", "act"} => pc'[u] = pc[u]
  PROVE  Restoring'
<1>1. Iterations' = Iterations
  BY DEF Iterations
<1>2. CASE ~Following
  <2>1. ~Following'
    BY <1>2 DEF Following
  <2> QED
    BY <2>1 DEF Restoring
<1>3. CASE Following
  <2>1. /\ Len(mem) = Len(call.groups)
        /\ \A i \in Iterations : i >= nextIdx => mem[i] = Packs(i)
        /\ \A u \in Threads : pc'[u] = "clone" => mem[idx[u]] = Packs(idx[u])
        /\ \A u \in Threads : pc'[u] = "act" => watch[u] = Packs(idx[u])
    BY <1>3 DEF Restoring
  <2> QED
    BY <1>1, <2>1 DEF Restoring, Packs
<1> QED
  BY <1>2, <1>3

LEMMA BeginKeeps == ASSUME IInv, MInv, NEW c \in Calls, Begin(c) PROVE MInv'
<1>1. \A t \in Threads : pc[t] = "idle" /\ pc'[t] \in {"idle", "loop"}
  BY DEF Begin, Running, Crashed
<1>2. /\ c.op \in {"compress", "decompress"} /\ c.groups \in Seq(Nat) /\ Len(c.groups) \in Nat
      /\ call' = c /\ Iterations' = 1..Len(c.groups) /\ number' = number + 1 /\ number \in Nat
      /\ made' = setup /\ nextIdx' = 1 /\ out' = [i \in Iterations' |-> <<>>]
      /\ tmp' = [k \in Children |-> Fresh] /\ setup \in Setups
  BY LenProperties DEF IInv, Typed, Begin, Iterations
<1>3. setup.preserve \in BOOLEAN /\ setup.cancels \in BOOLEAN /\ setup.children \in Nat
  BY <1>2
<1>4. PackedTrue'
  <2>1. CASE packed' = packed
    BY <1>2, <2>1 DEF MInv, PackedTrue
  <2>2. CASE packed' # packed
    <3>1. setup.preserve /\ ~setup.cancels /\ c.op = "compress" /\ status' = 0
          /\ packed' = [number |-> number + 1, groups |-> c.groups]
      BY <2>2 DEF Begin
    <3> QED
      BY <1>2, <3>1 DEF PackedTrue
  <2> QED
    BY <2>1, <2>2
<1>5. Filled'
  <2> SUFFICES ASSUME Archiving' PROVE Len(mem') = Len(call'.groups)
    BY <1>1, <1>2 DEF Filled
  <2>1. setup.preserve /\ c.op = "compress"
    BY <1>2 DEF Archiving
  <2>2. mem' = Resized(mem, Len(c.groups)) /\ mem \in Seq(Watched \cup {Null})
    BY <2>1 DEF IInv, Typed, Begin
  <2>3. Len(Resized(mem, Len(c.groups))) = Len(c.groups)
    BY <1>2, <2>2, ResizedTyped
  <2> QED
    BY <1>2, <2>2, <2>3
<1>6. Restoring'
  <2> SUFFICES ASSUME Following' PROVE Len(mem') = Len(call'.groups) /\ \A i \in Iterations' : mem'[i] = Packs(i)'
    BY <1>1 DEF Restoring
  <2>1. setup.preserve /\ c.op = "decompress" /\ status' # 2
        /\ packed'.number > 0 /\ packed'.number = number /\ packed'.groups = c.groups
    BY <1>2 DEF Following
  <2>2. packed' = packed /\ mem' = mem
    BY <2>1 DEF Begin
  <2>3. made.preserve /\ ~made.cancels /\ call.op = "compress" /\ status # 2 /\ number > 0
        /\ call.groups = c.groups
    BY <2>1, <2>2 DEF MInv, PackedTrue
  <2>4. Worked /\ Archiving
    BY <1>1, <2>3 DEF Worked, Returned, Begin, Archiving
  <2>5. \A i \in Iterations : out[i] # <<>>
    <3>1. Iterations = 1..Len(call.groups) /\ Len(call.groups) \in Nat /\ nextIdx \in Nat
      BY <1>2, <2>3 DEF IInv, Typed, Iterations
    <3>2. nextIdx > Len(call.groups)
      BY <2>3, <2>4, WhenWorked DEF Over
    <3>3. ASSUME NEW i \in Iterations, out[i] = <<>> PROVE FALSE
      <4>1. i < nextIdx
        BY <3>1, <3>2
      <4>2. PICK t \in Threads : pc[t] \in {"clone", "act", "crashed"}
        BY <3>3, <4>1 DEF IInv, InHand
      <4> QED
        BY <1>1, <4>2
    <3> QED
      BY <3>3
  <2>6. Len(mem) = Len(call.groups) /\ \A i \in Iterations : mem[i] = <<SeenOf(i)>>
    BY <2>4, <2>5, AllKept
  <2>7. ASSUME NEW i \in Iterations' PROVE mem'[i] = Packs(i)'
    <3>1. i \in Iterations
      BY <1>2, <2>3 DEF Iterations
    <3>2. mem[i] = <<[number |-> number, op |-> "compress", group |-> c.groups[i]]>>
      BY <2>3, <2>6, <3>1 DEF SeenOf, Seen
    <3> QED
      BY <1>2, <2>2, <3>2 DEF Packs
  <2> QED
    BY <1>2, <2>2, <2>3, <2>6, <2>7
<1>7. Reports'
  <2>1. Len(c.groups) = setup.children => \A k \in 1..Len(c.groups) : k \in Children
    BY <1>2, <1>3 DEF Children
  <2> QED
    BY <1>1, <1>2, <2>1 DEF Reports
<1>8. Collected'
  BY <1>2 DEF Collected
<1> QED
  BY <1>4, <1>5, <1>6, <1>7, <1>8 DEF MInv

(***************************************************************************)
(* The steps of a thread in the loop.                                      *)
(***************************************************************************)
\* The iterations are the numbers of the groups, and a thread's is its own.
LEMMA InLoop ==
  ASSUME IInv, NEW t \in Threads, pc[t] # "idle"
  PROVE  /\ Iterations = 1..Len(call.groups) /\ Len(call.groups) \in Nat /\ number \in Nat \ {0}
         /\ made = setup /\ status # 2
         /\ pc[t] \in Busy => idx[t] \in Iterations /\ idx[t] < nextIdx
         /\ \A u \in Threads : u # t /\ pc[u] \in Busy /\ pc[t] \in Busy => idx[u] # idx[t]
         /\ nextIdx \in Nat \ {0}
BY LenProperties DEF IInv, Typed, Together, Handed, Iterations

LEMMA TakeKeeps == ASSUME IInv, MInv, NEW t \in Threads, Take(t) PROVE MInv'
<1>1. /\ pc[t] = "loop"
      /\ UNCHANGED <<setup, call, number, mem, watch, out, tmp, results, status, error, made, packed>>
  BY DEF Take
<1>2. \/ /\ nextIdx \in Iterations /\ idx' = [idx EXCEPT ![t] = nextIdx] /\ nextIdx' = nextIdx + 1
         /\ pc' = [pc EXCEPT ![t] = "clone"]
      \/ UNCHANGED <<idx, nextIdx>> /\ pc' = [pc EXCEPT ![t] = "barrier"]
  BY <1>1, InLoop DEF Take, More, Advance
<1>3. \A u \in Threads \ {t} : idx'[u] = idx[u] /\ pc'[u] = pc[u]
  BY <1>2 DEF IInv, Typed
<1>4. pc'[t] \in {"clone", "barrier"} /\ (pc'[t] = "clone" => idx'[t] = nextIdx /\ nextIdx \in Iterations)
  BY <1>2 DEF IInv, Typed
<1>5. PackedTrue'
  BY <1>1 DEF MInv, PackedTrue
<1>6. Filled'
  <2> SUFFICES ASSUME Archiving
               PROVE  /\ Len(mem) = Len(call.groups)
                      /\ \A u \in Threads : pc'[u] = "act" => watch[u] = Fresh
                      /\ \A u \in Threads : pc'[u] \in {"collect", "archive"} => watch[u] = <<SeenOf(idx'[u])>>
                      /\ \A i \in Iterations : out[i] # <<>> =>
                           mem[i] = <<SeenOf(i)>> \/ \E u \in Threads : idx'[u] = i /\ pc'[u] \in {"collect", "archive"}
    BY <1>1 DEF Filled, Archiving, SeenOf, Seen, Iterations
  <2>1. \A u \in Threads : pc'[u] \in {"act", "collect", "archive"} => u # t
    BY <1>4
  <2>2. \A u \in Threads : pc[u] \in {"collect", "archive"} => u # t
    BY <1>1
  <2> QED
    BY <1>3, <2>1, <2>2 DEF MInv, Filled
<1>7. Restoring'
  <2> SUFFICES ASSUME Following
               PROVE  /\ Len(mem) = Len(call.groups)
                      /\ \A i \in Iterations : i >= nextIdx' => mem[i] = Packs(i)
                      /\ \A u \in Threads : pc'[u] = "clone" => mem[idx'[u]] = Packs(idx'[u])
                      /\ \A u \in Threads : pc'[u] = "act" => watch[u] = Packs(idx'[u])
    BY <1>1 DEF Restoring, Following, Packs, Iterations
  <2>1. \A i \in Iterations : i >= nextIdx' => i >= nextIdx
    BY <1>1, <1>2, InLoop
  <2>2. \A i \in Iterations : i >= nextIdx => mem[i] = Packs(i)
    BY DEF MInv, Restoring
  <2>3. pc'[t] = "clone" => mem[idx'[t]] = Packs(idx'[t])
    BY <1>1, <1>4, <2>2, InLoop
  <2> QED
    BY <1>3, <1>4, <2>1, <2>2, <2>3 DEF MInv, Restoring
<1>8. Reports'
  <2>1. \A u \in Threads : pc'[u] = "collect" /\ watch[u] # Null => LastOf(watch[u]) = SeenOf(idx'[u])
    BY <1>3, <1>4 DEF MInv, Reports
  <2> QED
    BY <1>1, <2>1 DEF MInv, Reports, SeenOf, Seen, Iterations, LastOf
<1>9. Collected'
  BY <1>4 DEF Collected
<1> QED
  BY <1>5, <1>6, <1>7, <1>8, <1>9 DEF MInv

LEMMA CloneKeeps == ASSUME IInv, MInv, NEW t \in Threads, Clone(t) PROVE MInv'
<1>1. /\ pc[t] = "clone"
      /\ UNCHANGED <<setup, call, number, idx, nextIdx, out, tmp, results, status, error, made, packed>>
  BY DEF Clone
<1>2. \A u \in Threads \ {t} : pc'[u] = pc[u] /\ watch'[u] = watch[u]
  BY DEF IInv, Typed, Clone
<1>3. pc'[t] \in {"act", "crashed"}
  BY DEF IInv, Typed, Clone
<1>4. Restores <=> made.preserve /\ call.op = "decompress"
  BY <1>1, InLoop DEF Restores
<1>5. idx[t] \in Iterations /\ idx[t] < nextIdx /\ nextIdx \in Nat /\ Iterations \subseteq Nat
      /\ \A u \in Threads : u # t /\ pc[u] = "clone" => idx[u] # idx[t] /\ idx[u] \in Iterations
  BY <1>1, InLoop DEF Busy, IInv, Handed
<1>6. PackedTrue'
  BY <1>1 DEF MInv, PackedTrue
<1>7. Filled'
  <2> SUFFICES ASSUME Archiving
               PROVE  /\ Len(mem') = Len(call.groups)
                      /\ \A u \in Threads : pc'[u] = "act" => watch'[u] = Fresh
                      /\ \A u \in Threads : pc'[u] \in {"collect", "archive"} => watch'[u] = <<SeenOf(idx[u])>>
                      /\ \A i \in Iterations : out[i] # <<>> =>
                           mem'[i] = <<SeenOf(i)>> \/ \E u \in Threads : idx[u] = i /\ pc'[u] \in {"collect", "archive"}
    BY <1>1 DEF Filled, Archiving, SeenOf, Seen, Iterations
  <2>1. ~Restores
    BY <1>4 DEF Archiving
  <2>2. mem' = mem /\ (pc'[t] = "act" => watch'[t] = Fresh)
    BY <1>1, <2>1 DEF IInv, Typed, Clone
  <2>3. \A u \in Threads : pc[u] \in {"collect", "archive"} => u # t
    BY <1>1
  <2>4. \A u \in Threads : pc'[u] = "act" => watch'[u] = Fresh
    BY <1>2, <2>2 DEF MInv, Filled
  <2>5. \A u \in Threads : pc'[u] \in {"collect", "archive"} => watch'[u] = <<SeenOf(idx[u])>>
    BY <1>2, <1>3 DEF MInv, Filled
  <2> QED
    BY <1>2, <2>2, <2>3, <2>4, <2>5 DEF MInv, Filled
<1>8. Restoring'
  <2> SUFFICES ASSUME Following
               PROVE  /\ Len(mem') = Len(call.groups)
                      /\ \A i \in Iterations : i >= nextIdx => mem'[i] = Packs(i)
                      /\ \A u \in Threads : pc'[u] = "clone" => mem'[idx[u]] = Packs(idx[u])
                      /\ \A u \in Threads : pc'[u] = "act" => watch'[u] = Packs(idx[u])
    BY <1>1 DEF Restoring, Following, Packs, Iterations
  <2>1. Restores /\ Slot(t) = idx[t] /\ mem \in Seq(Watched \cup {Null}) /\ Len(mem) \in Nat
    BY <1>4, LenProperties DEF Following, Slot, IInv, Typed
  <2>2. CASE mem' = mem /\ pc'[t] = "crashed"
    BY <1>2, <2>2 DEF MInv, Restoring
  <2>3. CASE mem' = [mem EXCEPT ![idx[t]] = Null] /\ watch' = [watch EXCEPT ![t] = mem[idx[t]]]
    <3>1. Len(mem) = Len(call.groups) /\ idx[t] \in 1..Len(mem)
      BY <1>1, <1>5, InLoop DEF MInv, Restoring
    <3>2. Len(mem') = Len(mem) /\ \A i \in 1..Len(mem) : i # idx[t] => mem'[i] = mem[i]
      BY <2>1, <2>3, <3>1, ExceptSeq
    <3>3. Iterations = 1..Len(mem)
      BY <1>1, <3>1, InLoop
    <3>4. \A i \in Iterations : i >= nextIdx => mem'[i] = Packs(i)
      BY <1>5, <3>2, <3>3 DEF MInv, Restoring
    <3>5. \A u \in Threads : pc'[u] = "clone" => mem'[idx[u]] = Packs(idx[u])
      BY <1>2, <1>3, <1>5, <3>2, <3>3 DEF MInv, Restoring
    <3>6. watch'[t] = Packs(idx[t])
      BY <1>1, <2>3 DEF IInv, Typed, MInv, Restoring
    <3> QED
      BY <1>2, <3>1, <3>2, <3>4, <3>5, <3>6 DEF MInv, Restoring
  <2> QED
    BY <2>1, <2>2, <2>3 DEF Clone, IInv, Typed
<1>9. Reports'
  <2>1. \A u \in Threads : pc'[u] = "collect" /\ watch'[u] # Null => LastOf(watch'[u]) = SeenOf(idx[u])
    BY <1>2, <1>3 DEF MInv, Reports
  <2> QED
    BY <1>1, <2>1 DEF MInv, Reports, SeenOf, Seen, Iterations, LastOf
<1>10. Collected'
  BY <1>3 DEF Collected
<1> QED
  BY <1>6, <1>7, <1>8, <1>9, <1>10 DEF MInv

LEMMA ActKeeps == ASSUME IInv, MInv, NEW t \in Threads, Act(t) PROVE MInv'
<1> DEFINE s == SeenOf(idx[t])
<1>1. /\ pc[t] = "act"
      /\ UNCHANGED <<setup, call, number, mem, idx, nextIdx, tmp, results, status, error, made, packed>>
  BY DEF Act
<1>2. \A u \in Threads \ {t} : pc'[u] = pc[u] /\ watch'[u] = watch[u]
  BY DEF IInv, Typed, Act
<1>3. pc'[t] = "collect" /\ watch'[t] = IF watch[t] = Null THEN Null ELSE Append(watch[t], s)
  BY DEF IInv, Typed, Act, SeenOf
<1>4. \A i \in Iterations : i # idx[t] => out'[i] = out[i]
  BY DEF IInv, Typed, Act
<1>5. idx[t] \in Iterations /\ made = setup
  BY <1>1, InLoop DEF Busy
<1> HIDE DEF s
<1>6. PackedTrue'
  BY <1>1 DEF MInv, PackedTrue
<1>7. Filled'
  <2> SUFFICES ASSUME Archiving
               PROVE  /\ Len(mem) = Len(call.groups)
                      /\ \A u \in Threads : pc'[u] = "act" => watch'[u] = Fresh
                      /\ \A u \in Threads : pc'[u] \in {"collect", "archive"} => watch'[u] = <<SeenOf(idx[u])>>
                      /\ \A i \in Iterations : out'[i] # <<>> =>
                           mem[i] = <<SeenOf(i)>> \/ \E u \in Threads : idx[u] = i /\ pc'[u] \in {"collect", "archive"}
    BY <1>1 DEF Filled, Archiving, SeenOf, Seen, Iterations
  <2>1. watch[t] = <<>>
    BY <1>1 DEF MInv, Filled, Fresh
  <2>2. watch[t] # Null
    BY <2>1, EmptySeq DEF Watched
  <2>3. watch'[t] = <<SeenOf(idx[t])>>
    BY <1>3, <2>1, <2>2 DEF s
  <2>4. \A u \in Threads : pc'[u] = "act" => watch'[u] = Fresh
    BY <1>2, <1>3 DEF MInv, Filled
  <2>5. \A u \in Threads : pc'[u] \in {"collect", "archive"} => watch'[u] = <<SeenOf(idx[u])>>
    BY <1>2, <2>3 DEF MInv, Filled
  <2>6. ASSUME NEW i \in Iterations, out'[i] # <<>>
        PROVE  mem[i] = <<SeenOf(i)>> \/ \E u \in Threads : idx[u] = i /\ pc'[u] \in {"collect", "archive"}
    <3>1. CASE i = idx[t]
      BY <1>3, <3>1
    <3>2. CASE i # idx[t] /\ mem[i] # <<SeenOf(i)>>
      <4>1. PICK u \in Threads : idx[u] = i /\ pc[u] \in {"collect", "archive"}
        BY <1>4, <2>6, <3>2 DEF MInv, Filled
      <4> QED
        BY <1>2, <3>2, <4>1
    <3> QED
      BY <3>1, <3>2
  <2> QED
    BY <2>4, <2>5, <2>6 DEF MInv, Filled
<1>8. Restoring'
  <2> SUFFICES ASSUME Following
               PROVE  /\ Len(mem) = Len(call.groups)
                      /\ \A i \in Iterations : i >= nextIdx => mem[i] = Packs(i)
                      /\ \A u \in Threads : pc'[u] = "clone" => mem[idx[u]] = Packs(idx[u])
                      /\ \A u \in Threads : pc'[u] = "act" => watch'[u] = Packs(idx[u])
    BY <1>1 DEF Restoring, Following, Packs, Iterations
  <2> QED
    BY <1>2, <1>3 DEF MInv, Restoring
<1>9. Reports'
  <2>1. ASSUME NEW u \in Threads, pc'[u] = "collect", watch'[u] # Null PROVE LastOf(watch'[u]) = SeenOf(idx[u])
    <3>1. CASE u = t
      <4>1. watch[t] # Null /\ watch[t] \in Watched /\ watch'[t] = Append(watch[t], s)
        BY <1>3, <2>1, <3>1 DEF IInv, Typed
      <4>2. LastOf(Append(watch[t], s)) = s
        BY <4>1 DEF LastOf, Watched
      <4> QED
        BY <3>1, <4>1, <4>2 DEF s
    <3>2. CASE u # t
      BY <1>2, <2>1, <3>2 DEF MInv, Reports
    <3> QED
      BY <3>1, <3>2
  <2> QED
    BY <1>1, <2>1 DEF MInv, Reports, SeenOf, Seen, Iterations, LastOf
<1>10. Collected'
  BY <1>3 DEF Collected
<1> QED
  BY <1>6, <1>7, <1>8, <1>9, <1>10 DEF MInv

LEMMA CollectKeeps == ASSUME IInv, MInv, NEW t \in Threads, Collect(t) PROVE MInv'
<1>1. /\ pc[t] = "collect"
      /\ tmp' = IF setup.collect /\ watch[t] # Null THEN [tmp EXCEPT ![Child(idx[t])] = watch[t]] ELSE tmp
      /\ UNCHANGED <<setup, call, number, mem, idx, watch, nextIdx, out, results, status, error, made, packed>>
  BY DEF Collect
<1>2. pc'[t] = "archive" /\ \A u \in Threads \ {t} : pc'[u] = pc[u]
  BY DEF IInv, Typed, Collect
<1>3. PackedTrue'
  BY <1>1 DEF MInv, PackedTrue
<1>4. Filled'
  <2>1. \A u \in Threads : /\ pc'[u] \in {"collect", "archive"} <=> pc[u] \in {"collect", "archive"}
                           /\ pc'[u] = "act" => pc[u] = "act"
    BY <1>1, <1>2
  <2> QED
    BY <1>1, <2>1 DEF MInv, Filled, Archiving, SeenOf, Seen, Iterations
<1>5. Restoring'
  BY <1>1, <1>2, RestoringStays DEF MInv
<1>6. Reports'
  <2>1. \A u \in Threads : pc'[u] = "collect" => pc[u] = "collect"
    BY <1>1, <1>2
  <2>2. ASSUME made.children = Len(call.groups), NEW k \in Iterations, tmp'[k] # Fresh
        PROVE  LastOf(tmp'[k]) = SeenOf(k)
    <3>1. Child(idx[t]) = idx[t]
      BY <1>1, <2>2, InLoop DEF Child, Busy
    <3>2. CASE tmp'[k] = tmp[k]
      BY <2>2, <3>2 DEF MInv, Reports
    <3>3. CASE tmp'[k] # tmp[k]
      <4>1. watch[t] # Null /\ k = idx[t] /\ tmp'[k] = watch[t]
        BY <1>1, <3>1, <3>3 DEF IInv, Typed
      <4> QED
        BY <1>1, <4>1 DEF MInv, Reports
    <3> QED
      BY <3>2, <3>3
  <2>3. \A u \in Threads : pc'[u] = "collect" /\ watch[u] # Null => LastOf(watch[u]) = SeenOf(idx[u])
    BY <2>1 DEF MInv, Reports
  <2> QED
    BY <1>1, <2>2, <2>3 DEF Reports, SeenOf, Seen, Iterations, LastOf
<1>7. Collected'
  BY <1>2 DEF Collected
<1> QED
  BY <1>3, <1>4, <1>5, <1>6, <1>7 DEF MInv

LEMMA ArchiveKeeps == ASSUME IInv, MInv, NEW t \in Threads, Archive(t) PROVE MInv'
<1>1. /\ pc[t] = "archive"
      /\ mem' = IF Archives THEN [mem EXCEPT ![idx[t]] = watch[t]] ELSE mem
      /\ UNCHANGED <<setup, call, number, idx, watch, nextIdx, out, tmp, results, status, error, made, packed>>
  BY DEF Archive
<1>2. pc'[t] = "note" /\ \A u \in Threads \ {t} : pc'[u] = pc[u]
  BY DEF IInv, Typed, Archive
<1>3. \A u \in Threads : pc'[u] \in {"clone", "act", "collect", "archive"} => pc'[u] = pc[u] /\ u # t
  BY <1>2
<1>4. Archives <=> made.preserve /\ call.op = "compress"
  BY <1>1, InLoop DEF Archives
<1>5. PackedTrue'
  BY <1>1 DEF MInv, PackedTrue
<1>6. Filled'
  <2> SUFFICES ASSUME Archiving
               PROVE  /\ Len(mem') = Len(call.groups)
                      /\ \A u \in Threads : pc'[u] = "act" => watch[u] = Fresh
                      /\ \A u \in Threads : pc'[u] \in {"collect", "archive"} => watch[u] = <<SeenOf(idx[u])>>
                      /\ \A i \in Iterations : out[i] # <<>> =>
                           mem'[i] = <<SeenOf(i)>> \/ \E u \in Threads : idx[u] = i /\ pc'[u] \in {"collect", "archive"}
    BY <1>1 DEF Filled, Archiving, SeenOf, Seen, Iterations
  <2>1. mem' = [mem EXCEPT ![idx[t]] = watch[t]] /\ watch[t] = <<SeenOf(idx[t])>>
    BY <1>1, <1>4 DEF Archiving, MInv, Filled
  <2>2. /\ mem \in Seq(Watched \cup {Null}) /\ watch[t] \in Watched \cup {Null}
        /\ Len(mem) = Len(call.groups) /\ Iterations = 1..Len(mem) /\ idx[t] \in 1..Len(mem)
    BY <1>1, InLoop DEF IInv, Typed, MInv, Filled, Busy
  <2>3. Len(mem') = Len(mem) /\ \A i \in 1..Len(mem) : mem'[i] = IF i = idx[t] THEN watch[t] ELSE mem[i]
    BY <2>1, <2>2, ExceptSeq
  <2>4. ASSUME NEW i \in Iterations, out[i] # <<>>
        PROVE  mem'[i] = <<SeenOf(i)>> \/ \E u \in Threads : idx[u] = i /\ pc'[u] \in {"collect", "archive"}
    <3>1. CASE i = idx[t]
      BY <2>1, <2>2, <2>3, <3>1
    <3>2. CASE i # idx[t]
      <4>1. mem'[i] = mem[i]
        BY <2>2, <2>3, <3>2
      <4>2. mem[i] = <<SeenOf(i)>> \/ \E u \in Threads : idx[u] = i /\ pc[u] \in {"collect", "archive"}
        BY <2>4 DEF MInv, Filled
      <4> QED
        BY <1>2, <3>2, <4>1, <4>2
    <3> QED
      BY <3>1, <3>2
  <2> QED
    BY <1>3, <2>2, <2>3, <2>4 DEF MInv, Filled
<1>7. Restoring'
  <2>1. CASE ~Following
    <3>1. ~Following'
      BY <1>1, <2>1 DEF Following
    <3> QED
      BY <3>1 DEF Restoring
  <2>2. CASE Following
    <3>1. mem' = mem /\ status # 2
      BY <1>1, <1>4, <2>2 DEF Following
    <3> QED
      BY <1>1, <1>3, <3>1, RestoringStays DEF MInv
  <2> QED
    BY <2>1, <2>2
<1>8. Reports'
  BY <1>1, <1>3 DEF MInv, Reports, SeenOf, Seen, Iterations, LastOf
<1>9. Collected'
  BY <1>2 DEF Collected
<1> QED
  BY <1>5, <1>6, <1>7, <1>8, <1>9 DEF MInv

LEMMA NoteKeeps == ASSUME IInv, MInv, NEW t \in Threads, Note(t) PROVE MInv'
<1>1. /\ pc[t] = "note" /\ status' = IF Fails(t) THEN 1 ELSE status
      /\ UNCHANGED <<setup, call, number, mem, idx, watch, nextIdx, out, tmp, results, made, packed>>
  BY DEF Note, Noted
<1>2. pc'[t] \in {"loop", "barrier"} /\ \A u \in Threads \ {t} : pc'[u] = pc[u]
  BY DEF IInv, Typed, Note, AfterIteration
<1>3. \A u \in Threads : /\ pc'[u] \in {"clone", "act", "collect", "archive"} => pc'[u] = pc[u]
                         /\ pc[u] \in {"collect", "archive"} => pc'[u] = pc[u]
  BY <1>1, <1>2
<1>4. status # 2 /\ status' # 2
  BY <1>1, InLoop
<1>5. PackedTrue'
  BY <1>1, <1>4 DEF MInv, PackedTrue
<1>6. Filled'
  <2> SUFFICES ASSUME Archiving
               PROVE  /\ Len(mem) = Len(call.groups)
                      /\ \A u \in Threads : pc'[u] = "act" => watch[u] = Fresh
                      /\ \A u \in Threads : pc'[u] \in {"collect", "archive"} => watch[u] = <<SeenOf(idx[u])>>
                      /\ \A i \in Iterations : out[i] # <<>> =>
                           mem[i] = <<SeenOf(i)>> \/ \E u \in Threads : idx[u] = i /\ pc'[u] \in {"collect", "archive"}
    BY <1>1, <1>4 DEF Filled, Archiving, SeenOf, Seen, Iterations
  <2> QED
    BY <1>3 DEF MInv, Filled
<1>7. Restoring'
  BY <1>1, <1>3, <1>4, RestoringStays DEF MInv
<1>8. Reports'
  BY <1>1, <1>3 DEF MInv, Reports, SeenOf, Seen, Iterations, LastOf
<1>9. Collected'
  BY <1>2 DEF Collected
<1> QED
  BY <1>5, <1>6, <1>7, <1>8, <1>9 DEF MInv

LEMMA ReturnKeeps == ASSUME IInv, MInv, Return PROVE MInv'
<1>1. /\ \A t \in Threads : pc[t] = "barrier" /\ pc'[t] = "idle"
      /\ results' = IF setup.collect THEN [k \in Children |-> IF tmp[k] = Fresh THEN results[k] ELSE tmp[k]]
                    ELSE results
      /\ UNCHANGED <<setup, call, number, mem, nextIdx, out, tmp, status, error, made, packed>>
  BY DEF Return, Joined
<1>2. made = setup
  BY <1>1 DEF IInv, Together
<1>3. PackedTrue'
  BY <1>1 DEF MInv, PackedTrue
<1>4. Filled'
  BY <1>1 DEF MInv, Filled, Archiving, SeenOf, Seen, Iterations
<1>5. Restoring'
  BY <1>1 DEF MInv, Restoring, Following, Packs, Iterations
<1>6. Reports'
  BY <1>1 DEF MInv, Reports, SeenOf, Seen, Iterations, LastOf
<1>7. Collected'
  BY <1>1, <1>2 DEF Collected
<1> QED
  BY <1>3, <1>4, <1>5, <1>6, <1>7 DEF MInv

LEMMA MInvStep == IInv /\ MInv /\ [Next]_vars => MInv'
<1> SUFFICES ASSUME IInv, MInv, [Next]_vars PROVE MInv'
  OBVIOUS
<1>1. ASSUME NEW t \in Threads, ThreadStep(t) PROVE MInv'
  BY <1>1, TakeKeeps, CloneKeeps, ActKeeps, CollectKeeps, ArchiveKeeps, NoteKeeps DEF ThreadStep
<1> QED
  BY <1>1, BeginKeeps, SetOptionsKeeps, ReturnKeeps, StutterKeeps DEF Next, Finished

\* Every behaviour of a program with the plugin keeps the metrics' invariant
\* (preserve_metrics_mem and tmp_metrics_results).
THEOREM MetricsInvariant == Spec => []MInv
BY Invariant, MInvInit, MInvStep, PTL DEF Spec

-----------------------------------------------------------------------------
(***************************************************************************)
(* What the invariant gives.                                               *)
(***************************************************************************)
LEMMA ImpliesRestoredOwn == IInv /\ MInv => RestoredOwn
<1> SUFFICES ASSUME IInv, MInv, NEW t \in Threads, pc[t] = "act", Restores,
                    packed = [number |-> number - 1, groups |-> call.groups]
             PROVE  watch[t] = <<[number |-> number - 1, op |-> "compress", group |-> call.groups[idx[t]]]>>
  BY DEF RestoredOwn
<1>1. idx[t] \in 1..Len(call.groups) /\ made = setup /\ status # 2 /\ number \in Nat \ {0}
  BY InLoop DEF Busy
<1>2. packed.number # 0
  <2>1. call.groups # <<>>
    BY <1>1, EmptySeq
  <2> QED
    BY <2>1 DEF MInv, PackedTrue
<1>3. Following
  BY <1>1, <1>2 DEF Following, Restores
<1> QED
  BY <1>3 DEF MInv, Restoring, Packs

LEMMA ImpliesArchived == IInv /\ MInv => Archived
<1> SUFFICES ASSUME IInv, MInv, Worked, made.preserve, call.op = "compress", \A i \in DOMAIN out : out[i] # <<>>
             PROVE  Len(mem) = Len(call.groups) /\ \A i \in DOMAIN mem : mem[i] = <<Seen(call, call.groups[i])>>
  BY DEF Archived
<1>1. Archiving /\ DOMAIN out = Iterations
  BY DEF Archiving, Worked, Returned, IInv, Typed
<1>2. Len(mem) = Len(call.groups) /\ \A i \in Iterations : mem[i] = <<SeenOf(i)>>
  BY <1>1, AllKept
<1>3. DOMAIN mem = 1..Len(mem)
  BY LenProperties DEF IInv, Typed
<1> QED
  BY <1>2, <1>3 DEF SeenOf, Iterations

LEMMA ImpliesCollectedOwn == IInv /\ MInv => CollectedOwn
<1> SUFFICES ASSUME IInv, MInv, Worked, made.collect, made.children = Len(call.groups),
                    NEW k \in 1..made.children, tmp[k] # Fresh
             PROVE  results[k] = tmp[k] /\ tmp[k][Len(tmp[k])] = Seen(call, call.groups[k])
  BY DEF CollectedOwn
<1>1. k \in Iterations /\ k \in Children
  BY DEF Iterations, Children, IInv, Typed
<1>2. (\A t \in Threads : pc[t] = "idle") /\ status # 2 /\ number > 0
  BY WhenWorked DEF Worked, Returned
<1> QED
  BY <1>1, <1>2 DEF MInv, Reports, Collected, LastOf, SeenOf

\* Metrics that watched the compression of a group watch its decompression and that of no
\* other group, and what is collected under a child's name was reported for its own group,
\* whichever threads took which iterations (preserve_metrics, collect_metrics_on_*).
THEOREM OwnMetrics == Spec => []MetricsOwn
<1>1. IInv /\ MInv => MetricsOwn
  BY ImpliesRestoredOwn, ImpliesArchived, ImpliesCollectedOwn DEF MetricsOwn, MetricsKept
<1> QED
  BY <1>1, Invariant, MetricsInvariant, PTL
=============================================================================

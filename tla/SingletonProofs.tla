-------------------------- MODULE SingletonProofs --------------------------
(***************************************************************************)
(* Proofs about Singleton, for any sets of threads and handles and any      *)
(* library: one handle for all, and readers apart from writers.             *)
(***************************************************************************)
EXTENDS Singleton, FiniteSetTheorems, TLAPS

PCs == {"idle", "wait", "locked", "init", "unlock", "ready", "reading", "writing", "cleaning"}

\* The part of TypeOK the argument needs: how often the library is initialised and
\* what is being destroyed play no part in it.
Typed ==
  /\ pc \in [Threads -> PCs]
  /\ has \in [Threads -> Handles \cup {None}]
  /\ weak \in Handles \cup {None}
  /\ making \in Handles \cup {None}

\* A thread between Lock and Unlock is the one the mutex names.
InSection(t) == pc[t] \in {"locked", "init", "unlock"}
Section == \A t \in Threads : InSection(t) => mutex = t

\* A handle that is held is the one the weak pointer points to.
HeldIsWeak == \A t \in Threads : has[t] # None => has[t] = weak

\* A handle is made only while no handle is held.
NoneWhileInit == \A t, u \in Threads : pc[t] = "init" => has[u] = None

\* Whoever calls the library holds a handle.
UserHolds == \A t \in Threads : pc[t] \in {"unlock", "ready", "reading", "writing"} => has[t] # None

\* A thread in the constructor is making a handle.
MakesOne == \A t \in Threads : pc[t] = "init" => making # None

IInv == Typed /\ Section /\ HeldIsWeak /\ NoneWhileInit /\ UserHolds /\ MakesOne /\ ReadersWriter

USE NoneAssumption

LEMMA IInvInit == Init => IInv
BY DEF Init, IInv, Typed, PCs, Section, InSection, HeldIsWeak, NoneWhileInit, UserHolds,
       MakesOne, ReadersWriter

\* Two threads that call hold the same handle, so the guard of Read and Write is about
\* every thread.
LEMMA SameHandle ==
  ASSUME HeldIsWeak, NEW t \in Threads, NEW u \in Threads, has[t] # None, has[u] # None
  PROVE  has[u] = has[t]
BY DEF HeldIsWeak

\* weak.lock() fails: nobody holds a handle.
LEMMA ExpiredAlone ==
  ASSUME HeldIsWeak, ~(weak # None /\ Observed)
  PROVE  \A t \in Threads : has[t] = None
BY DEF HeldIsWeak, Observed, Holders

(***************************************************************************)
(* The steps that take part in the argument.                                *)
(***************************************************************************)
LEMMA AskStep == ASSUME IInv, NEW t \in Threads, Ask(t) PROVE IInv'
BY DEF IInv, Ask, Typed, PCs, Section, InSection, HeldIsWeak, NoneWhileInit, UserHolds,
       MakesOne, ReadersWriter

LEMMA EnterStep == ASSUME IInv, NEW t \in Threads, Enter(t) PROVE IInv'
BY DEF IInv, Enter, Lock, Typed, PCs, Section, InSection, HeldIsWeak, NoneWhileInit, UserHolds,
       MakesOne, ReadersWriter

LEMMA ShareStep == ASSUME IInv, NEW t \in Threads, Share(t) PROVE IInv'
<1>1. \A u \in Threads : pc[u] # "init"
  BY DEF IInv, Typed, Share, Section, InSection
<1> QED
  BY <1>1 DEF IInv, Share, Typed, PCs, Section, InSection, HeldIsWeak, NoneWhileInit,
              UserHolds, MakesOne, ReadersWriter

LEMMA MakeStep == ASSUME IInv, NEW t \in Threads, Make(t) PROVE IInv'
<1>1. \A u \in Threads : has[u] = None
  BY ExpiredAlone DEF IInv, Make
<1>2. making' \in Handles
  BY DEF Make, FreeHandles
<1> QED
  BY <1>1, <1>2 DEF IInv, Make, Typed, PCs, Section, InSection, HeldIsWeak, NoneWhileInit,
                    UserHolds, MakesOne, ReadersWriter

LEMMA PublishStep == ASSUME IInv, NEW t \in Threads, Publish(t) PROVE IInv'
<1>1. \A u \in Threads : has[u] = None
  BY DEF IInv, Publish, NoneWhileInit
<1>2. \A u \in Threads : u # t => pc[u] # "init"
  BY DEF IInv, Publish, Section, InSection
<1>3. making \in Handles
  BY DEF IInv, Typed, MakesOne, Publish
<1> QED
  BY <1>1, <1>2, <1>3 DEF IInv, Publish, Typed, PCs, Section, InSection, HeldIsWeak,
                          NoneWhileInit, UserHolds, MakesOne, ReadersWriter

LEMMA ThrowStep == ASSUME IInv, NEW t \in Threads, Throw(t) PROVE IInv'
<1>1. \A u \in Threads : u # t => ~InSection(u)
  BY DEF IInv, Throw, Section, InSection
<1> QED
  BY <1>1 DEF IInv, Throw, Unwind, Typed, PCs, Section, InSection, HeldIsWeak,
              NoneWhileInit, UserHolds, MakesOne, ReadersWriter

LEMMA UnlockStep == ASSUME IInv, NEW t \in Threads, Unlock(t) PROVE IInv'
<1>1. \A u \in Threads : u # t => ~InSection(u)
  BY DEF IInv, Unlock, Section, InSection
<1> QED
  BY <1>1 DEF IInv, Unlock, Typed, PCs, Section, InSection, HeldIsWeak, NoneWhileInit,
              UserHolds, MakesOne, ReadersWriter

LEMMA CloneStep == ASSUME IInv, NEW t \in Threads, NEW u \in Threads, Clone(t, u) PROVE IInv'
<1>1. has[t] # None /\ \A v \in Threads : pc[v] # "init"
  BY DEF IInv, Clone, UserHolds, NoneWhileInit
<1> QED
  BY <1>1 DEF IInv, Clone, Typed, PCs, Section, InSection, HeldIsWeak, NoneWhileInit,
              UserHolds, MakesOne, ReadersWriter

LEMMA ReadStep == ASSUME IInv, NEW t \in Threads, Read(t) PROVE IInv'
<1>1. \A u \in Threads : pc[u] # "writing"
  BY SameHandle DEF IInv, Read, UserHolds
<1> QED
  BY <1>1 DEF IInv, Read, Typed, PCs, Section, InSection, HeldIsWeak, NoneWhileInit,
              UserHolds, MakesOne, ReadersWriter

LEMMA WriteStep == ASSUME IInv, NEW t \in Threads, Write(t) PROVE IInv'
<1>1. \A u \in Threads : pc[u] \notin {"reading", "writing"}
  BY SameHandle DEF IInv, Write, Exclusive, UserHolds
<1> QED
  BY <1>1 DEF IInv, Write, Typed, PCs, Section, InSection, HeldIsWeak, NoneWhileInit,
              UserHolds, MakesOne, ReadersWriter

LEMMA ReturnStep == ASSUME IInv, NEW t \in Threads, Return(t) PROVE IInv'
BY DEF IInv, Return, Typed, PCs, Section, InSection, HeldIsWeak, NoneWhileInit, UserHolds,
       MakesOne, ReadersWriter

LEMMA DropStep == ASSUME IInv, NEW t \in Threads, Drop(t) PROVE IInv'
<1>1. pc' = [pc EXCEPT ![t] = "cleaning"] \/ pc' = [pc EXCEPT ![t] = "idle"]
  BY DEF Drop
<1>2. has' = [has EXCEPT ![t] = None] /\ UNCHANGED <<mutex, weak, making>> /\ pc[t] = "ready"
  BY DEF Drop
<1> QED
  BY <1>1, <1>2 DEF IInv, Typed, PCs, Section, InSection, HeldIsWeak, NoneWhileInit,
                    UserHolds, MakesOne, ReadersWriter

LEMMA CleanupStep == ASSUME IInv, NEW t \in Threads, Cleanup(t) PROVE IInv'
BY DEF IInv, Cleanup, Typed, PCs, Section, InSection, HeldIsWeak, NoneWhileInit, UserHolds,
       MakesOne, ReadersWriter

LEMMA IInvNext == IInv /\ [Next]_vars => IInv'
<1> SUFFICES ASSUME IInv, [Next]_vars PROVE IInv'
  OBVIOUS
<1>1. CASE UNCHANGED vars
  BY <1>1 DEF vars, IInv, Typed, Section, InSection, HeldIsWeak, NoneWhileInit, UserHolds,
              MakesOne, ReadersWriter
<1>2. CASE Next
  <2> PICK t \in Threads : Step(t)
    BY <1>2 DEF Next
  <2>1. CASE Ask(t)     BY <2>1, AskStep
  <2>2. CASE Enter(t)   BY <2>2, EnterStep
  <2>3. CASE Share(t)   BY <2>3, ShareStep
  <2>4. CASE Make(t)    BY <2>4, MakeStep
  <2>5. CASE Publish(t) BY <2>5, PublishStep
  <2>6. CASE Throw(t)   BY <2>6, ThrowStep
  <2>7. CASE Unlock(t)  BY <2>7, UnlockStep
  <2>8. CASE \E u \in Threads : Clone(t, u)
    BY <2>8, CloneStep
  <2>9. CASE Read(t)    BY <2>9, ReadStep
  <2>10. CASE Write(t)  BY <2>10, WriteStep
  <2>11. CASE Return(t) BY <2>11, ReturnStep
  <2>12. CASE Drop(t)   BY <2>12, DropStep
  <2>13. CASE Cleanup(t) BY <2>13, CleanupStep
  <2> QED
    BY <2>1, <2>2, <2>3, <2>4, <2>5, <2>6, <2>7, <2>8, <2>9, <2>10, <2>11, <2>12, <2>13
    DEF Step, Continue
<1> QED
  BY <1>1, <1>2

\* The invariant of the singleton: the mutex guards the window in which a handle is
\* made, a handle that is held is the published one, and none is held while one is made.
THEOREM SingletonInductive == Spec => []IInv
<1>1. Init => IInv
  BY IInvInit
<1>2. IInv /\ [Next]_vars => IInv'
  BY IInvNext
<1> QED
  BY <1>1, <1>2, PTL DEF Spec

\* All plugins, of however many threads, share one handle, also while the next one is
\* made: the weak pointer and the mutex of get_library() suffice.
THEOREM HandleUnique == Spec => []OneHandle
<1>1. IInv => OneHandle
  BY DEF IInv, OneHandle, Typed, HeldIsWeak, NoneWhileInit
<1> QED
  BY <1>1, SingletonInductive, PTL

\* Two plugins of two threads never read and write the library's options at once,
\* because the lock they take lies in the one handle they share.
THEOREM OptionsGuarded == Spec => []ReadersWriter
<1>1. IInv => ReadersWriter
  BY DEF IInv
<1> QED
  BY <1>1, SingletonInductive, PTL

-----------------------------------------------------------------------------
(***************************************************************************)
(* The library is initialised while it is used and is given back as it was  *)
(* found.  Each handle that is held or being destroyed stands for one       *)
(* initialisation that is still to be undone, but for petsc's handles that  *)
(* found the library initialised.                                           *)
(***************************************************************************)
Live   == ({has[t] : t \in Threads} \cup {dying[t] : t \in Threads}) \ {None}
Undone == IF use.library = "petsc" THEN Live \ did ELSE Live

\* A handle that is destroyed belongs to one thread, and is no longer held.
DyingAlone ==
  /\ \A t \in Threads : dying[t] # None <=> pc[t] = "cleaning"
  /\ \A t, u \in Threads : dying[t] # None /\ dying[t] = dying[u] => t = u
  /\ \A t, u \in Threads : dying[t] # None => has[u] # dying[t]

\* A thread without a plugin holds no handle.
Empty == \A t \in Threads : pc[t] \in {"idle", "wait", "locked", "init", "cleaning"} => has[t] = None

\* The handle being made is none of those in use.
Fresh == \A t \in Threads : pc[t] = "init" => making \notin Live

\* One call at a time, if the program keeps to "serialized": nobody has a handle while one
\* is cleaned up, nor one that was made then.
OneCall == use.safety = "serialized" =>
  /\ \A t, u \in Threads : t = u \/ pc[t] \in {"idle", "ready"} \/ pc[u] \in {"idle", "ready"}
  /\ \A t, u \in Threads : pc[t] = "cleaning" => has[u] = None
  /\ OnTime

\* A handle that was made while no former one was being cleaned up: nobody cleans up as long as
\* it is held, for the next to do so is who drops it last.
Untouched == \A t \in Threads : has[t] # None /\ has[t] \notin late /\ use.library # "curl" =>
  up > 0 /\ \A u \in Threads : pc[u] # "cleaning"

\* How often the library is initialised: once for each live handle, if it counts; if
\* it does not, it is as it was found as long as there is nothing to undo.
Book ==
  /\ use.library = "curl" => IsFiniteSet(Live) /\ up = use.before + Cardinality(Live)
  /\ use.library # "curl" =>
       /\ up \in 0..1
       /\ use.before = 0 /\ up > 0 => Undone # {}
       /\ use.before = 1 => up = 1 /\ Undone = {}

KInv == IInv /\ TypeOK /\ DyingAlone /\ Empty /\ Fresh /\ OneCall /\ Untouched /\ Book

\* SZ, arc and ImageMagick neither count nor ask: a program that uses them leaves their
\* initialisation to the plugins.
LeftToPlugins == \A u \in Uses : u.library = "sz" => u.before = 0

LEMMA KInvInit == Init => KInv
<1> SUFFICES ASSUME Init PROVE KInv
  OBVIOUS
<1>1. Live = {} /\ Undone = {}
  BY DEF Init, Live, Undone
<1>2. use.before \in 0..1 /\ use \in Uses
  BY UseAssumption DEF Init
<1>3. TypeOK /\ DyingAlone /\ Empty /\ OneCall /\ Untouched
  BY <1>2 DEF Init, TypeOK, DyingAlone, Empty, OneCall, OnTime, Untouched
<1>4. Fresh
  BY DEF Init, Fresh
<1>5. Book
  BY <1>1, <1>2, FS_EmptySet DEF Init, Book
<1> QED
  BY <1>3, <1>4, <1>5, IInvInit DEF KInv

\* None is not a handle, so not one that was made late.
LEMMA NoneOnTime == ASSUME TypeOK PROVE None \notin late
BY DEF TypeOK

\* The book is about the live handles and the library alone.
LEMMA BookKept ==
  ASSUME Book, UNCHANGED <<use, did, up>>, Live' = Live
  PROVE  Book'
BY DEF Book, Undone

\* A step that only moves its thread along, between two places in which the thread
\* has the same part in the argument.
Along(t, p) ==
  /\ pc' = [pc EXCEPT ![t] = p]
  /\ \/ pc[t] = "idle" /\ p = "wait" /\ MayCall(t)
     \/ pc[t] = "wait" /\ p = "locked"
     \/ pc[t] = "unlock" /\ p = "ready"
     \/ pc[t] = "ready" /\ p \in {"reading", "writing"} /\ MayCall(t)
     \/ pc[t] \in {"reading", "writing"} /\ p = "ready"
     \/ pc[t] = "init" /\ p = "idle"
  /\ mutex' \in Threads \cup {None} /\ making' \in {making, None}
  /\ (\E u \in Threads : u # t /\ pc[u] = "init") => making' = making
  /\ UNCHANGED <<use, has, weak, dying, did, up, late>>

LEMMA AlongStep ==
  ASSUME KInv, IInv', NEW t \in Threads, NEW p, Along(t, p)
  PROVE  KInv'
<1>1. TypeOK'
  BY DEF Along, KInv, TypeOK
<1>2. Live' = Live
  BY DEF Along, Live
<1>3. \A u \in Threads : pc'[u] = IF u = t THEN p ELSE pc[u]
  BY DEF Along, KInv, TypeOK
<1>4. DyingAlone' /\ Empty'
  BY <1>3 DEF Along, KInv, DyingAlone, Empty
<1>5. Fresh'
  BY <1>2, <1>3 DEF Along, KInv, Fresh
<1>6. OneCall' /\ Untouched'
  BY <1>3 DEF Along, MayCall, KInv, OneCall, OnTime, Untouched
<1>7. Book'
  BY <1>2, BookKept DEF Along, KInv
<1> QED
  BY <1>1, <1>4, <1>5, <1>6, <1>7 DEF KInv

LEMMA KShareStep == ASSUME KInv, IInv', NEW t \in Threads, Share(t) PROVE KInv'
<1>1. PICK o \in Threads : has[o] = weak /\ weak # None
  BY DEF Share, Observed, Holders
<1>2. /\ pc[t] = "locked" /\ has[t] = None
      /\ \A u \in Threads : pc'[u] = IF u = t THEN "unlock" ELSE pc[u]
      /\ \A u \in Threads : has'[u] = IF u = t THEN weak ELSE has[u]
  BY DEF Share, KInv, TypeOK, Empty
<1>3. TypeOK'
  BY DEF Share, KInv, TypeOK
<1>4. Live' = Live
  BY <1>1, <1>2 DEF Share, Live
<1>5. DyingAlone' /\ Empty'
  BY <1>1, <1>2 DEF Share, KInv, DyingAlone, Empty
<1>6. Fresh'
  BY <1>2, <1>4 DEF Share, KInv, Fresh
<1>7. OneCall' /\ Untouched'
  BY <1>1, <1>2 DEF Share, KInv, OneCall, OnTime, Untouched
<1>8. Book'
  BY <1>4, BookKept DEF Share, KInv
<1> QED
  BY <1>3, <1>5, <1>6, <1>7, <1>8 DEF KInv

LEMMA KMakeStep == ASSUME KInv, IInv', NEW t \in Threads, Make(t) PROVE KInv'
<1>1. /\ pc[t] = "locked"
      /\ \A u \in Threads : pc'[u] = IF u = t THEN "init" ELSE pc[u]
  BY DEF Make, KInv, TypeOK
<1>2. TypeOK'
  BY DEF Make, FreeHandles, KInv, TypeOK
<1>3. Live' = Live
  BY DEF Make, Live
<1>4. making' \notin Live
  BY DEF Make, FreeHandles, Holders, Live
<1>5. DyingAlone' /\ Empty'
  BY <1>1 DEF Make, KInv, DyingAlone, Empty
<1>6. Fresh'
  BY <1>3, <1>4 DEF Fresh
<1>7. OneCall' /\ Untouched'
  BY <1>1 DEF Make, KInv, OneCall, OnTime, Untouched
<1>8. Book'
  BY <1>3, BookKept DEF Make, KInv
<1> QED
  BY <1>2, <1>5, <1>6, <1>7, <1>8 DEF KInv

LEMMA KCloneStep ==
  ASSUME KInv, IInv', NEW t \in Threads, NEW u \in Threads, Clone(t, u)
  PROVE  KInv'
<1>1. /\ pc[t] = "ready" /\ pc[u] = "idle" /\ has[t] # None /\ has[u] = None /\ MayCall(t)
      /\ \A v \in Threads : pc'[v] = IF v = u THEN "ready" ELSE pc[v]
      /\ \A v \in Threads : has'[v] = IF v = u THEN has[t] ELSE has[v]
  BY DEF Clone, KInv, IInv, UserHolds, TypeOK, Empty
<1>2. TypeOK'
  BY DEF Clone, KInv, TypeOK
<1>3. Live' = Live
  BY <1>1 DEF Clone, Live
<1>4. DyingAlone' /\ Empty'
  BY <1>1 DEF Clone, KInv, DyingAlone, Empty
<1>5. Fresh'
  BY <1>1, <1>3 DEF Clone, KInv, Fresh
<1>6. OneCall' /\ Untouched'
  BY <1>1 DEF Clone, MayCall, KInv, OneCall, OnTime, Untouched
<1>7. Book'
  BY <1>3, BookKept DEF Clone, KInv
<1> QED
  BY <1>2, <1>4, <1>5, <1>6, <1>7 DEF KInv

\* The handle of the last plugin lives on until it is cleaned up.
LEMMA KDropStep == ASSUME KInv, IInv', NEW t \in Threads, Drop(t) PROVE KInv'
<1> DEFINE h == has[t]
<1>1. /\ pc[t] = "ready" /\ h # None /\ dying[t] = None /\ MayCall(t)
      /\ \A u \in Threads : has'[u] = IF u = t THEN None ELSE has[u]
      /\ \A u \in Threads : has[u] \in {None, h}
  BY DEF Drop, KInv, IInv, UserHolds, HeldIsWeak, DyingAlone, TypeOK
<1>2. TypeOK'
  BY DEF Drop, KInv, TypeOK
<1>3. CASE Last(t)
  <2>1. /\ \A u \in Threads : pc'[u] = IF u = t THEN "cleaning" ELSE pc[u]
        /\ \A u \in Threads : dying'[u] = IF u = t THEN h ELSE dying[u]
    BY <1>3 DEF Drop, KInv, TypeOK
  <2>2. \A u \in Threads : has'[u] = None
    BY <1>1, <1>3 DEF Last, Holders
  <2>3. Live' = Live
    <3>1. h \in Live' /\ \A u \in Threads : has[u] \in {None, h}
      BY <1>1, <2>1 DEF Live
    <3>2. ASSUME NEW x \in Live PROVE x \in Live'
      BY <1>1, <2>1, <3>1, <3>2 DEF Live
    <3>3. ASSUME NEW x \in Live' PROVE x \in Live
      BY <2>1, <2>2, <3>3 DEF Live
    <3> QED
      BY <3>2, <3>3
  <2>4. DyingAlone' /\ Empty'
    BY <1>1, <2>1, <2>2 DEF KInv, DyingAlone, Empty
  <2>5. Fresh'
    BY <1>1, <2>1, <2>3 DEF Drop, KInv, Fresh
  <2>6. OneCall' /\ Untouched'
    BY <1>1, <2>1, <2>2, NoneOnTime DEF Drop, MayCall, KInv, OneCall, OnTime, Untouched
  <2>7. Book'
    BY <2>3, BookKept DEF Drop, KInv
  <2> QED
    BY <1>2, <2>4, <2>5, <2>6, <2>7 DEF KInv
<1>4. CASE ~Last(t)
  <2>1. /\ \A u \in Threads : pc'[u] = IF u = t THEN "idle" ELSE pc[u]
        /\ dying' = dying
    BY <1>4 DEF Drop, KInv, TypeOK
  <2>2. PICK o \in Threads : o # t /\ has[o] = h
    BY <1>4 DEF Last, Holders
  <2>3. Live' = Live
    BY <1>1, <2>1, <2>2 DEF Live
  <2>4. DyingAlone' /\ Empty'
    BY <1>1, <2>1 DEF KInv, DyingAlone, Empty
  <2>5. Fresh'
    BY <1>1, <2>1, <2>3 DEF Drop, KInv, Fresh
  <2>6. OneCall' /\ Untouched'
    BY <1>1, <2>1, NoneOnTime DEF Drop, KInv, OneCall, OnTime, Untouched
  <2>7. Book'
    BY <2>3, BookKept DEF Drop, KInv
  <2> QED
    BY <1>2, <2>4, <2>5, <2>6, <2>7 DEF KInv
<1> QED
  BY <1>3, <1>4

LEMMA KPublishStep ==
  ASSUME LeftToPlugins, KInv, IInv', NEW t \in Threads, Publish(t)
  PROVE  KInv'
<1> DEFINE h == making
<1>0. use \in Uses /\ use.library \in {"sz", "curl", "petsc", "python"} /\ use.before \in 0..1
  BY UseAssumption DEF KInv, TypeOK
<1>1. /\ pc[t] = "init" /\ h \in Handles /\ h # None /\ h \notin Live
      /\ \A u \in Threads : pc'[u] = IF u = t THEN "unlock" ELSE pc[u]
      /\ \A u \in Threads : has'[u] = IF u = t THEN h ELSE has[u]
      /\ \A u \in Threads : has[u] = None
      /\ \A u \in Threads : u # t => pc[u] # "init"
      /\ dying' = dying /\ use' = use
  BY DEF Publish, KInv, IInv, MakesOne, NoneWhileInit, Section, InSection, TypeOK, Fresh
<1>2. Live' = Live \cup {h}
  BY <1>1 DEF Live
<1>3. TypeOK'
  <2>1. did' \subseteq Handles /\ up' \in Nat
    BY <1>1 DEF Publish, LibInit, KInv, TypeOK
  <2> QED
    BY <1>1, <2>1 DEF Publish, KInv, TypeOK
<1>4. DyingAlone' /\ Empty'
  <2>1. \A u \in Threads : dying[u] # h
    BY <1>1 DEF Live
  <2> QED
    BY <1>1, <2>1 DEF KInv, DyingAlone, Empty
<1>5. Fresh'
  BY <1>1 DEF Fresh
<1>6. OneCall' /\ Untouched'
  <2>1. use.library # "curl" => up' = 1
    BY DEF Publish, LibInit
  <2>2. late' = IF \E u \in Threads : pc[u] = "cleaning" THEN late \cup {h} ELSE late \ {h}
    BY DEF Publish, KInv, DyingAlone
  <2>3. None \notin late'
    BY <1>1, <2>2, NoneOnTime DEF KInv
  <2>4. Untouched'
    BY <1>1, <2>1, <2>2 DEF Untouched
  <2>5. use.safety = "serialized" => \A u \in Threads : pc[u] # "cleaning"
    BY <1>1 DEF KInv, OneCall
  <2>6. OneCall'
    BY <1>1, <2>2, <2>3, <2>5 DEF KInv, OneCall, OnTime
  <2> QED
    BY <2>4, <2>6
<1> HIDE DEF h
<1>7. CASE use.library = "curl"
  <2>1. up' = up + 1
    BY <1>7 DEF Publish, LibInit
  <2>2. IsFiniteSet(Live) /\ up = use.before + Cardinality(Live) /\ Cardinality(Live) \in Nat
    BY <1>7, FS_CardinalityType DEF KInv, Book
  <2>3. IsFiniteSet(Live \cup {h}) /\ Cardinality(Live \cup {h}) = Cardinality(Live) + 1
    BY <1>1, <2>2, FS_AddElement
  <2>4. IsFiniteSet(Live') /\ up' = use.before + Cardinality(Live')
    BY <1>0, <1>2, <2>1, <2>2, <2>3
  <2>5. Book'
    BY <1>1, <1>7, <2>4 DEF Book
  <2> QED
    BY <1>3, <1>4, <1>5, <1>6, <2>5 DEF KInv
<1>8. CASE use.library = "petsc"
  <2>1. up' = 1 /\ did' = IF up > 0 THEN did \cup {h} ELSE did \ {h}
    BY <1>8 DEF Publish, LibInit, h
  <2>2. Undone = Live \ did /\ Undone' = Live' \ did'
    BY <1>1, <1>8 DEF Undone
  <2>3. use.before = 0 => Undone' # {}
    <3>1. CASE up > 0
      BY <1>1, <1>2, <1>8, <2>1, <2>2, <3>1 DEF KInv, Book
    <3>2. CASE ~(up > 0)
      BY <1>2, <2>1, <2>2, <3>2
    <3> QED
      BY <3>1, <3>2
  <2>4. use.before = 1 => Undone' = {}
    <3> SUFFICES ASSUME use.before = 1 PROVE Undone' = {}
      OBVIOUS
    <3>1. up > 0 /\ Undone = {}
      BY <1>8 DEF KInv, Book
    <3> QED
      BY <1>2, <2>1, <2>2, <3>1
  <2>5. Book'
    BY <1>1, <1>8, <2>1, <2>3, <2>4 DEF Book
  <2> QED
    BY <1>3, <1>4, <1>5, <1>6, <2>5 DEF KInv
<1>9. CASE use.library \notin {"curl", "petsc"}
  <2>1. up' = 1 /\ did' = did /\ Undone' = Live'
    BY <1>1, <1>9 DEF Publish, LibInit, Undone
  <2>2. use.before = 0
    <3>1. CASE use.library = "sz"
      BY <1>0, <3>1 DEF LeftToPlugins
    <3>2. CASE use.library = "python"
      <4>1. ~(up > 0)
        BY <3>2 DEF Publish, InitThrows
      <4> QED
        BY <1>0, <1>9, <4>1 DEF KInv, Book
    <3> QED
      BY <1>0, <1>9, <3>1, <3>2
  <2>3. Book'
    BY <1>1, <1>2, <1>9, <2>1, <2>2 DEF Book
  <2> QED
    BY <1>3, <1>4, <1>5, <1>6, <2>3 DEF KInv
<1> QED
  BY <1>7, <1>8, <1>9

LEMMA KCleanupStep == ASSUME KInv, IInv', NEW t \in Threads, Cleanup(t) PROVE KInv'
<1> DEFINE h == dying[t]
<1>0. use.before \in 0..1
  BY UseAssumption DEF KInv, TypeOK
<1>1. /\ pc[t] = "cleaning" /\ h \in Handles /\ h # None /\ h \in Live
      /\ \A u \in Threads : pc'[u] = IF u = t THEN "idle" ELSE pc[u]
      /\ \A u \in Threads : dying'[u] = IF u = t THEN None ELSE dying[u]
      /\ \A u \in Threads : has[u] # h /\ (dying[u] = h => u = t)
      /\ UNCHANGED <<use, has, mutex, weak, making, did>>
  BY DEF Cleanup, KInv, TypeOK, DyingAlone, Live
<1>2. Live' = Live \ {h}
  BY <1>1 DEF Live
<1>3. up' = CASE use.library = "curl" -> up - 1
              [] use.library = "petsc" /\ h \in did -> up
              [] OTHER -> 0
  BY DEF Cleanup, LibCleanup
<1>4. DyingAlone' /\ Empty'
  BY <1>1 DEF KInv, DyingAlone, Empty
<1>5. Fresh'
  BY <1>1, <1>2 DEF KInv, Fresh
<1>6. OneCall' /\ Untouched'
  BY <1>1 DEF Cleanup, KInv, OneCall, OnTime, Untouched
<1> HIDE DEF h
<1>7. Book' /\ up' \in Nat
  <2>1. CASE use.library = "curl"
    <3>1. IsFiniteSet(Live) /\ up = use.before + Cardinality(Live)
      BY <2>1 DEF KInv, Book
    <3>2. /\ Cardinality(Live) \in Nat
          /\ IsFiniteSet(Live \ {h}) /\ Cardinality(Live \ {h}) = Cardinality(Live) - 1
          /\ Cardinality(Live \ {h}) \in Nat
      BY <1>1, <3>1, FS_RemoveElement, FS_CardinalityType
    <3>3. IsFiniteSet(Live') /\ up' = use.before + Cardinality(Live') /\ Cardinality(Live') \in Nat
      BY <1>0, <1>2, <1>3, <2>1, <3>1, <3>2
    <3> QED
      BY <1>0, <1>1, <2>1, <3>3 DEF Book
  <2>2. CASE use.library = "petsc" /\ h \in did
    <3>1. up' = up /\ Undone' = Undone
      BY <1>1, <1>2, <1>3, <2>2 DEF Undone
    <3> QED
      BY <1>1, <2>2, <3>1 DEF KInv, Book
  <2>3. CASE use.library # "curl" /\ ~(use.library = "petsc" /\ h \in did)
    <3>1. up' = 0
      BY <1>3, <2>3
    <3>2. h \in Undone
      BY <1>1, <2>3 DEF Undone
    <3>3. use.before # 1
      BY <2>3, <3>2 DEF KInv, Book
    <3> QED
      BY <1>1, <2>3, <3>1, <3>3 DEF Book
  <2> QED
    BY <2>1, <2>2, <2>3
<1>8. TypeOK'
  BY <1>1, <1>7 DEF Cleanup, KInv, TypeOK
<1> QED
  BY <1>4, <1>5, <1>6, <1>7, <1>8 DEF KInv

LEMMA KInvNext == LeftToPlugins /\ KInv /\ [Next]_vars => KInv'
<1> SUFFICES ASSUME LeftToPlugins, KInv, [Next]_vars PROVE KInv'
  OBVIOUS
<1>0. IInv'
  BY IInvNext DEF KInv
<1>1. CASE UNCHANGED vars
  <2>1. Live' = Live /\ Book'
    BY <1>1, BookKept DEF vars, Live, KInv
  <2> QED
    BY <1>0, <1>1, <2>1 DEF vars, KInv, TypeOK, DyingAlone, Empty, Fresh, OneCall, OnTime, Untouched
<1>2. ASSUME NEW t \in Threads, NEW p, Along(t, p) PROVE KInv'
  BY <1>0, <1>2, AlongStep
<1>3. CASE Next
  <2> PICK t \in Threads : Step(t)
    BY <1>3 DEF Next
  <2>1. CASE Ask(t)
    BY <1>2, <2>1 DEF Ask, Along, KInv, TypeOK
  <2>2. CASE Enter(t)
    BY <1>2, <2>2 DEF Enter, Lock, Along, KInv, TypeOK
  <2>3. CASE Throw(t)
    <3>1. \A u \in Threads : u # t => pc[u] # "init"
      BY <2>3 DEF Throw, KInv, IInv, Section, InSection
    <3> QED
      BY <1>2, <2>3, <3>1 DEF Throw, Unwind, Along
  <2>4. CASE Unlock(t)
    BY <1>2, <2>4 DEF Unlock, Along
  <2>5. CASE Read(t)
    BY <1>2, <2>5 DEF Read, Along, KInv, TypeOK
  <2>6. CASE Write(t)
    BY <1>2, <2>6 DEF Write, Along, KInv, TypeOK
  <2>7. CASE Return(t)
    BY <1>2, <2>7 DEF Return, Along, KInv, TypeOK
  <2>8. CASE Share(t)   BY <1>0, <2>8, KShareStep
  <2>9. CASE Make(t)    BY <1>0, <2>9, KMakeStep
  <2>10. CASE Publish(t) BY <1>0, <2>10, KPublishStep
  <2>11. CASE \E u \in Threads : Clone(t, u)
    BY <1>0, <2>11, KCloneStep
  <2>12. CASE Drop(t)    BY <1>0, <2>12, KDropStep
  <2>13. CASE Cleanup(t) BY <1>0, <2>13, KCleanupStep
  <2> QED
    BY <2>1, <2>2, <2>3, <2>4, <2>5, <2>6, <2>7, <2>8, <2>9, <2>10, <2>11, <2>12, <2>13
    DEF Step, Continue
<1> QED
  BY <1>1, <1>3

\* However plugins are asked for, cloned, used and dropped, by however many threads at once: a
\* call finds the library initialised and nobody starting or ending it, but for calls by a
\* handle that was made while another thread still cleaned up after the former one, which a
\* program that makes one call at a time never does, and which does not hurt a library that
\* counts; and once no plugin is left it is initialised as often as it was before the first.
THEOREM LibraryGivenBack == ASSUME LeftToPlugins PROVE Spec => []LibraryKept
<1>1. KInv => LibraryKept
  <2> SUFFICES ASSUME KInv PROVE LibraryKept
    OBVIOUS
  <2>1. use.before \in 0..1
    BY UseAssumption DEF KInv, TypeOK
  <2>2. Restored
    <3> SUFFICES ASSUME \A t \in Threads : pc[t] = "idle" PROVE up = use.before
      BY DEF Restored
    <3>1. Live = {} /\ Undone = {}
      BY DEF KInv, Empty, DyingAlone, Live, Undone
    <3> QED
      BY <2>1, <3>1, FS_EmptySet DEF KInv, Book
  <2>3. OnTime
    <3>1. CASE use.safety = "serialized"
      BY <3>1 DEF KInv, OneCall
    <3>2. CASE use.safety # "serialized"
      BY <3>2 DEF OnTime
    <3> QED
      BY <3>1, <3>2
  <2>4. LibraryReady
    <3> SUFFICES ASSUME NEW t \in Using, has[t] \notin late \/ use.library = "curl"
                 PROVE  up > 0 /\ (use.library # "curl" => Between = {})
      BY DEF LibraryReady
    <3>1. t \in Threads /\ pc[t] \in {"reading", "writing"} /\ has[t] # None
      BY DEF Using, KInv, IInv, UserHolds
    <3>2. CASE use.library = "curl"
      <4>1. has[t] \in Live
        BY <3>1 DEF Live
      <4>2. IsFiniteSet(Live) /\ up = use.before + Cardinality(Live)
        BY <3>2 DEF KInv, Book
      <4>3. Cardinality(Live) \in Nat /\ Cardinality(Live) # 0
        BY <4>1, <4>2, FS_CardinalityType, FS_EmptySet
      <4> QED
        BY <2>1, <3>2, <4>2, <4>3
    <3>3. CASE use.library # "curl"
      <4>1. \A u \in Threads : pc[u] # "init"
        BY <3>1 DEF KInv, IInv, NoneWhileInit
      <4> QED
        BY <3>1, <3>3, <4>1 DEF KInv, Untouched, Between
    <3> QED
      BY <3>2, <3>3
  <2> QED
    BY <2>2, <2>3, <2>4 DEF LibraryKept, KInv
<1> QED
  BY <1>1, KInvInit, KInvNext, PTL DEF Spec
=============================================================================

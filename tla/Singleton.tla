----------------------------- MODULE Singleton -----------------------------
(***************************************************************************)
(* The handle that keeps a C library initialised while plugins use it:      *)
(* sz_init_handle, magick_init, arc_init_state, petsc_init and the managers *)
(* of curl and of the Python interpreter.  A weak_ptr under a mutex finds   *)
(* the handle or makes one; the constructor initialises the library and the *)
(* destructor, which runs without the mutex, cleans it up.                  *)
(*                                                                         *)
(* The use count of a handle is the number of threads that hold it.         *)
(***************************************************************************)
EXTENDS Integers, FiniteSets

CONSTANTS
  Threads,
  Handles,  \* the addresses handles are made at, reused once they are free
  None,     \* no thread, no handle
  Uses      \* how the library is used, a bound: see UseAssumption

\* library: what the C library does, see LibInit; before: the calling program has
\* initialised it itself; safety: pressio:thread_safe, which the program keeps to.
ASSUME UseAssumption == \A u \in Uses :
  /\ DOMAIN u = {"library", "before", "safety"}
  /\ u.library \in {"sz", "curl", "petsc", "python"}
  /\ u.before \in 0..1
  /\ u.safety \in {"serialized", "multiple"}

ASSUME NoneAssumption == None \notin Threads \cup Handles

VARIABLES
  use,      \* how the library is used
  pc,       \* where each thread is
  has,      \* the handle each thread's plugin holds
  mutex,    \* the thread in get_library()
  weak,     \* what the static weak_ptr points to, expired or not
  making,   \* the handle being made
  dying,    \* the handle each thread is destroying
  did,      \* the handles that found the library initialised: did_init
  up,       \* how often the library is initialised
  late      \* history: the handles that were made while a former one was being cleaned up

vars == <<use, pc, has, mutex, weak, making, dying, did, up, late>>

Holders(h) == {t \in Threads : has[t] = h}

\* Handles no thread holds, makes or destroys, and that weak does not point to.
FreeHandles == {h \in Handles : /\ Holders(h) = {} /\ h # making /\ h # weak
                                /\ \A t \in Threads : dying[t] # h}

\* What a program may rely on: with "serialized" one thread calls at a time.
MayCall(t) == use.safety = "multiple" \/ \A u \in Threads \ {t} : pc[u] \in {"idle", "ready"}

-----------------------------------------------------------------------------
(***************************************************************************)
(* The libraries.  curl counts its initialisations; the Python interpreter  *)
(* throws when it runs already; petsc_init asks first; SZ, arc and          *)
(* ImageMagick (all "sz") do neither.                                       *)
(***************************************************************************)
LibInit ==
  CASE use.library = "curl"   -> up' = up + 1 /\ UNCHANGED did
    [] use.library = "petsc"  -> up' = 1 /\ did' = IF up > 0 THEN did \cup {making} ELSE did \ {making}
    [] OTHER                  -> up' = 1 /\ UNCHANGED did

LibCleanup(h) ==
  up' = CASE use.library = "curl"                -> up - 1
          [] use.library = "petsc" /\ h \in did -> up
          [] OTHER                               -> 0

InitThrows == use.library = "python" /\ up > 0

-----------------------------------------------------------------------------
Init ==
  /\ use \in Uses
  /\ pc = [t \in Threads |-> "idle"]
  /\ has = [t \in Threads |-> None]
  /\ mutex = None /\ weak = None /\ making = None
  /\ dying = [t \in Threads |-> None]
  /\ did = {}
  /\ up = use.before
  /\ late = {}

\* A thread builds a plugin.
Ask(t) ==
  /\ pc[t] = "idle" /\ MayCall(t)
  /\ pc' = [pc EXCEPT ![t] = "wait"]
  /\ UNCHANGED <<use, has, mutex, weak, making, dying, did, up, late>>

\* Mutant: no lock.
Lock_None(t) ==
  /\ pc[t] = "wait"
  /\ mutex' = t
  /\ pc' = [pc EXCEPT ![t] = "locked"]

Lock(t) ==
  /\ pc[t] = "wait" /\ mutex = None
  /\ mutex' = t
  /\ pc' = [pc EXCEPT ![t] = "locked"]

Enter(t) == Lock(t) /\ UNCHANGED <<use, has, weak, making, dying, did, up, late>>

\* Mutant: the cached pointer is never checked.
Observed_Always == weak # None

\* weak.lock() finds the handle alive.
Observed == Holders(weak) # {}

Share(t) ==
  /\ pc[t] = "locked" /\ weak # None /\ Observed
  /\ has' = [has EXCEPT ![t] = weak]
  /\ pc' = [pc EXCEPT ![t] = "unlock"]
  /\ UNCHANGED <<use, mutex, weak, making, dying, did, up, late>>

\* make_shared: the constructor is about to initialise the library.
Make(t) ==
  /\ pc[t] = "locked" /\ ~(weak # None /\ Observed)
  /\ making' \in FreeHandles
  /\ pc' = [pc EXCEPT ![t] = "init"]
  /\ UNCHANGED <<use, has, mutex, weak, dying, did, up, late>>

\* The library is initialised and the new handle is published.
Publish(t) ==
  /\ pc[t] = "init" /\ ~InitThrows
  /\ LibInit
  /\ weak' = making /\ making' = None
  /\ late' = IF \E u \in Threads : dying[u] # None THEN late \cup {making} ELSE late \ {making}
  /\ has' = [has EXCEPT ![t] = making]
  /\ pc' = [pc EXCEPT ![t] = "unlock"]
  /\ UNCHANGED <<use, mutex, dying>>

\* The constructor's exception reaches the caller; the guard unlocks.
Unwind(t) == pc' = [pc EXCEPT ![t] = "idle"] /\ mutex' = None

Throw(t) ==
  /\ pc[t] = "init" /\ InitThrows
  /\ making' = None
  /\ Unwind(t)
  /\ UNCHANGED <<use, has, weak, dying, did, up, late>>

Unlock(t) ==
  /\ pc[t] = "unlock"
  /\ mutex' = None
  /\ pc' = [pc EXCEPT ![t] = "ready"]
  /\ UNCHANGED <<use, has, weak, making, dying, did, up, late>>

\* clone() copies the shared_ptr; the copy is for another thread.
Clone(t, u) ==
  /\ pc[t] = "ready" /\ MayCall(t) /\ pc[u] = "idle"
  /\ has' = [has EXCEPT ![u] = has[t]]
  /\ pc' = [pc EXCEPT ![u] = "ready"]
  /\ UNCHANGED <<use, mutex, weak, making, dying, did, up, late>>

\* A shared lock of the handle's sz_init_lock: compress, decompress, get_options.
Read(t) ==
  /\ pc[t] = "ready" /\ MayCall(t)
  /\ \A u \in Threads : has[u] = has[t] => pc[u] # "writing"
  /\ pc' = [pc EXCEPT ![t] = "reading"]
  /\ UNCHANGED <<use, has, mutex, weak, making, dying, did, up, late>>

\* Mutant: set_options takes the lock shared.
Exclusive_Shared(t) == \A u \in Threads : has[u] = has[t] => pc[u] # "writing"

Exclusive(t) == \A u \in Threads : has[u] = has[t] => pc[u] \notin {"reading", "writing"}

\* A unique lock of it: set_options, which changes the library's globals.
Write(t) ==
  /\ use.library = "sz"
  /\ pc[t] = "ready" /\ MayCall(t) /\ Exclusive(t)
  /\ pc' = [pc EXCEPT ![t] = "writing"]
  /\ UNCHANGED <<use, has, mutex, weak, making, dying, did, up, late>>

Return(t) ==
  /\ pc[t] \in {"reading", "writing"}
  /\ pc' = [pc EXCEPT ![t] = "ready"]
  /\ UNCHANGED <<use, has, mutex, weak, making, dying, did, up, late>>

\* The use count drops to zero.
Last(t) == Holders(has[t]) = {t}

\* A plugin is destroyed, and the handle with it if this was the last reference.
Drop(t) ==
  /\ pc[t] = "ready" /\ MayCall(t)
  /\ has' = [has EXCEPT ![t] = None]
  /\ IF Last(t)
     THEN /\ pc' = [pc EXCEPT ![t] = "cleaning"]
          /\ dying' = [dying EXCEPT ![t] = has[t]]
     ELSE pc' = [pc EXCEPT ![t] = "idle"] /\ UNCHANGED dying
  /\ UNCHANGED <<use, mutex, weak, making, did, up, late>>

\* The destructor cleans the library up.
Cleanup(t) ==
  /\ pc[t] = "cleaning"
  /\ LibCleanup(dying[t])
  /\ dying' = [dying EXCEPT ![t] = None]
  /\ pc' = [pc EXCEPT ![t] = "idle"]
  /\ UNCHANGED <<use, has, mutex, weak, making, did, late>>

\* A call that has begun goes on without being asked.
Continue(t) == Enter(t) \/ Share(t) \/ Make(t) \/ Publish(t) \/ Throw(t) \/ Unlock(t)
               \/ Return(t) \/ Cleanup(t)

Step(t) == Continue(t) \/ Ask(t) \/ Read(t) \/ Write(t) \/ Drop(t)
           \/ \E u \in Threads : Clone(t, u)

Next == \E t \in Threads : Step(t)

\* Nothing is assumed of the schedule, nor of the order in which the mutex is given.
Spec == Init /\ [][Next]_vars

-----------------------------------------------------------------------------
(***************************************************************************)
(* Properties.                                                             *)
(***************************************************************************)

\* Every variable has its type; the library is never cleaned up more often than it
\* was initialised.
TypeOK ==
  /\ use \in Uses
  /\ pc \in [Threads -> {"idle", "wait", "locked", "init", "unlock", "ready",
                         "reading", "writing", "cleaning"}]
  /\ has \in [Threads -> Handles \cup {None}]
  /\ mutex \in Threads \cup {None}
  /\ weak \in Handles \cup {None} /\ making \in Handles \cup {None}
  /\ dying \in [Threads -> Handles \cup {None}]
  /\ did \subseteq Handles /\ late \subseteq Handles
  /\ up \in Nat

\* However threads ask, clone and drop, all plugins share one handle (and with it one
\* sz_init_lock), also while a handle is made (pressio_get_sz_init_handle).
OneHandle == \A t, u \in Threads :
  has[t] # None => has[u] \in {None, has[t]} /\ pc[u] # "init"

\* Nobody compresses while another thread changes the library's global options, though
\* they work on plugins of their own (sz_init_lock in sz.cc and sz_threadsafe.cc).
ReadersWriter == \A t, u \in Threads :
  t # u /\ pc[t] = "writing" => pc[u] \notin {"reading", "writing"}

Using   == {t \in Threads : pc[t] \in {"reading", "writing"}}
Between == {t \in Threads : pc[t] \in {"init", "cleaning"}}

\* A plugin's library is initialised for the length of each call, and, unless it
\* counts, it is not being initialised or cleaned up by another thread: of any number of
\* threads and of any library, but for calls by a handle that was made while another
\* thread, which has let go of the mutex, was still cleaning up after the former one.
LibraryReady == \A t \in Using :
  has[t] \notin late \/ use.library = "curl" => up > 0 /\ (use.library # "curl" => Between = {})

\* No handle is made like that by programs that make one call at a time.
OnTime == use.safety = "serialized" => \A t \in Threads : has[t] \notin late

\* Once the last plugin is gone the library is as the program had it, even if one
\* thread's cleanup and another's initialisation overlapped.
Restored == (\A t \in Threads : pc[t] = "idle") => up = use.before

\* The library outlives the calls made into it and is given back as it was found.
LibraryKept == TypeOK /\ LibraryReady /\ OnTime /\ Restored
=============================================================================

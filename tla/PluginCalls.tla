----------------------------- MODULE PluginCalls -----------------------------
(***************************************************************************)
(* Threads that each call one operation of a plugin on an object of their  *)
(* own.  A call follows one of its paths step by step; whatever may fail   *)
(* does or does not; the caller's data lies in memory of the host or of    *)
(* the device.                                                             *)
(***************************************************************************)
EXTENDS CallSteps

CONSTANTS Thread,
          Calls,     \* from a call's name to its paths
          Locks,     \* the locks of the process
          Keeps,     \* from a call to the resources an early return of it keeps
          Quiet,     \* the calls that do not tell of every failure
          Disturbs   \* from a call to what it is known to disturb

VARIABLES call,      \* the call all threads make
          path, pc,  \* each thread's path and place on it
          at,        \* where the input lies that the thread's library calls are given
          held,      \* what it has taken and not given back
          failure,   \* "none"; "open" until its result is looked at; "told"; "lost" if it never was; "counted" as progress
          reply,     \* "running", or what the call returned
          recorded,  \* an error was recorded
          output,    \* the caller's output object: "own", "moved" from, "written"
          disturbed, \* what the call has done to others than its output
          settings,  \* the thread whose settings are in the process
          locks      \* from a lock to the threads that hold it and how
vars == <<call, path, pc, at, held, failure, reply, recorded, output, disturbed, settings, locks>>

\* threads whose call touches nothing of the process do not meet: one of them is enough
Meets(c) == \E p \in Calls[c] : \E i \in DOMAIN p : p[i].do \in {"publish", "consult", "shared", "exclusive"}
Lone == CHOOSE t \in Thread : TRUE

Init == /\ call \in DOMAIN Calls
        /\ path \in [Thread -> Calls[call]]
        /\ pc = [t \in Thread |-> 1]
        /\ at \in {[t \in Thread |-> w] : w \in {"host", "device"}}
        /\ held = [t \in Thread |-> {}]
        /\ failure = [t \in Thread |-> "none"]
        /\ reply = [t \in Thread |-> IF t = Lone \/ Meets(call) THEN "running" ELSE "absent"]
        /\ (Meets(call) \/ \A t \in Thread : path[t] = path[Lone])
        /\ recorded = [t \in Thread |-> FALSE]
        /\ output = [t \in Thread |-> "own"]
        /\ disturbed = [t \in Thread |-> {}]
        /\ settings = Lone
        /\ locks = [m \in Locks |-> [shared |-> {}, exclusive |-> {}]]

Running(t) == reply[t] = "running"
At(t, kinds) == Running(t) /\ pc[t] <= Len(path[t]) /\ path[t][pc[t]].do \in kinds
Step(t) == path[t][pc[t]]
Forward(t) == pc' = [pc EXCEPT ![t] = @ + 1]
\* what an operation on the wrong memory, or of another object's settings, leaves behind
Disturb(t, what) == disturbed' = [disturbed EXCEPT ![t] = @ \cup what]
Misplaced(t) == IF Step(t).arg \in {"host", "device"} /\ Step(t).arg # at[t] THEN {"memory"} ELSE {}
\* the function is left: its locks are freed, a result nobody looked at is lost
Leave(t, r) == /\ reply' = [reply EXCEPT ![t] = r]
               /\ locks' = [m \in Locks |-> [shared |-> locks[m].shared \ {t}, exclusive |-> locks[m].exclusive \ {t}]]
Unlooked(f) == IF f = "open" THEN "lost" ELSE f

\* domain_manager().make_readable
Readable(t) == /\ At(t, {"readable"}) /\ Forward(t)
               /\ at' = [at EXCEPT ![t] = Step(t).arg]
               /\ UNCHANGED <<call, path, held, failure, reply, recorded, output, disturbed, settings, locks>>
\* the output object
Output(t) == /\ At(t, {"moveout", "newout"}) /\ Forward(t)
             /\ output' = [output EXCEPT ![t] = IF Step(t).do = "moveout" THEN "moved" ELSE "written"]
             /\ UNCHANGED <<call, path, at, held, failure, reply, recorded, disturbed, settings, locks>>
\* what the function, or an owner that releases it on every return, acquires and releases
Hold(t) == /\ At(t, {"take", "give", "owned"}) /\ Forward(t)
           /\ held' = [held EXCEPT ![t] = CASE Step(t).do = "take" -> @ \cup {Step(t).arg}
                                            [] Step(t).do = "give" -> @ \ {Step(t).arg}
                                            [] OTHER -> @]
           /\ UNCHANGED <<call, path, at, failure, reply, recorded, output, disturbed, settings, locks>>
\* settings of the object, and what a child, a caller or an emptied object suffers
Mark(t) == /\ At(t, {"shift", "unshift", "astray"}) /\ Forward(t)
           /\ disturbed' = [disturbed EXCEPT ![t] = IF Step(t).do = "unshift" THEN @ \ {Step(t).arg} ELSE @ \cup {Step(t).arg}]
           /\ UNCHANGED <<call, path, at, held, failure, reply, recorded, output, settings, locks>>

\* a library call, and a call of a child
Work(t) == /\ At(t, {"call", "run"}) /\ Forward(t)
           /\ \/ failure' = [failure EXCEPT ![t] = Unlooked(@)]
              \/ /\ Step(t).do = "call"
                 /\ failure' = [failure EXCEPT ![t] = IF @ \in {"open", "lost"} THEN "lost" ELSE "open"]
           /\ Disturb(t, Misplaced(t))
           /\ UNCHANGED <<call, path, at, held, reply, recorded, output, settings, locks>>
\* a call in a loop: a failure is counted as progress and the call made again, without end if it stays; the loop ends with
\* the total it should have, or with another
Retry(t) == /\ At(t, {"again"})
            /\ \/ /\ failure' = [failure EXCEPT ![t] = IF @ = "lost" THEN @ ELSE "counted"] /\ UNCHANGED pc
                  /\ \E place \in {{}, {"bounds"}} : Disturb(t, Misplaced(t) \cup place)
               \/ /\ failure' = [failure EXCEPT ![t] = IF @ = "counted" THEN "lost" ELSE @]
                  /\ Forward(t) /\ Disturb(t, Misplaced(t))
               \/ /\ failure' = [failure EXCEPT ![t] = IF @ = "lost" THEN @ ELSE "open"]
                  /\ Forward(t) /\ Disturb(t, Misplaced(t))
            /\ UNCHANGED <<call, path, at, held, reply, recorded, output, settings, locks>>
\* its result is looked at
Look(t) == /\ At(t, {"told"}) /\ Forward(t)
           /\ failure' = [failure EXCEPT ![t] = IF @ = "open" THEN "told" ELSE @]
           /\ recorded' = [recorded EXCEPT ![t] = @ \/ failure[t] = "open"]
           /\ IF failure[t] = "open" /\ Step(t).arg = "return" THEN Leave(t, "error") ELSE UNCHANGED <<reply, locks>>
           /\ UNCHANGED <<call, path, at, held, output, disturbed, settings>>

\* arguments that the function does not accept
Decline(t) ==
  /\ At(t, {"refuse"})
  /\ \/ Forward(t) /\ UNCHANGED <<failure, reply, recorded, locks>>
     \/ /\ Step(t).arg = "return" /\ Leave(t, "error") /\ recorded' = [recorded EXCEPT ![t] = TRUE]
        /\ failure' = [failure EXCEPT ![t] = IF @ = "lost" THEN @ ELSE "told"] /\ UNCHANGED pc
     \/ /\ Step(t).arg = "warn" /\ Leave(t, "warning") /\ recorded' = [recorded EXCEPT ![t] = TRUE]
        /\ failure' = [failure EXCEPT ![t] = "lost"] /\ UNCHANGED pc
     \/ /\ Step(t).arg = "note" /\ Leave(t, "ok") /\ recorded' = [recorded EXCEPT ![t] = TRUE]
        /\ failure' = [failure EXCEPT ![t] = "told"] /\ UNCHANGED pc
     \/ /\ Step(t).arg = "silent" /\ Leave(t, "ok")
        /\ failure' = [failure EXCEPT ![t] = "lost"] /\ UNCHANGED <<pc, recorded>>
  /\ UNCHANGED <<call, path, at, held, output, disturbed, settings>>

\* the handler an exception at pc is caught by
Handlers(t) == {i \in DOMAIN path[t] : i > pc[t] /\ path[t][i].do = "caught"}
\* an exception, of the library or of the function's own: it is caught and an error returned, or leaves the function
Except(t) ==
  /\ (At(t, {"raise", "escape"}) \/ (At(t, {"refuse"}) /\ Step(t).arg = "throw"))
  /\ Disturb(t, Misplaced(t))
  /\ \/ Forward(t) /\ failure' = [failure EXCEPT ![t] = Unlooked(@)] /\ UNCHANGED <<reply, recorded, locks>>
     \/ /\ failure' = [failure EXCEPT ![t] = IF @ = "lost" THEN @ ELSE "told"]
        /\ IF Handlers(t) = {} \/ Step(t).do = "escape"
           THEN Leave(t, "exception") /\ UNCHANGED recorded
           ELSE Leave(t, "error") /\ recorded' = [recorded EXCEPT ![t] = TRUE]
        /\ UNCHANGED pc
  /\ UNCHANGED <<call, path, at, held, output, settings>>
Caughtless(t) == /\ At(t, {"caught"}) /\ Forward(t)
                 /\ UNCHANGED <<call, path, at, held, failure, reply, recorded, output, disturbed, settings, locks>>

\* settings that all objects of the process share
Exchange(t) == /\ At(t, {"publish", "consult"}) /\ Forward(t)
               /\ settings' = IF Step(t).do = "publish" THEN t ELSE settings
               /\ Disturb(t, IF Step(t).do = "consult" /\ settings # t THEN {"settings"} ELSE {})
               /\ UNCHANGED <<call, path, at, held, failure, reply, recorded, output, locks>>
\* the locks of the process
Lock(t) == /\ At(t, {"shared", "exclusive"}) /\ Forward(t)
           /\ LET m == Step(t).arg
              IN /\ locks[m].exclusive = {} /\ (Step(t).do = "exclusive" => locks[m].shared = {})
                 /\ locks' = IF Step(t).do = "shared" THEN [locks EXCEPT ![m].shared = @ \cup {t}] ELSE [locks EXCEPT ![m].exclusive = {t}]
           /\ UNCHANGED <<call, path, at, held, failure, reply, recorded, output, disturbed, settings>>
Unlock(t) == /\ At(t, {"free"}) /\ Forward(t)
             /\ locks' = [locks EXCEPT ![Step(t).arg] = [shared |-> @.shared \ {t}, exclusive |-> @.exclusive \ {t}]]
             /\ UNCHANGED <<call, path, at, held, failure, reply, recorded, output, disturbed, settings>>

\* the end of the path
Return(t) == /\ Running(t) /\ pc[t] > Len(path[t])
             /\ Leave(t, "ok")
             /\ failure' = [failure EXCEPT ![t] = Unlooked(@)]
             /\ UNCHANGED <<call, path, pc, at, held, recorded, output, disturbed, settings>>
Finished == (\A t \in Thread : ~Running(t)) /\ UNCHANGED vars

Next == \/ \E t \in Thread : \/ Readable(t) \/ Output(t) \/ Hold(t) \/ Mark(t) \/ Work(t) \/ Retry(t) \/ Look(t) \/ Decline(t)
                             \/ Except(t) \/ Caughtless(t) \/ Exchange(t) \/ Lock(t) \/ Unlock(t) \/ Return(t)
        \/ Finished
Spec == Init /\ [][Next]_vars

Returned(t) == reply[t] \in {"ok", "warning", "error", "exception"}

\* Every return, an early one and an exception included, leaves nothing behind that the function took: the streams, fields,
\* descriptors and buffers it must release by hand are released on each of its paths, but for those of Keeps.
Released == \A t \in Thread : Returned(t) => held[t] \subseteq Keeps[call]


\* A call leaves the settings of its object as they were, uses those of no other object, hands a library only memory the
\* library can reach, and leaves the caller's input and objects alone; one that succeeds leaves no output moved from.
Undisturbed == \A t \in Thread : Returned(t) =>
                 /\ disturbed[t] \subseteq Disturbs[call]
                 /\ reply[t] = "ok" /\ ~recorded[t] => output[t] # "moved"
=============================================================================

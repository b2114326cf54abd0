------------------------------ MODULE CallSteps ------------------------------
(***************************************************************************)
(* The vocabulary of plugin calls.  A call (compress_impl, decompress_impl, *)
(* read_impl, ...) is the set of paths through its function, a path the    *)
(* sequence of the steps below.  What is left out is arithmetic on the     *)
(* data; what is kept is every acquisition and release, every library call *)
(* that may fail and what becomes of its result, every early return, what  *)
(* happens to the caller's output object, and every use of state that is   *)
(* shared by the whole process.                                            *)
(***************************************************************************)
EXTENDS Naturals, Sequences, FiniteSets

\* input = domain_manager().make_readable(malloc | cudamalloc, *real_input)
Host == [do |-> "readable", arg |-> "host"]
Device == [do |-> "readable", arg |-> "device"]
\* *real_output is moved into a local object; a value is assigned to it
MoveOut == [do |-> "moveout", arg |-> ""]
NewOut == [do |-> "newout", arg |-> ""]
\* a handle, file or block the function must release itself; one that its owner releases on every return
Take(r) == [do |-> "take", arg |-> r]
Give(r) == [do |-> "give", arg |-> r]
Owned(r) == [do |-> "owned", arg |-> r]
\* a member of the plugin is given another value, and its old value again
Shift(x) == [do |-> "shift", arg |-> x]
Unshift(x) == [do |-> "unshift", arg |-> x]
\* the arguments may be refused: a positive code is returned, an exception
\* leaves the function, or a negative code is returned, which every caller takes for a warning
Refuse == [do |-> "refuse", arg |-> "return"]
Throw == [do |-> "refuse", arg |-> "throw"]
Warn == [do |-> "refuse", arg |-> "warn"]
Remark == [do |-> "refuse", arg |-> "note"]              \* recorded, and 0 returned
Silent == [do |-> "refuse", arg |-> "silent"]            \* 0 is returned, and nothing was done
\* a library call on memory of the host or of the device, on no data of the caller at all; it may fail
Call == [do |-> "call", arg |-> "host"]
Kernel == [do |-> "call", arg |-> "device"]
Open == [do |-> "call", arg |-> "none"]
\* read and write in a loop that takes their failure for progress: the call is made again, beside the place it should be at
Again(w) == [do |-> "again", arg |-> w]
\* the same, failing by an exception, which leaves the function unless a later handler catches it and returns an error;
\* one outside the function's handlers
Raise == [do |-> "raise", arg |-> "host"]
RaiseKernel == [do |-> "raise", arg |-> "device"]
Attempt == [do |-> "raise", arg |-> "none"]
Escape == [do |-> "escape", arg |-> "none"]
Caught == [do |-> "caught", arg |-> ""]
\* a call of a child plugin; its error is returned and its warning passed over by Told
Child == [do |-> "call", arg |-> "none"]
\* the same, for a library that cannot fail or has no way to say so
Run == [do |-> "run", arg |-> "host"]
RunKernel == [do |-> "run", arg |-> "device"]
\* the last call's result is looked at: a failure is returned as an error, or recorded and the function goes on
Told == [do |-> "told", arg |-> "return"]
Noted == [do |-> "told", arg |-> "note"]
\* a child is given a view of the caller's input for its output; the caller's own object is freed, or handed back as the
\* result, although it stays the caller's; an object that has been moved from is used
ChildOver == [do |-> "astray", arg |-> "input"]
Consume == [do |-> "astray", arg |-> "object"]
UseMoved == [do |-> "astray", arg |-> "moved"]
\* settings of this plugin object are written to state of the process; a library call reads them there
Publish == [do |-> "publish", arg |-> ""]
Consult == [do |-> "consult", arg |-> ""]
\* a lock of the process, shared or exclusive, held until it is freed or the function is left
Shared(m) == [do |-> "shared", arg |-> m]
Exclusive(m) == [do |-> "exclusive", arg |-> m]
Free(m) == [do |-> "free", arg |-> m]
=============================================================================

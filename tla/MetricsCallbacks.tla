--------------------------- MODULE MetricsCallbacks ---------------------------
(***************************************************************************)
(* A compressor and its metrics plugin.  Every operation of the compressor *)
(* is the hook of the plugin that begins it, the operation of the          *)
(* implementation, and the hook that ends it; set_options may put another  *)
(* plugin in its place between the two.  A plugin may be alone or lie      *)
(* within another that hands the hooks on.                                 *)
(***************************************************************************)
EXTENDS MetricsHooks, Sequences, SequencesExt

CONSTANTS Metrics,   \* from a plugin to its hooks and results
          Wraps,     \* from a plugin around others to what it does with their hooks
          Objects,   \* the metrics a compressor may be given: [wrap |-> a name, kinds |-> names]
          Spares,    \* those it may be given in the place of another
          Singles, Manys,   \* the buffers of an operation on one, and on many
          Early, Late,      \* plugins known to have results sooner, and later, than they say
          Lost,             \* a plugin within another known to get only one of the two hooks around an operation
          Passes     \* from a plugin to the data it is known to pass over

VARIABLES metrics,   \* the plugin: its parts' memory, operations begun, ended without having begun, what its hooks returned
          fatal,     \* metrics:errors_fatal
          stream,    \* what this plugin last saw compressed: the buffers, with which operation, and whether it succeeded
          matched,   \* the last operation on data was the decompression that belongs to stream
          seen,      \* this plugin has seen a decompression
          late,      \* the results that a decompression gave their first value
          hidden     \* an operation answered ok although its implementation, or with errors_fatal one of its hooks, failed
vars == <<metrics, fatal, stream, matched, seen, late, hidden>>

\* data: two of floats, integers, a shape of more dimensions than most plugins know, an object without data, what a failed
\* decompression leaves in the output
Floats(d) == d \notin {"ints", "empty"}
Odd(d) == d = "deep"
Present(d) == d # "empty"

Fresh(o) == [wrap |-> o.wrap,
             parts |-> [k \in o.kinds |-> [kept |-> {}, vals |-> [i \in DOMAIN Metrics[k].results |-> {}], failed |-> {}]],
             open |-> {}, unbegun |-> {}]
NoStream == [data |-> <<>>, op |-> "none", ok |-> FALSE]

----------------------------------------------------------------------------
(* hooks *)

\* metrics_base.cc: the _many hooks of the base class call the hooks for one buffer when there is one
OneBuffer(op) == CASE op = "compress_many" -> "compress" [] op = "decompress_many" -> "decompress" [] OTHER -> op
HookOf(k, op, n) ==
  CASE op = OneBuffer(op) \/ Metrics[k].many = "own" -> op
    [] Metrics[k].many = "one" /\ n # 1 -> "none"
    [] Metrics[k].many = "several" /\ n < 2 -> "none"
    [] OTHER -> OneBuffer(op)
\* which hook a plugin around others hands on to them
HandedOn(w, side, op, ds) ==
  CASE Wraps[w].passes = "all" -> op
    [] <<side, OneBuffer(op)>> \in {<<"begin", "compress">>, <<"end", "decompress">>} /\ Len(ds) = 1 /\ Present(ds[1]) -> OneBuffer(op)
    [] OTHER -> "none"

\* whether a hook looks at its data and goes on
Accepts(k, r, op, ds) ==
  CASE r.on = "anything" -> TRUE
    [] r.on = "floats" -> \A d \in Range(ds) : Floats(d)
    [] OTHER -> (op # OneBuffer(op) /\ Metrics[k].many = "any") \/ \A d \in Range(ds) : Present(d)
Failure(r, ds) == IF ds = <<>> THEN r.none ELSE IF \E d \in Range(ds) : Odd(d) THEN r.odd ELSE "computed"

\* a slip: the first input is kept
Kept_mut(M, p, side, h, ds) == IF h = "compress" /\ M.keeps = side /\ p.kept = {} THEN Range(ds) ELSE p.kept
\* input_data = pressio_data::clone(...)
Kept(M, p, side, h, ds) ==
  IF h = "compress" /\ M.keeps = side /\ (\A d \in Range(ds) : Present(d) \/ M.results[1].on = "anything") THEN Range(ds) ELSE p.kept

\* the hook of one part: the input is kept, the results of this hook are computed, or the hook fails
PartHook(k, p, side, op, ds, begun) ==
  LET M == Metrics[k]
      h == HookOf(k, op, Len(ds))
      Computed(i) == LET r == M.results[i]
                     IN /\ r.op = h /\ (r.of = side \/ (side = "end" /\ r.of \in {"both", "clock"}))
                        /\ Accepts(k, r, op, ds) /\ (r.of = "both" => p.kept # {} \/ r.on = "anything")
                        /\ (r.of = "clock" => begun)
  IN [kept |-> Kept(M, p, side, h, ds),
      vals |-> [i \in DOMAIN M.results |->
                  LET r == M.results[i]
                  IN IF ~Computed(i) \/ Failure(r, ds) # "computed" THEN p.vals[i]
                     ELSE CASE r.of = "clock" -> {"clock"}
                            [] r.of = "both" -> p.kept \cup Range(ds)
                            [] OTHER -> Range(ds)],
      failed |-> p.failed \cup ({Failure(M.results[i], ds) : i \in {j \in DOMAIN M.results : Computed(j)}} \ {"computed"})]

\* the hooks of all parts
Hooks(m, side, op, ds) ==
  [m EXCEPT !.parts = [k \in DOMAIN m.parts |->
     LET handed == HandedOn(m.wrap, side, op, ds) IN PartHook(k, m.parts[k], side, handed, ds, handed \in m.open)]]
\* an exception leaves the hook, a recorded error is returned unless a plugin around drops it
Failed(m) == LET all == UNION {m.parts[k].failed : k \in DOMAIN m.parts}
             IN CASE "thrown" \in all -> "thrown"
                  [] "told" \in all -> IF Wraps[m.wrap].mutes THEN "muted" ELSE "told"
                  [] OTHER -> "no"

\* time.cc and rusage.cc: the beginning makes the measurement that the end completes without looking whether there is one
MeasuredAs(m, side, op, ds) ==
  (IF Wraps[m.wrap].measures THEN {op}
   ELSE IF \E k \in DOMAIN m.parts : Metrics[k].many = "own" THEN {HandedOn(m.wrap, side, op, ds)} ELSE {}) \cap Measured
Begin(m, op, ds) == [Hooks(m, "begin", op, ds) EXCEPT !.open = @ \cup MeasuredAs(m, "begin", op, ds)]
End(m, op, ds) == LET ended == MeasuredAs(m, "end", op, ds)
                  IN [Hooks(m, "end", op, ds) EXCEPT !.open = @ \ ended, !.unbegun = @ \cup (ended \ m.open)]

----------------------------------------------------------------------------
(* operations of the compressor *)

Valued(m, k, i) == Metrics[k].results[i].unset = "value" \/ m.parts[k].vals[i] # {}
Init == /\ metrics \in {Fresh(o) : o \in Objects}
        /\ fatal \in BOOLEAN
        /\ stream = NoStream /\ matched = FALSE /\ seen = FALSE /\ late = {}
        /\ hidden = FALSE

\* a slip: the hook's error is recorded and the implementation's answer returned
Answer_mut(m, done) == IF Failed(m) = "thrown" THEN "exception" ELSE IF done THEN "ok" ELSE "error"
Answer(m, done) == CASE Failed(m) = "thrown" -> "exception"
                     [] Failed(m) = "told" /\ fatal -> "error"
                     [] OTHER -> IF done THEN "ok" ELSE "error"
Replied(m, answer, done) ==
  /\ metrics' = [m EXCEPT !.parts = [k \in DOMAIN m.parts |-> [m.parts[k] EXCEPT !.failed = {}]]]
  /\ hidden' = (hidden \/ (answer = "ok" /\ (~done \/ (fatal /\ Failed(m) \notin {"no", "muted"}))))

\* get_options and get_configuration
Get(op) == /\ \E begun \in {Begin(metrics, op, <<>>)} : Replied(End(begun, op, <<>>), "ok", TRUE)
           /\ UNCHANGED <<fatal, stream, matched, seen, late>>
\* the options are asked for on the way; options with an unknown key are refused there and then
CheckOptions ==
  \E begun \in {Begin(metrics, "check_options", <<>>)} :
    \E asking \in {Begin(begun, "get_options", <<>>)} : \E asked \in {End(asking, "get_options", <<>>)} :
      /\ UNCHANGED <<fatal, stream, matched, seen, late>>
      /\ \/ Replied(asked, "error", FALSE)
         \/ \E done \in BOOLEAN : Replied(End(asked, "check_options", <<>>), IF done THEN "ok" ELSE "error", done)

\* the histories when another plugin is put in its place
Another == stream' = NoStream /\ matched' = FALSE /\ seen' = FALSE /\ late' = {}
SetOptions ==
  /\ fatal' \in BOOLEAN
  /\ \E done \in BOOLEAN :
       \/ /\ \E begun \in {Begin(metrics, "set_options", <<>>)} :
               Replied(End(begun, "set_options", <<>>), IF done THEN "ok" ELSE "error", done)
          /\ UNCHANGED <<stream, matched, seen, late>>
       \/ \E o \in Spares : /\ Replied(End(Fresh(o), "set_options", <<>>), IF done THEN "ok" ELSE "error", done)
                            /\ Another
SetMetrics == \E o \in Spares : Another /\ metrics' = Fresh(o) /\ UNCHANGED <<fatal, hidden>>

RefusedBy(m) == Failed(m) = "thrown" \/ (Failed(m) = "told" /\ fatal)
\* a slip: an implementation that fails returns at once
Compress_mut(op) ==
  \E ds \in IF op = "compress" THEN Singles ELSE Manys : \E done \in BOOLEAN :
    \E begun \in {Begin(metrics, op, ds)} : \E ended \in {IF ~done THEN begun ELSE End(begun, op, ds)} :
       /\ Replied(ended, Answer(ended, done), done)
       /\ stream' = [data |-> ds, op |-> op, ok |-> Answer(ended, done) = "ok"]
       /\ matched' = FALSE /\ UNCHANGED <<fatal, seen, late>>
\* compress and compress_many: an error of a hook is returned in the place of the implementation's answer
Compress(op) ==
  \E ds \in IF op = "compress" THEN Singles ELSE Manys : \E done \in BOOLEAN :
    \E begun \in {Begin(metrics, op, ds)} : \E ended \in {IF RefusedBy(begun) THEN begun ELSE End(begun, op, ds)} :
       /\ Replied(ended, Answer(ended, done), done /\ ~RefusedBy(begun))
       /\ stream' = [data |-> ds, op |-> op, ok |-> Answer(ended, done) = "ok"]
       /\ matched' = FALSE /\ UNCHANGED <<fatal, seen, late>>

Compressing(op) == IF op = "decompress" THEN "compress" ELSE "compress_many"
\* decompress and decompress_many of some stream: the one last compressed, or one from elsewhere.  decompress does not look
\* at what the hooks return
Decompress(op) ==
  \E ds \in IF op = "decompress" THEN Singles ELSE Manys : \E done \in BOOLEAN :
    \E out \in IF done THEN {ds} ELSE {[i \in DOMAIN ds |-> d] : d \in {"junk", "empty"}} :
      \E begun \in {Begin(metrics, op, ds)} : \E ended \in {End(begun, op, out)} :
        \E answer \in {IF op = "decompress" /\ Failed(ended) # "thrown" THEN IF done THEN "ok" ELSE "error" ELSE Answer(ended, done)} :
          /\ Replied(ended, answer, done)
          /\ matched' = (answer = "ok" /\ stream.ok /\ stream.data = ds /\ stream.op = Compressing(op))
          /\ seen' = TRUE
          /\ late' = late \cup {<<k, i>> \in UNION {{k} \X DOMAIN Metrics[k].results : k \in DOMAIN metrics.parts} :
                                  Valued(ended, k, i) /\ ~Valued(metrics, k, i)}
          /\ UNCHANGED <<fatal, stream>>

Next == \/ \E op \in {"get_options", "get_configuration"} : Get(op)
        \/ CheckOptions \/ SetOptions \/ SetMetrics
        \/ \E op \in {"compress", "compress_many"} : Compress(op)
        \/ \E op \in {"decompress", "decompress_many"} : Decompress(op)
Spec == Init /\ [][Next]_vars

\* An operation that a measuring plugin saw begin it sees end, and it is given no end without the beginning, in whose place
\* time.cc and rusage.cc would write to a measurement that is not there.  Known to do otherwise: check_options returns on an
\* unknown key without the end, set_options gives the end to the plugin it has just put in place, and mask, one of the Lost,
\* hands on half of the hooks.
Mislaid(k) == <<metrics.wrap, k>> \in Lost
Paired == (\A k \in DOMAIN metrics.parts : ~Mislaid(k)) =>
            metrics.open \subseteq {"check_options"} /\ metrics.unbegun \subseteq {"set_options"}

\* predictors:requires_decompress tells the results that need a decompression: one it names has no value before the plugin
\* has seen one, and one that a decompression gave its first value is named.  The plugins of Early and Late do otherwise.
Needed(k, i) == Metrics[k].results[i].names \subseteq Metrics[k].needs
Described == /\ \A k \in DOMAIN metrics.parts \ Early : \A i \in DOMAIN Metrics[k].results :
                   Needed(k, i) /\ ~seen => ~Valued(metrics, k, i)
             /\ \A r \in late : r[1] \in Late \/ Needed(r[1], r[2])

\* After a compression and the decompression that belongs to it every result is of their data and of no other, whatever was
\* called before, passed over or failed; but a plugin keeps the results of earlier data where it passes these over.
Known(k) == /\ stream.data # <<>> /\ ~Mislaid(k)
            /\ \A d \in Range(stream.data) : Present(d) /\ (k \in DOMAIN Passes => d \notin Passes[k])
            /\ HookOf(k, stream.op, Len(stream.data)) # "none"
OneData == matched => \A k \in DOMAIN metrics.parts : Known(k) =>
             \A i \in DOMAIN Metrics[k].results :
               Metrics[k].results[i].of = "clock" \/ metrics.parts[k].vals[i] = Range(stream.data)

\* An operation that answers ok succeeded, and with metrics:errors_fatal no hook failed in it, but for the errors a plugin
\* around others drops.
ErrorTold == ~hidden
=============================================================================

----------------------------- MODULE MetricsHooks -----------------------------
(***************************************************************************)
(* What each metrics plugin does in the hooks a compressor calls around its *)
(* operations: the input it keeps a copy of, when each of its results is   *)
(* computed and from what, on which data the computation is passed over or *)
(* fails, and which results it says are to be had only by decompressing.   *)
(* The arithmetic of the results is left out.                              *)
(***************************************************************************)
EXTENDS Naturals, FiniteSets

\* the results of these names, computed by a hook of operation op: at its beginning or its end, of the data it is given
Result(names, op, of) ==
  [names |-> names, op |-> op, of |-> of, unset |-> "no value", on |-> "data", odd |-> "computed", none |-> "computed"]
AtBegin(names) == Result(names, "compress", "begin")
AtEnd(names) == Result(names, "compress", "end")
OfOutput(names) == Result(names, "decompress", "end")
\* of the kept input and the decompressed data together
OfBoth(names) == Result(names, "decompress", "both")
\* it has a value before anything was computed
Preset(r) == [r EXCEPT !.unset = "value"]
\* it is computed of floating point data only; without a look whether there is data at all
FloatsOnly(r) == [r EXCEPT !.on = "floats"]
Unasked(r) == [r EXCEPT !.on = "anything"]
\* on a shape the plugin has no computation for, the hook records an error, or throws; on no buffers, it records one
OddRefused(r) == [r EXCEPT !.odd = "told"]
OddThrown(r) == [r EXCEPT !.odd = "thrown"]
NoneRefused(r) == [r EXCEPT !.none = "told"]

\* keeps: the hook of compress that keeps the input.  many: the hooks of the _many operations are those of the base class,
\* which stand in for the hooks of the operation on one buffer ("one"); the plugin's own, for any number of buffers ("any");
\* its own, for more than one ("several"); its own, with results of their own ("own").  needs: predictors:requires_decompress
Metric(keeps, many, needs, results) == [keeps |-> keeps, many |-> many, needs |-> needs, results |-> results]
Named(rs) == UNION {rs[i].names : i \in DOMAIN rs}

\* most plugins: the input is kept when a compression begins, and compared with the output of a decompression when it ends
Comparison(r) == Metric("begin", "one", r.names, <<r>>)

Autocorr_metrics == Comparison(OfBoth({"autocorr"}))
DiffPdf_metrics == Comparison(OfBoth({"histogram", "interval", "min_diff", "max_diff"}))
KlDivergence_metrics == Comparison(OfBoth({"q_p", "p_q"}))
MaxError_metrics == Comparison(OfBoth({"max_error", "max_error_index"}))
Pearsons_metrics == Comparison(OfBoth({"r", "r2"}))
SpatialError_metrics == Comparison(OfBoth({"percent"}))
KsTest_metrics == Comparison(OfBoth({"pvalue", "d"}))
KthError_metrics == Comparison(OfBoth({"kth_error"}))
RegionOfInterest_metrics == Comparison(OddThrown(OfBoth({"input_average", "input_sum", "decomp_average", "decomp_sum"})))
Ssim_metrics == Comparison(OddThrown(FloatsOnly(OfBoth({"ssim"}))))
\* the statistics of the input are computed with the others
ErrorStat_metrics ==
  LET errors == OfBoth({"psnr", "mse", "rmse", "min_error", "max_error", "min_rel_error", "max_rel_error",
                        "min_pw_rel_error", "max_pw_rel_error", "average_difference", "average_error",
                        "difference_range", "error_range"})
      values == OfBoth({"value_mean", "value_std", "value_min", "value_max", "value_range", "n"})
  IN Metric("begin", "one", errors.names, <<errors, values>>)
\* these two keep the input when the compression has ended
Clipping_metrics == LET r == Preset(OfBoth({"clips"})) IN Metric("end", "one", r.names, <<r>>)
OutOfBounds_metrics == LET r == Unasked(Preset(OfBoth({"oob", "index"}))) IN Metric("end", "one", r.names, <<r>>)

DataGap_metrics == Metric("no", "one", {}, << OddRefused(AtEnd({"max_gap", "min_gap", "mean_gap"})) >>)
\* a slip: the configuration names none
Entropy_metrics_mut == Metric("no", "one", {}, << AtBegin({"input"}), OfOutput({"decompressed"}) >>)
Entropy_metrics == Metric("no", "one", {"decompressed"}, << AtBegin({"input"}), OfOutput({"decompressed"}) >>)
Gradlength_metrics ==
  LET rs == << Preset(AtBegin({"input"})), Preset(OfOutput({"decompressed"})) >> IN Metric("no", "one", Named(rs), rs)
InputStats_metrics ==
  LET rs == << Preset(AtEnd({"compress_input_dims", "compress_output_dims", "compress_input_types", "compress_output_types"})),
               Preset(OfOutput({"decompress_input_dims", "decompress_output_dims", "decompress_input_types",
                                "decompress_output_types"})) >>
  IN Metric("no", "any", Named(rs), rs)
Size_metrics ==
  Metric("no", "any", {"decompressed_size"},
         << Unasked(NoneRefused(AtEnd({"compressed_size", "uncompressed_size", "compression_ratio", "bit_rate"}))),
            Unasked(OfOutput({"decompressed_size"})) >>)
\* :diff has a value as soon as both norms have one, and is then of whatever they are of
SobolevP2_metrics ==
  LET rs == << FloatsOnly(AtBegin({"input"})), FloatsOnly(OfOutput({"decompressed"})) >> IN Metric("no", "one", Named(rs), rs)
\* the results are those of a command run on files of the kept inputs and the outputs
External_metrics == LET r == Unasked(Preset(OfBoth({"results"}))) IN Metric("begin", "several", r.names, <<r>>)
Noop_metrics == Metric("no", "one", {}, <<>>)

\* the two plugins that measure an operation from its beginning to its end; of their results those of the operations on data
Measured == {"check_options", "get_options", "get_configuration", "set_options", "compress", "decompress", "compress_many",
             "decompress_many"}
Measures(ops) == [op \in ops |-> Unasked(Result({op}, op, "clock"))]
Time_metrics == Metric("no", "own", {"decompress", "decompress_many"},
                       Measures({"compress", "decompress", "compress_many", "decompress_many"}))
Rusage_metrics == Metric("no", "own", {"decompress", "decompress_many"},
                         Measures({"compress", "decompress", "compress_many", "decompress_many"}))

\* plugins around others.  measures: it times them itself; mutes: it drops what their hooks return; passes: the hooks it hands
\* on, all of them or only those around the data
Wrap(measures, mutes, passes) == [measures |-> measures, mutes |-> mutes, passes |-> passes]
Alone == Wrap(FALSE, FALSE, "all")
Composite_hooks == Wrap(FALSE, TRUE, "all")
Time_hooks == Wrap(TRUE, TRUE, "all")
Historian_hooks == Wrap(FALSE, FALSE, "all")
Mask_hooks == Wrap(FALSE, TRUE, "data")
=============================================================================

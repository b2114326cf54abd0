---------------------------- MODULE MetricsOptions ----------------------------
(***************************************************************************)
(* The options of the metrics plugins that have any, in the order          *)
(* set_options reads them, and which of them their documentation names.    *)
(***************************************************************************)
EXTENDS PluginOptions, PluginNames

Autocorr_options == << Own("autocorr_lags") >>
Clipping_options == << Copy(":abs", "abs_bound"), Copy("abs", "abs_bound") >>
Composite_options == << Own("names") >> \o Meta("plugins") \o << Own("scripts") >>
DiffPdf_options == << Own("intervals") >>
\* the command is split into words and handed to the launcher, whose answer is not looked at
ExternalMetric_options ==
  Meta("launch_method") \o << Passed(Hide(Copy("command", ChildOf("launch_method")))) >> \o
  Owns(<<"suffix", "prefix", "fieldnames", "workdir", "config_name", "use_many", "write_inputs", "write_outputs">>) \o Meta("io_format")
Gradlength_options == Owns(<<"run_input", "run_decompressed">>)
\* the events are names, of which the unknown are ignored
Historian_options == Meta("metrics") \o << Own("idx"), Own("events") >>
KthError_options == << Checked(Own("k")) >>
Mask_options == Meta("metrics") \o << Own("mask") >>

\* get_options_impl shows the bound under the keys that are not its mode's, and pw_rel unless the mode is rel
OutOfBounds_options ==
  << Own("print_first_k"), Hide(Fixes(Copy(":abs", "bound"), [mode |-> 1])), Hide(Fixes(Copy(":rel", "bound"), [mode |-> 2])),
     Hide(Fixes(Copy(":pw_rel", "bound"), [mode |-> 3])) >> \o
  [i \in 1..6 |-> ShownWhile(ReadOnly(<<":abs", ":abs", ":rel", ":rel", ":pw_rel", ":pw_rel">>[i], "bound"),
                            [mode |-> <<2, 3, 1, 3, 1, 3>>[i]])]
RegionOfInterest_options == Owns(<<"start", "end">>)
Sobolev_options == Owns(<<"run_uncompressed", "run_decompressed", "order">>)
SpatialError_options == << Own("threshold") >>
Time_options == Meta("metric")
\* write_all is three options at once
WriteDebugInputs_options ==
  Meta("io") \o Owns(<<"base_path", "display_paths">>) \o
  [v \in 1..3 |-> Only({v - 1}, Hide(Fixes(Copy("write_all", "write_input"), [write_output |-> v - 1, write_compressed |-> v - 1])))] \o
  Owns(<<"write_output", "write_input", "write_compressed">>)

Autocorr_names == Names("multiple", {}, {}, {"autocorr_lags"})
Clipping_names == Names("multiple", {}, {}, {"abs", ":abs"})
Composite_names == Names("multiple", {}, {}, {"plugins", "names", "scripts"})
DiffPdf_names == Names("multiple", {}, {}, {"intervals"})
ExternalMetric_names == Names("multiple", {}, {}, {"launch_method", "io_format", "command", "suffix", "prefix",
    "fieldnames", "workdir", "config_name", "use_many", "write_inputs", "write_outputs"})
Gradlength_names == Names("multiple", {}, {}, {"run_input", "run_decompressed"})
Historian_names == Names("child", {}, {}, {"metrics", "idx", "events"})
KthError_names == Names("multiple", {}, {}, {"k"})
Mask_names == Names("multiple", {}, {}, {"metrics", "mask"})
OutOfBounds_names == Names("multiple", {}, {}, {"print_first_k"})
RegionOfInterest_names == Names("multiple", {}, {}, {"start", "end"})
Sobolev_names == Names("multiple", {}, {}, {"run_uncompressed", "run_decompressed", "order"})
SpatialError_names == Names("multiple", {}, {}, {"threshold"})
Time_names == Names("none", {}, {}, {"metric"})
WriteDebugInputs_names == Names("multiple", {}, {}, {"io", "base_path", "display_paths", "write_output",
    "write_input", "write_compressed", "write_all"})
=============================================================================

-------------------------- MODULE CompressorOptions --------------------------
(***************************************************************************)
(* The options of the compressor plugins, one table each, in the order     *)
(* set_options_impl reads them.  A key is written without its plugin's own *)
(* prefix; ":abs", ":rel", ":lossless", ":nthreads" and so on, with a      *)
(* leading colon, are the keys pressio:abs ... that plugins share.         *)
(***************************************************************************)
EXTENDS PluginOptions, SequencesExt

\* set_accuracy, set_precision, set_mode, set_rate and set_reversible write all four stream parameters; minexp 0
\* is the reversible mode.  execution 1 is serial, 2 is OpenMP; the CUDA and HIP policies are left out.  The second chain looks
\* for :lossless too, but as an unsigned number: an option of the type get_options shows is not found by it.
Zfp_options ==
  Else("bound", <<
    Fixes(Hide(Copy(":abs", "minexp")), [minbits |-> 1, maxbits |-> 1, maxprec |-> 1]),
    Fixes(Hide(Copy(":lossless", "minexp")), [minbits |-> 1, maxbits |-> 1, maxprec |-> 1, minexp |-> 0]) >>) \o
  Else("mode", <<
    Fixes(Hide(Copy("mode", "maxprec")), [minbits |-> 1, maxbits |-> 1, minexp |-> 1, rate |-> 0, wra |-> 0]),
    Fixes(Hide(Copy("precision", "maxprec")), [minbits |-> 1, maxbits |-> 1, minexp |-> 1, rate |-> 0, wra |-> 0]),
    Fixes(Hide(Copy("accuracy", "minexp")), [minbits |-> 1, maxbits |-> 1, maxprec |-> 1, rate |-> 0, wra |-> 0]),
    Beside(Fixes(Hide(Copy("rate", "maxbits")), [maxprec |-> 1, minexp |-> 1, rate |-> 0]), {"type", "dims", "wra"}),
    Beside(Fails("rate"), {"type"}), Beside(Fails("rate"), {"dims"}),
    IfSet(Own("rate")),
    Fixes(Hide(Copy("reversible", "minexp")), [minbits |-> 1, maxbits |-> 1, maxprec |-> 1, minexp |-> 0]) >>) \o
  << Beside(Without(IfSet(Own("wra")), {"type", "dims", "mode", "precision", "accuracy"}), {"rate"}),
     Deaf("type"), Deaf("dims") >> \o
  Each(LAMBDA k : Without(Fixes(Own(k), [rate |-> 0, wra |-> 0]), {"mode", "precision", "accuracy", "rate", "reversible"}),
       <<"minbits", "maxbits", "maxprec", "minexp">>) \o
  Else("execution", << Checked(Hide(Copy("execution_name", "execution"))), Passed(Own("execution")) >>) \o
  << Fixes(Copy(":nthreads", "threads"), [execution |-> 2]),
     While(Copy("omp_threads", "threads"), [execution |-> 2]), While(Own("omp_chunk_size"), [execution |-> 2]),
     ReadOnly("omp_threads", "threads"), ReadOnly("omp_chunk_size", "omp_chunk_size") >>
Zfp_start == [rate |-> 0, wra |-> 0, threads |-> 0, omp_chunk_size |-> 0]

\* error bound modes: 1 ABS, 2 REL, 3 PW_REL, 0 one of the others
SzParameters == <<"protect_value_range", "max_quant_intervals", "quantization_intervals", "sol_id", "lossless_compressor",
  "sample_distance", "pred_threshold", "sz_mode", "gzip_mode">>
SzBounds == <<"rel_err_bound", "psnr_err_bound", "pw_rel_err_bound", "segment_size", "snapshot_cmpr_step">>
SzExafel == <<"exafel:peaks_segs", "exafel:peaks_rows", "exafel:peaks_cols", "exafel:num_peaks", "exafel:calib_panel",
  "exafel:tolerance", "exafel:bin_size", "exafel:sz_dim", "exafel:peak_size">>
SzGeneric == << Picks(Copy(":abs", "abs_err_bound"), [error_bound_mode |-> 1]),
                Picks(Copy(":rel", "rel_err_bound"), [error_bound_mode |-> 2]) >>
SzLossless == << Picks(Copy(":lossless", "abs_err_bound"), [error_bound_mode |-> 1, abs_err_bound |-> 0]) >>
\* a whole configuration at once; its value is read as the error bound, the rest as the defaults
SzConfig(key) == Fixes(Hide(Copy(key, "abs_err_bound")),
  [p \in {"error_bound_mode", "prediction_mode", "accelerate_pw_rel_compression", "random_access"}
         \cup ToSet(SzParameters) \cup ToSet(SzBounds) |-> 1])
SzCommon ==
  Owns(SzParameters) \o
  Else("bound", << Passed(Hide(Copy("error_bound_mode_str", "error_bound_mode"))), Own("error_bound_mode") >>) \o
  << Own("abs_err_bound") >> \o Owns(SzBounds) \o
  << Hide(Own("prediction_mode")), Own("accelerate_pw_rel_compression"), Deaf("data_type"), Own("app"), Own("user_params") >> \o
  Owns(SzExafel) \o
  << While(Always([user_params |-> 3]), [app |-> 2]), Own("random_access") >>

Sz_options ==
  SzGeneric \o << Picks(Copy(":pw_rel", "pw_rel_err_bound"), [error_bound_mode |-> 3]) >> \o SzLossless \o
  Else("config", << SzConfig("config_file"), SzConfig("config_struct") >>) \o SzCommon
\* confparams_cpr belongs to the process: every sz object has the same parameters
Sz_shared == SlotsOf(Sz_options) \ ({"app", "user_params"} \cup ToSet(SzExafel))

SzThreadsafe_options == SzGeneric \o SzLossless \o << SzConfig("config_struct") >> \o SzCommon

\* zero threads are refused by both keys
Blosc_options ==
  << Copy(":lossless", "clevel"), Own("clevel"), Checked(Copy(":nthreads", "numinternalthreads")),
     Checked(Own("numinternalthreads")) >> \o Owns(<<"doshuffle", "blocksize", "compressor">>)
Blosc2_options ==
  << Copy(":lossless", "clevel"), Own("clevel"), Checked(Copy(":nthreads", "numinternalthreads")),
     Checked(Own("numinternalthreads")) >> \o Owns(<<"blocksize", "compressor">>)

\* a value out of range is recorded, and 0 returned
Bzip2_options ==
  << Own("verbosity"), Own("small"), Recorded(Copy(":lossless", "block_size_100k")), Recorded(Own("work_factor")),
     Recorded(Own("block_size_100k")) >>

\* a slip: pressio:lossless is shown whatever the precision
Fpzip_mut == << Own("has_header"), Own("prec"), Fixes(Copy(":lossless", "prec"), [prec |-> 0]) >>
\* prec 0 is lossless; the value given to pressio:lossless is not looked at
Fpzip_options == << Own("has_header"), Own("prec"), Picks(Copy(":lossless", "prec"), [prec |-> 0]) >>

\* get_options_impl lists ecc_options, set_options_impl reads ecc_choices
Arc_options == << Own("compressor") >> \o Owns(<<"memory_constraint", "throughput_constraint", "do_save">>) \o
  << Unlisted(Own("ecc_choices")), ReadOnly("ecc_options", "ecc_choices") >>

BitGrooming_options ==
  << Own("mode"), Passed(Hide(Copy("mode_str", "mode"))), Passed(Hide(Copy("error_control_mode_str", "error_control_mode"))),
     Own("error_control_mode"), Own("n_sig_digits"), Own("n_sig_decimals") >>

Cuszp_options == << Own(":abs") >> \o Else("mode", << Recorded(IfSet(Copy("mode_str", "mode"))), Own("mode") >>)

Cusz_options ==
  << Picks(Copy(":abs", "bound"), [mode_str |-> 1]), Picks(Copy(":rel", "bound"), [mode_str |-> 2]) >> \o
  Owns(<<"mode_str", "bound", "coarse_pardeg", "booklen", "radius", "max_outlier_percent", "device", "predictor">>) \o
  Stream(":cuda_stream") \o Stream("cuda_stream")

DigitRounding_options == << Own("prec") >>

\* pressio:nthreads selects the OpenMP variant, mode 2, unless fast_mode says otherwise
Szx_options ==
  << Picks(Copy(":abs", "abs_err_bound"), [err_bound_mode |-> 1]), Picks(Copy(":rel", "rel_bound_ratio"), [err_bound_mode |-> 2]),
     Fixes(Copy(":nthreads", "nthreads"), [fast_mode |-> 2]) >> \o
  Owns(<<"tolerance", "fixed_ratio", "nthreads", "fast_mode">>) \o
  << Checked(Hide(Copy("fast_mode_str", "fast_mode"))), Own("abs_err_bound"), Own("rel_bound_ratio"), Own("err_bound_mode"),
     Checked(Hide(Copy("err_bound_mode_str", "err_bound_mode"))) >>

\* one thread or several: openmp says which
Sz3_options ==
  << Picks(Copy(":abs", "abs_error_bound"), [error_bound_mode |-> 1]), Picks(Copy(":rel", "rel_error_bound"), [error_bound_mode |-> 2]),
     Fixes(Checked(Copy(":nthreads", "nthreads")), [openmp |-> 2]),
     Only({1}, Unlisted(Fixes(Copy(":nthreads", "nthreads"), [openmp |-> 0]))) >> \o
  Owns(<<"abs_error_bound", "rel_error_bound", "psnr_error_bound", "l2_norm_error_bound", "error_bound_mode", "algorithm",
         "lorenzo", "lorenzo2", "regression", "regression2", "openmp", "interp_algo", "interp_direction", "quant_bin_size">>) \o
  << Checked(Hide(Copy("error_bound_mode_str", "error_bound_mode"))), Checked(Hide(Copy("intrep_algo_str", "interp_algo"))),
     Checked(Hide(Copy("algorithm_str", "algorithm"))), ReadOnly("pred_dim", "pred_dim") >>

Qoz_options ==
  << Picks(Copy(":abs", "abs_error_bound"), [error_bound_mode |-> 1]), Picks(Copy(":rel", "rel_error_bound"), [error_bound_mode |-> 2]) >> \o
  Owns(<<"abs_error_bound", "rel_error_bound", "psnr_error_bound", "l2_norm_error_bound", "error_bound_mode", "algorithm",
         "lorenzo", "lorenzo2", "regression", "regression2", "openmp", "lossless", "encoder", "interp_block_size",
         "quant_bin_size", "stride", "pred_dim", "qoz_level", "maxstep", "test_lorenzo", "tuning_target">>) \o
  << Checked(Hide(Copy("error_bound_mode_str", "error_bound_mode"))), Checked(Hide(Copy("algorithm_str", "algorithm"))),
     Checked(Hide(Copy("tuning_target_str", "tuning_target"))) >>

\* the parameters are those of sz, written here without its lock
SzOmp_options ==
  << Picks(Copy(":abs", "abs_err_bound"), [error_bound_mode |-> 1]) >> \o
  Else("config", << SzConfig("config_file"), SzConfig("config_struct") >>) \o Owns(SzParameters) \o
  << Checked(Copy(":nthreads", "nthreads")), Checked(Own("nthreads")) >> \o
  Else("bound", << Passed(Hide(Copy("error_bound_mode_str", "error_bound_mode"))), Own("error_bound_mode") >>) \o
  Owns(<<"abs_err_bound", "segment_size", "snapshot_cmpr_step">>) \o
  << Hide(Own("prediction_mode")), Deaf("data_type"), Own("random_access") >>
SzOmp_shared == SlotsOf(SzOmp_options) \ {"nthreads"}

MgardMetric == [qoi_double_void |-> 2, qoi_float_void |-> 2, qoi_double |-> 0, qoi_float |-> 0]
\* tolerance and s may have no value; pressio:abs gives s the value infinity, here 2, and is shown while s has none
Mgard_options ==
  << ShownWhile(Fixes([Optional(":abs") EXCEPT !.slot = "tolerance"], [s |-> 2]), [s |-> 0]) >> \o
  Each(Optional, <<"tolerance", "s", "norm_of_qoi", "qoi_double", "qoi_float">>) \o
  << Fixes(Optional("qoi_double_void"), [qoi_double |-> 0]), Fixes(Optional("qoi_float_void"), [qoi_float |-> 0]),
     Own("qoi_metric_name"), Only({1}, IfSet(Fixes(Own("qoi_use_metric"), MgardMetric))),
     Without(While(Always(MgardMetric), [qoi_use_metric |-> 1]), {"qoi_use_metric"}) >>
Mgard_start == [x \in SlotsOf(Mgard_options) |-> 0]

\* s 0 is infinity; error_bound_type_str is read under a name that get_options_impl does not list
Mgard10_options ==
  << Picks(Copy(":abs", "tolerance"), [s |-> 0]), Own("s"), Own("tolerance"), Optional("coordinates"), Own("cuda:dev_id") >> \o
  Else("bound", << Checked(Unlisted(Copy("error_bound_type_str", "cuda:error_bound_type"))), Own("cuda:error_bound_type") >>) \o
  Else("lossless", << Checked(Hide(Copy("cuda:lossless_str", "cuda:lossless"))), Own("cuda:lossless") >>) \o
  << Own("cuda:timing"), Deaf("cuda:error_bound_type_str") >> \o
  Else("execution", << Checked(Hide(Copy("execution_mode_str", "execution_mode"))), Own("execution_mode") >>) \o
  Else("qoi", <<
    Hide(Copy("qoi_double", "caller_func")), Hide(Copy("qoi_float", "caller_func")),
    Beside(Hide(Copy("qoi_double_void", "caller_func")), {"qoi_data"}),
    Beside(Hide(Copy("qoi_float_void", "caller_func")), {"qoi_data"}),
    Unlisted(Deaf("qoi_data")), Beside(Hide(Copy("qoi_metric_name", "caller_func")), {"qoi_use_metric"}), Deaf("qoi_use_metric"),
    Unlisted(Fixes(Own("qoi_reset"), [caller_func |-> 0])) >>) \o
  Owns(<<"cuda:l_target", "cuda:huff_dict_size", "cuda:huff_block_size", "cuda:lz4_block_size", "cuda:uniform_coord_mode",
         "cuda:sync_and_check_all_kernels", "cuda:profile_kernels", "cuda:reduce_memory_footprint">>) \o
  << ReadOnly("norm_of_qoi", "norm_of_qoi") >>

\* names are looked up by find_string, which throws; bound_type 1 is ABS, dev_type 2 OPENMP
Mgard13_options ==
  << ShownWhile(Fixes(Copy(":abs", "tolerance"), [s |-> 0, error_bound_type |-> 1]), [s |-> 0, error_bound_type |-> 1]),
     Fixes(Checked(Copy(":nthreads", "nthreads")), [dev_type |-> 2]), Checked(Own("nthreads")),
     Own("dev_type"), Thrown(Copy("dev_type_str", "dev_type")), Own("dev_id"),
     Own("decomposition"), Thrown(Copy("decomposition_str", "decomposition")) >> \o
  Owns(<<"huff_dict_size", "huff_block_size", "lz4_block_size", "zstd_compress_level", "normalize_coordinates", "lossless_type">>) \o
  << Thrown(Copy("lossless_type_str", "lossless_type")) >> \o Owns(<<"reorder", "log_level", "s", "tolerance", "error_bound_type">>) \o
  << Thrown(Copy("error_bound_type_str", "error_bound_type")) >>

Mgardx_options == << Copy(":abs", "error_bound") >> \o Owns(<<"error_bound", "target_level", "use_sz">>)

Ndzip_options == << Own("executor"), [Own(":lossless") EXCEPT !.ok = {}] >>

\* error_mode 1 is ABS; fast_mode_str is written to the error bound mode
Szp_options ==
  << Own(":nthreads"), ShownWhile(Copy(":abs", "abs_bound"), [error_mode |-> 1]), ShownWhile(Copy(":rel", "rel_bound"), [error_mode |-> 2]) >> \o
  Owns(<<"abs_bound", "rel_bound", "error_mode", "fast_mode", "block_size">>) \o
  << Thrown(Copy("error_mode_str", "error_mode")), Thrown(Unlisted(Copy("fast_mode_str", "error_mode"))), ReadOnly("fast_mode_str", "fast_mode") >>

\* on_set_options runs the script, whose errors are exceptions; on_compress is never looked at
LambdaFn_options == Meta("compressor") \o << Own("script"), Own("on_set_options"), Own("on_compress"),
  While([Always(Nothing) EXCEPT !.ok = {}, !.bad = "throw"], [on_set_options |-> 1, script |-> 0]) >>

\* the options of the program are those of the last call alone
External_options ==
  << Own("program"), Without(Always([program |-> 0]), {"program"}) >> \o Meta("launch") \o Meta("uncompressed_io") \o
  Owns(<<"uncompressed_feild_names", "uncompressed_prefixes", "uncompressed_suffixes", "uncompressed_do_write">>) \o
  Meta("compressed_io") \o
  Owns(<<"compressed_feild_names", "compressed_prefixes", "compressed_suffixes", "compressed_do_write">>)

SzAuto_options == << Copy(":abs", "error_bounds"), Own("error_bounds"), Own("sample_ratio") >>

PwRel_options == Meta("abs_comp") \o Meta("sign_comp") \o << Own(":pw_rel") >>
Binning_options == Meta("compressor") \o << Own("shape"), Checked(Copy(":nthreads", "nthreads")), Checked(Own("nthreads")) >>
\* a mask of another type is cast as it is stored
MaskBinning_options == Binning_options \o << Own("mask") >>
\* a slip: auto_step is never read
LinearQuantizer_mut == Meta("compressor") \o << Copy(":abs", "step"), Own("step"), ReadOnly("auto_step", "auto_step") >>
LinearQuantizer_options == Meta("compressor") \o << Copy(":abs", "step"), Own("step"), Own("auto_step") >>
\* an unknown mask_mode is recorded, and the mode kept
MaskInterpolation_options == Meta("compressor") \o
  << Passed(Copy(":nthreads", "nthreads")), Passed(Own("nthreads")), Own("mask"), Own("fill"), Recorded(Own("mask_mode")) >>
RemoveBackground_options == << Own("background") >> \o Meta("compressor")
DeltaEncoding_options == Meta("compressor")
LogTransform_options == Meta("compressor")
ThresholdSmall_options == << Own("threshold") >> \o Meta("compressor")
Cast_options == Owns(<<"dtype", "decompress_dtype", "restore_type">>) \o Meta("compressor")
\* get_options_impl starts from all that the compressor shows under its own name
Transpose_options == Meta("compressor") \o << Own("axis") >>
\* a slip: shown under one name, read under another
Resize_mut == Meta("compressor") \o << Unlisted(Own("dims")), ReadOnly("compressed_dims", "dims"), Own("decompressed_dims") >>
Resize_options == Meta("compressor") \o Owns(<<"compressed_dims", "decompressed_dims">>)
Repeat_options == Meta("compressor") \o Owns(<<"count", "clone_output">>)
Sampling_options == Owns(<<"mode", "seed", "rate">>)
Switch_options == << Own("names") >> \o Meta("compressors") \o << Own("active_id"), Hide(Own("clear_invocations")) >>
Manifest_options == Meta("compressor") \o Owns(<<"lineage", "record_lineage_on_decompress">>)
\* an unknown strategy is passed over; the locations are cast when the strategy is given, or when they are not
Roibin_options == Meta("roi") \o Meta("background") \o
  << Passed(Own("roi_strategy")), Own("centers"), Own("roi_size"), Checked(Copy(":nthreads", "nthreads")), Checked(Own("nthreads")) >>

Noop_options == << >>
Chunking_options == Meta("compressor") \o << Checked(Copy(":nthreads", "nthreads")), Own("size"), Copy("chunk_nthreads", "nthreads") >>
\* the names are read first, and not shown
Pipeline_options == << Unlisted(Own("names")) >> \o Meta("pipeline")
CudaDeviceSelector_options == Meta("compressor") \o << Own("device") >>
Magick_options == Owns(<<"samples_magick", "compressed_magick", "quality">>)

\* mode 0 passes bounds through, 1 is abs, 2 rel, which compressor 1 supports and 2 does not; bound_name may have no
\* value, 0, be an option of the compressor, 1, or not, 2
Pressio_options ==
  << Optional("bound_name") >> \o Meta("compressor") \o
  << ShownWhile(While(Fixes(Copy("bound", ChildOf("compressor")), [mode |-> 0]), [bound_name |-> 1]), [bound_name |-> 1]),
     While(Fails("bound"), [bound_name |-> 2]),
     Only({2}, Hide(Fixes(Copy("reset_mode", ""), [mode |-> 0]))), Only({0, 1}, Hide(Copy("reset_mode", ""))),
     While(ShownWhile(Fixes(Copy(":abs", "target"), [mode |-> 1]), [mode |-> 1, compressor |-> 1]), [compressor |-> 1]),
     While(ShownWhile(Fixes(Copy(":rel", "target"), [mode |-> 2]), [mode |-> 2, compressor |-> 1]), [compressor |-> 1]) >>
Pressio_start == [bound_name |-> 0, mode |-> 0]

\* the keys of the distributed manager are in DistributedManager
Subgroups_options == Owns(<<"input_data_groups", "output_data_groups">>)
ManyIndependent_options == Meta("compressor") \o << Own("bcast_outputs") >> \o Subgroups_options
ManyDependent_options == Meta("compressor") \o Subgroups_options \o Owns(<<"to_names", "from_names">>)
\* one compressor may be given instead of the list; the list shows it
ManyThreaded_options ==
  Meta("compressors") \o
  << Only({1}, Hide(While(Fixes(Copy("compressor", "compressors"), [c \in {ChildOf("compressors")} |-> 1]), [compressors |-> 2]))),
     Only({2}, Hide(While(Fixes(Copy("compressor", "compressors"), [c \in {ChildOf("compressors")} |-> 1]), [compressors |-> 1]))) >> \o
  Subgroups_options \o << Checked(Copy(":nthreads", "nthreads")), Checked(Own("nthreads")) >> \o
  Owns(<<"collect_metrics_on_compression", "collect_metrics_on_decompression", "preserve_metrics">>)
=============================================================================

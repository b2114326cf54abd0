----------------------------- MODULE PluginNames -----------------------------
(***************************************************************************)
(* What get_configuration_impl and get_documentation_impl of the           *)
(* plugins say: how far a compressor states to be thread safe              *)
(* ("child" for a statement taken from its child), and which options it    *)
(* names, without its own prefix, as there "pressio:" is a colon.  What    *)
(* only reports on the build or the last call is left out.                 *)
(***************************************************************************)
EXTENDS Naturals, Sequences, FiniteSets

\* options named as ones that change results and described; only the one; only the other
Names(safety, both, declared, described) ==
  [safety |-> safety, declared |-> both \cup declared, described |-> both \cup described]

Zfp_names == Names("multiple", {"minbits", "maxbits", "maxprec", "minexp", "precision", "accuracy", "wra", "rate",
    "type", "dims", "mode", "reversible", "execution", "execution_name", "omp_threads", "omp_chunk_size"}, {":abs",
    ":lossless", ":nthreads"}, {})
Sz_names == Names("serialized", {"protect_value_range", "max_quant_intervals", "quantization_intervals", "sol_id",
    "lossless_compressor", "sample_distance", "pred_threshold", "sz_mode", "gzip_mode", "abs_err_bound",
    "rel_err_bound", "psnr_err_bound", "pw_rel_err_bound", "segment_size", "snapshot_cmpr_step", "prediction_mode",
    "accelerate_pw_rel_compression", "data_type", "app", "user_params", "config_file", "config_struct",
    "error_bound_mode_str", "error_bound_mode", "exafel:tolerance", "exafel:peaks_segs", "exafel:peaks_rows",
    "exafel:peaks_cols", "exafel:num_peaks", "exafel:calib_panel", "exafel:bin_size", "exafel:sz_dim",
    "exafel:peak_size"}, {":abs", ":rel", ":pw_rel", ":lossless"}, {"random_access"})
SzThreadsafe_names == Names("multiple", {"protect_value_range", "max_quant_intervals", "quantization_intervals",
    "sol_id", "lossless_compressor", "sample_distance", "pred_threshold", "sz_mode", "gzip_mode", "abs_err_bound",
    "rel_err_bound", "psnr_err_bound", "pw_rel_err_bound", "segment_size", "snapshot_cmpr_step", "prediction_mode",
    "accelerate_pw_rel_compression", "data_type", "app", "user_params", "config_struct", "error_bound_mode_str",
    "error_bound_mode", "exafel:tolerance", "exafel:peaks_segs", "exafel:peaks_rows", "exafel:peaks_cols",
    "exafel:num_peaks", "exafel:calib_panel", "exafel:bin_size", "exafel:sz_dim", "exafel:peak_size"}, {":abs",
    ":rel", ":lossless"}, {"random_access"})
Blosc_names == Names("multiple", {"clevel", "doshuffle", "blocksize", "compressor", "numinternalthreads"},
    {":lossless", ":nthreads"}, {})
Blosc2_names == Names("multiple", {"clevel", "blocksize", "compressor", "numinternalthreads"}, {":lossless",
    ":nthreads"}, {})
Bzip2_names == Names("multiple", {"verbosity", "small", "work_factor", "block_size_100k"}, {":lossless"}, {})
Fpzip_names == Names("multiple", {"prec", "has_header"}, {":lossless"}, {})
Arc_names == Names("child", {"memory_constraint", "throughput_constraint", "ecc_options"}, {}, {"compressor",
    "do_save"})
BitGrooming_names == Names("multiple", {"mode", "mode_str", "error_control_mode", "n_sig_digits", "n_sig_decimals"},
    {}, {"error_control_mode_str"})
Cuszp_names == Names("multiple", {"mode_str", "mode"}, {":abs"}, {})
Cusz_names == Names("multiple", {"mode_str", "bound", "radius", "max_outlier_percent", "predictor", "coarse_pardeg",
    "booklen", "device"}, {":abs", ":rel"}, {"cuda_stream", ":cuda_stream"})
DigitRounding_names == Names("multiple", {"prec"}, {}, {})
Szx_names == Names("multiple", {"tolerance", "fixed_ratio", "fast_mode", "fast_mode_str", "abs_err_bound",
    "rel_bound_ratio", "err_bound_mode", "err_bound_mode_str", "nthreads"}, {":abs", ":rel", ":nthreads"}, {})
Sz3_names == Names("multiple", {"abs_error_bound", "rel_error_bound", "psnr_error_bound", "l2_norm_error_bound",
    "error_bound_mode", "algorithm", "lorenzo", "lorenzo2", "regression", "regression2", "openmp", "lossless",
    "encoder", "interp_algo", "interp_direction", "interp_block_size", "quant_bin_size", "stride", "pred_dim",
    "error_bound_mode_str", "intrep_algo_str", "algorithm_str"}, {":abs", ":rel", ":nthreads"}, {})
Qoz_names == Names("multiple", {"abs_error_bound", "rel_error_bound", "psnr_error_bound", "l2_norm_error_bound",
    "error_bound_mode", "algorithm", "lorenzo", "lorenzo2", "regression", "regression2", "openmp", "lossless",
    "encoder", "interp_block_size", "quant_bin_size", "stride", "pred_dim", "maxstep", "test_lorenzo",
    "tuning_target", "error_bound_mode_str", "algorithm_str", "tuning_target_str"}, {"interp_algo",
    "interp_direction", "use_qoz", ":abs", ":rel", "intrep_algo_str"}, {"qoz_level"})
SzOmp_names == Names("serialized", {"protect_value_range", "max_quant_intervals", "quantization_intervals", "sol_id",
    "lossless_compressor", "sample_distance", "pred_threshold", "sz_mode", "gzip_mode", "abs_err_bound",
    "segment_size", "snapshot_cmpr_step", "prediction_mode", "data_type", "config_file", "config_struct", "nthreads",
    "error_bound_mode_str", "error_bound_mode"}, {":abs", ":nthreads"}, {"random_access", "user_params"})
Mgard_names == Names("single", {}, {}, {"tolerance", "s", "norm_of_qoi", "qoi_double", "qoi_float", "qoi_double_void",
    "qoi_float_void", "qoi_use_metric", "qoi_metric_name"})
Mgard10_names == Names("single", {}, {}, {"s", "tolerance", "coordinates", "norm_of_qoi", "qoi_double", "qoi_float",
    "qoi_double_void", "qoi_float_void", "qoi_use_metric", "qoi_metric_name", "execution_mode", "execution_mode_str",
    "cuda:dev_id", "cuda:timing", "cuda:lossless", "cuda:lossless_str", "cuda:error_bound_type",
    "cuda:error_bound_type_str", "cuda:l_target", "cuda:huff_dict_size", "cuda:huff_block_size",
    "cuda:lz4_block_size", "cuda:uniform_coord_mode", "cuda:sync_and_check_all_kernels", "cuda:profile_kernels",
    "cuda:reduce_memory_footprint"})
Mgard13_names == Names("multiple", {"huff_dict_size", "huff_block_size", "lz4_block_size", "zstd_compress_level",
    "normalize_coordinates", "reorder", "log_level", "s", "tolerance", "decomposition", "decomposition_str",
    "lossless_type", "lossless_type_str", "error_bound_type", "error_bound_type_str", "dev_id", "nthreads",
    "dev_type", "dev_type_str"}, {":abs", ":nthreads"}, {})
Mgardx_names == Names("multiple", {}, {}, {"error_bound", "target_level", "use_sz"})
Ndzip_names == Names("multiple", {"executor"}, {":lossless"}, {})
Szp_names == Names("multiple", {}, {}, {"abs_bound", "rel_bound", "error_mode", "fast_mode", "error_mode_str",
    "fast_mode_str", "block_size"})
LambdaFn_names == Names("multiple", {"script", "on_set_options", "on_compress"}, {}, {"compressor"})
External_names == Names("multiple", {}, {}, {"launch", "uncompressed_io", "uncompressed_feild_names",
    "uncompressed_prefixes", "uncompressed_suffixes", "uncompressed_do_write", "compressed_io",
    "compressed_feild_names", "compressed_prefixes", "compressed_suffixes", "compressed_do_write"})
SzAuto_names == Names("multiple", {}, {}, {"error_bounds", "sample_ratio"})
PwRel_names == Names("child", {}, {":pw_rel"}, {"abs_comp", "sign_comp"})
Binning_names == Names("multiple", {"shape", "nthreads"}, {":nthreads"}, {"compressor"})
MaskBinning_names == Names("multiple", {"shape", "mask", "nthreads"}, {":nthreads"}, {"compressor"})
LinearQuantizer_names == Names("child", {"step", "auto_step"}, {":abs"}, {"compressor"})
MaskInterpolation_names == Names("child", {"mask", "fill", "nthreads", "mask_mode"}, {":nthreads"}, {"compressor"})
RemoveBackground_names == Names("multiple", {"background"}, {}, {"compressor"})
DeltaEncoding_names == Names("child", {}, {}, {"compressor"})
LogTransform_names == Names("child", {}, {}, {"compressor"})
ThresholdSmall_names == Names("multiple", {"threshold"}, {}, {"compressor"})
Cast_names == Names("multiple", {}, {}, {"compressor", "dtype", "decompress_dtype", "restore_type"})
Transpose_names == Names("multiple", {"axis"}, {}, {"compressor"})
Resize_names == Names("multiple", {"compressed_dims", "decompressed_dims"}, {}, {"compressor"})
Repeat_names == Names("child", {"count", "clone_output"}, {}, {"compressor"})
Sampling_names == Names("multiple", {"mode", "seed", "rate"}, {}, {})
Switch_names == Names("child", {"names", "active_id", "clear_invocations"}, {}, {"compressors"})
Manifest_names == Names("child", {"lineage", "record_lineage_on_decompress"}, {}, {"compressor"})
Roibin_names == Names("multiple", {"roi_size", "roi_strategy", "centers", "nthreads"}, {":nthreads"}, {"roi",
    "background"})
Noop_names == Names("multiple", {}, {}, {})
Chunking_names == Names("child", {"chunk_nthreads", "size"}, {":nthreads"}, {"compressor"})
Pipeline_names == Names("multiple", {}, {}, {"pipeline", "names"})
\* and :abs and :rel, if the compressor has them
Pressio_names == Names("child", {"bound_name", "reset_mode"}, {}, {"compressor", "bound"})
CudaDeviceSelector_names == Names("child", {"device"}, {}, {"compressor"})
Magick_names == Names("multiple", {"samples_magick", "compressed_magick", "quality"}, {}, {})
ManyIndependent_names == Names("multiple", {"bcast_outputs"}, {}, {"compressor", "input_data_groups", "output_data_groups"})
ManyDependent_names == Names("multiple", {"to_names", "from_names"}, {}, {"compressor", "input_data_groups",
    "output_data_groups"})
ManyThreaded_names == Names("multiple", {"nthreads", "collect_metrics_on_compression",
    "collect_metrics_on_decompression", "preserve_metrics"}, {":nthreads"}, {"compressors", "compressor",
    "input_data_groups", "output_data_groups"})
=============================================================================

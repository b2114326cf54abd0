---------------------------- MODULE MCPluginSettings ----------------------------
(***************************************************************************)
(* Every compressor, io and metrics plugin, and what each of them is known to do other     *)
(* than the properties ask.                                                *)
(***************************************************************************)
EXTENDS PluginSettings, CompressorOptions, PluginNames, IOOptions, MetricsOptions

CompressorTables == [
  Zfp |-> Zfp_options, Sz |-> Sz_options, SzThreadsafe |-> SzThreadsafe_options, Blosc |-> Blosc_options,
  Blosc2 |-> Blosc2_options, Bzip2 |-> Bzip2_options, Fpzip |-> Fpzip_options, Arc |-> Arc_options,
  BitGrooming |-> BitGrooming_options, Cuszp |-> Cuszp_options, Cusz |-> Cusz_options,
  DigitRounding |-> DigitRounding_options, Szx |-> Szx_options, Sz3 |-> Sz3_options, Qoz |-> Qoz_options,
  SzOmp |-> SzOmp_options, Mgard |-> Mgard_options, Mgard10 |-> Mgard10_options, Mgard13 |-> Mgard13_options,
  Mgardx |-> Mgardx_options, Ndzip |-> Ndzip_options, Szp |-> Szp_options, LambdaFn |-> LambdaFn_options,
  External |-> External_options, SzAuto |-> SzAuto_options, PwRel |-> PwRel_options, Binning |-> Binning_options,
  MaskBinning |-> MaskBinning_options, LinearQuantizer |-> LinearQuantizer_options,
  MaskInterpolation |-> MaskInterpolation_options, RemoveBackground |-> RemoveBackground_options,
  DeltaEncoding |-> DeltaEncoding_options, LogTransform |-> LogTransform_options,
  ThresholdSmall |-> ThresholdSmall_options, Cast |-> Cast_options, Transpose |-> Transpose_options,
  Resize |-> Resize_options, Repeat |-> Repeat_options, Sampling |-> Sampling_options, Switch |-> Switch_options,
  Manifest |-> Manifest_options, Roibin |-> Roibin_options, Noop |-> Noop_options, Chunking |-> Chunking_options,
  Pipeline |-> Pipeline_options, Pressio |-> Pressio_options, CudaDeviceSelector |-> CudaDeviceSelector_options,
  Magick |-> Magick_options, ManyIndependent |-> ManyIndependent_options, ManyDependent |-> ManyDependent_options,
  ManyThreaded |-> ManyThreaded_options ]
CompressorNames == [
  Zfp |-> Zfp_names, Sz |-> Sz_names, SzThreadsafe |-> SzThreadsafe_names, Blosc |-> Blosc_names,
  Blosc2 |-> Blosc2_names, Bzip2 |-> Bzip2_names, Fpzip |-> Fpzip_names, Arc |-> Arc_names,
  BitGrooming |-> BitGrooming_names, Cuszp |-> Cuszp_names, Cusz |-> Cusz_names,
  DigitRounding |-> DigitRounding_names, Szx |-> Szx_names, Sz3 |-> Sz3_names, Qoz |-> Qoz_names,
  SzOmp |-> SzOmp_names, Mgard |-> Mgard_names, Mgard10 |-> Mgard10_names, Mgard13 |-> Mgard13_names,
  Mgardx |-> Mgardx_names, Ndzip |-> Ndzip_names, Szp |-> Szp_names, LambdaFn |-> LambdaFn_names,
  External |-> External_names, SzAuto |-> SzAuto_names, PwRel |-> PwRel_names, Binning |-> Binning_names,
  MaskBinning |-> MaskBinning_names, LinearQuantizer |-> LinearQuantizer_names,
  MaskInterpolation |-> MaskInterpolation_names, RemoveBackground |-> RemoveBackground_names,
  DeltaEncoding |-> DeltaEncoding_names, LogTransform |-> LogTransform_names, ThresholdSmall |-> ThresholdSmall_names,
  Cast |-> Cast_names, Transpose |-> Transpose_names, Resize |-> Resize_names, Repeat |-> Repeat_names,
  Sampling |-> Sampling_names, Switch |-> Switch_names, Manifest |-> Manifest_names, Roibin |-> Roibin_names,
  Noop |-> Noop_names, Chunking |-> Chunking_names, Pipeline |-> Pipeline_names, Pressio |-> Pressio_names,
  CudaDeviceSelector |-> CudaDeviceSelector_names, Magick |-> Magick_names, ManyIndependent |-> ManyIndependent_names,
  ManyDependent |-> ManyDependent_names, ManyThreaded |-> ManyThreaded_names ]
IOTables == [
  Posix |-> Posix_options, Mmap |-> Mmap_options, Hdf5 |-> Hdf5_options, Numpy |-> Numpy_options,
  Netcdf |-> Netcdf_options, Matio |-> Matio_options, Grib |-> Grib_options, Cufile |-> Cufile_options,
  Csv |-> Csv_options, Petsc |-> Petsc_options, EmptyIo |-> EmptyIo_options, Iota |-> Iota_options,
  NoopIo |-> NoopIo_options, ByExtension |-> ByExtension_options, Select |-> Select_options,
  CopyTemplate |-> CopyTemplate_options ]
IONames == [
  Posix |-> Posix_names, Mmap |-> Mmap_names, Hdf5 |-> Hdf5_names, Numpy |-> Numpy_names, Netcdf |-> Netcdf_names,
  Matio |-> Matio_names, Grib |-> Grib_names, Cufile |-> Cufile_names, Csv |-> Csv_names, Petsc |-> Petsc_names,
  EmptyIo |-> EmptyIo_names, Iota |-> Iota_names, NoopIo |-> NoopIo_names, ByExtension |-> ByExtension_names,
  Select |-> Select_names, CopyTemplate |-> CopyTemplate_names ]
MetricsTables == [
  Autocorr |-> Autocorr_options, Clipping |-> Clipping_options, Composite |-> Composite_options,
  DiffPdf |-> DiffPdf_options, ExternalMetric |-> ExternalMetric_options, Gradlength |-> Gradlength_options,
  Historian |-> Historian_options, KthError |-> KthError_options, Mask |-> Mask_options,
  OutOfBounds |-> OutOfBounds_options, RegionOfInterest |-> RegionOfInterest_options, Sobolev |-> Sobolev_options,
  SpatialError |-> SpatialError_options, Time |-> Time_options, WriteDebugInputs |-> WriteDebugInputs_options ]
MetricsNames == [
  Autocorr |-> Autocorr_names, Clipping |-> Clipping_names, Composite |-> Composite_names, DiffPdf |-> DiffPdf_names,
  ExternalMetric |-> ExternalMetric_names, Gradlength |-> Gradlength_names, Historian |-> Historian_names,
  KthError |-> KthError_names, Mask |-> Mask_names, OutOfBounds |-> OutOfBounds_names,
  RegionOfInterest |-> RegionOfInterest_names, Sobolev |-> Sobolev_names, SpatialError |-> SpatialError_names,
  Time |-> Time_names, WriteDebugInputs |-> WriteDebugInputs_names ]

AllTables == CompressorTables @@ IOTables @@ MetricsTables
AllNames == CompressorNames @@ IONames @@ MetricsNames
AllStarts == [Zfp |-> Zfp_start, Mgard |-> Mgard_start, Pressio |-> Pressio_start, ByExtension |-> ByExtension_start,
              Posix |-> NoFile, Mmap |-> NoFile]

\* f for the plugins it is about, nothing for the others
Else0(f) == [p \in DOMAIN AllTables |-> IF p \in DOMAIN f THEN f[p] ELSE {}]

\* read under another name, read as another type, or read only beside another option
UnreadOptions == Else0([
  Arc |-> {"ecc_options"}, ByExtension |-> {"keys", "values"},
  Mgard |-> {"qoi_use_metric", "qoi_double", "qoi_double_void", "qoi_float", "qoi_float_void"},
  Mgard10 |-> {"cuda:error_bound_type_str", "norm_of_qoi", "qoi_double_void", "qoi_float_void", "qoi_metric_name", "qoi_use_metric"},
  Ndzip |-> {":lossless"}, Pressio |-> {"bound"},
  Qoz |-> {"interp_algo", "interp_direction", "intrep_algo_str", "use_qoz"},
  Sz |-> {"data_type"}, SzThreadsafe |-> {"data_type"}, SzOmp |-> {"data_type", "user_params"},
  Sz3 |-> {"encoder", "interp_block_size", "lossless", "stride", "pred_dim"},
  Zfp |-> {"type", "dims", "wra", "omp_threads", "omp_chunk_size"}])
\* every child's name, and the options the child itself refuses
Children(p) == {k \in KeysOf(AllTables[p]) : ChildOf(k) \in KeysOf(AllTables[p])}
PassedOverOptions == [p \in DOMAIN AllTables |->
  UnreadOptions[p] \cup Children(p) \cup {ChildOf(k) : k \in Children(p)} \cup Else0([
    BitGrooming |-> {"mode_str", "error_control_mode_str"}, Csv |-> {"line_delim", "field_delim"}, Cusz |-> {":cuda_stream", "cuda_stream"}, ExternalMetric |-> {"command"},
    ManyThreaded |-> {"compressor"}, MaskInterpolation |-> {":nthreads", "nthreads"}, Roibin |-> {"roi_strategy"},
    Sz |-> {"error_bound_mode_str"}, SzThreadsafe |-> {"error_bound_mode_str"}, SzOmp |-> {"error_bound_mode_str"},
    Zfp |-> {"execution"}])[p]]
\* shown under one key, and written by another that is shown as well
MgardQuantities == {"qoi_double", "qoi_double_void", "qoi_float", "qoi_float_void"}
DriftingSettings == Else0([
  Cusz |-> {"stream"}, Hdf5 |-> {"file_start"}, Mgard |-> {"s"} \cup MgardQuantities, OutOfBounds |-> {"mode"}, Szp |-> {"error_mode"}, Zfp |-> {"execution", "wra"}])
LeftOptions == Else0([
  Arc |-> {"ecc_options"}, Mgard |-> {"s", ":abs"} \cup MgardQuantities, Sz |-> {"user_params"}, SzThreadsafe |-> {"user_params"},
  OutOfBounds |-> {":abs", ":rel", ":pw_rel"}, Szp |-> {"error_mode", ":abs", ":rel", "error_mode_str"},
  Zfp |-> {"execution", "maxbits", "maxprec", "minbits", "minexp", "wra"}])
=============================================================================

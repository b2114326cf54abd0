---------------------------- MODULE MCPluginCalls ----------------------------
(***************************************************************************)
(* The calls of the compressor and io plugins, and what each of them is    *)
(* known to do other than the properties ask.                              *)
(***************************************************************************)
EXTENDS PluginCalls, CompressorCalls, IOCalls, TLC

CompressorCallTables == [
  Zfp_compress |-> Zfp_compress, Zfp_decompress |-> Zfp_decompress, Sz_compress |-> Sz_compress,
  Sz_decompress |-> Sz_decompress, SzThreadsafe_compress |-> SzThreadsafe_compress,
  Blosc_compress |-> Blosc_compress, Blosc_decompress |-> Blosc_decompress, Blosc2_compress |-> Blosc2_compress,
  Blosc2_decompress |-> Blosc2_decompress, Bzip2_compress |-> Bzip2_compress, Bzip2_decompress |-> Bzip2_decompress,
  Fpzip_compress |-> Fpzip_compress, Fpzip_decompress |-> Fpzip_decompress, Arc_compress |-> Arc_compress,
  Arc_decompress |-> Arc_decompress, BitGrooming_compress |-> BitGrooming_compress,
  BitGrooming_decompress |-> BitGrooming_decompress, Cuszp_compress |-> Cuszp_compress,
  Cuszp_decompress |-> Cuszp_decompress, Cusz_compress |-> Cusz_compress, Cusz_decompress |-> Cusz_decompress,
  DigitRounding_compress |-> DigitRounding_compress, DigitRounding_decompress |-> DigitRounding_decompress,
  Szx_compress |-> Szx_compress, Szx_decompress |-> Szx_decompress, Sz3_compress |-> Sz3_compress,
  Sz3_decompress |-> Sz3_decompress, Qoz_compress |-> Qoz_compress, Qoz_decompress |-> Qoz_decompress,
  SzOmp_compress |-> SzOmp_compress, SzOmp_decompress |-> SzOmp_decompress, Mgard_compress |-> Mgard_compress,
  Mgard_decompress |-> Mgard_decompress, Mgard10_compress |-> Mgard10_compress,
  Mgard10_decompress |-> Mgard10_decompress, Mgard13_compress |-> Mgard13_compress,
  Mgard13_decompress |-> Mgard13_decompress, Mgardx_compress |-> Mgardx_compress,
  Mgardx_decompress |-> Mgardx_decompress, Ndzip_compress |-> Ndzip_compress, Ndzip_decompress |-> Ndzip_decompress,
  Szp_compress |-> Szp_compress, Szp_decompress |-> Szp_decompress, LambdaFn_compress |-> LambdaFn_compress,
  External_compress |-> External_compress, Noop_compress |-> Noop_compress, Noop_decompress |-> Noop_decompress,
  SzAuto_compress |-> SzAuto_compress, SzAuto_decompress |-> SzAuto_decompress, PwRel_compress |-> PwRel_compress,
  PwRel_decompress |-> PwRel_decompress, Binning_compress |-> Binning_compress,
  Binning_decompress |-> Binning_decompress, LinearQuantizer_compress |-> LinearQuantizer_compress,
  LinearQuantizer_decompress |-> LinearQuantizer_decompress,
  MaskInterpolation_compress |-> MaskInterpolation_compress,
  MaskInterpolation_decompress |-> MaskInterpolation_decompress,
  RemoveBackground_compress |-> RemoveBackground_compress,
  RemoveBackground_decompress |-> RemoveBackground_decompress, DeltaEncoding_compress |-> DeltaEncoding_compress,
  DeltaEncoding_decompress |-> DeltaEncoding_decompress, LogTransform_compress |-> LogTransform_compress,
  LogTransform_decompress |-> LogTransform_decompress, ThresholdSmall_compress |-> ThresholdSmall_compress,
  ThresholdSmall_decompress |-> ThresholdSmall_decompress, Cast_compress |-> Cast_compress,
  Cast_decompress |-> Cast_decompress, Transpose_compress |-> Transpose_compress,
  Transpose_decompress |-> Transpose_decompress, Resize_compress |-> Resize_compress,
  Resize_decompress |-> Resize_decompress, Repeat_compress |-> Repeat_compress,
  Sampling_compress |-> Sampling_compress, Sampling_decompress |-> Sampling_decompress,
  Switch_compress |-> Switch_compress, Switch_decompress |-> Switch_decompress,
  Manifest_compress |-> Manifest_compress, Manifest_decompress |-> Manifest_decompress,
  Roibin_compress |-> Roibin_compress, Roibin_decompress |-> Roibin_decompress,
  Chunking_compress |-> Chunking_compress, Chunking_decompress |-> Chunking_decompress,
  Pipeline_compress |-> Pipeline_compress, Pipeline_decompress |-> Pipeline_decompress,
  Pressio_compress |-> Pressio_compress, Pressio_decompress |-> Pressio_decompress,
  CudaDeviceSelector_compress |-> CudaDeviceSelector_compress, Magick_compress |-> Magick_compress,
  Magick_decompress |-> Magick_decompress ]
IOCallTables == [
  Posix_read |-> Posix_read, Posix_write |-> Posix_write, Mmap_read |-> Mmap_read, Mmap_write |-> Mmap_write,
  Hdf5_read |-> Hdf5_read, Hdf5_write |-> Hdf5_write, Numpy_read |-> Numpy_read, Numpy_write |-> Numpy_write,
  Netcdf_read |-> Netcdf_read, Netcdf_write |-> Netcdf_write, Matio_read |-> Matio_read, Matio_write |-> Matio_write,
  Grib_read |-> Grib_read, Grib_write |-> Grib_write, Cufile_read |-> Cufile_read, Cufile_write |-> Cufile_write,
  Csv_read |-> Csv_read, Csv_write |-> Csv_write, Petsc_read |-> Petsc_read, Petsc_write |-> Petsc_write,
  ByExtension_read |-> ByExtension_read, ByExtension_write |-> ByExtension_write,
  CopyTemplate_read |-> CopyTemplate_read, CopyTemplate_write |-> CopyTemplate_write, Select_read |-> Select_read,
  Select_write |-> Select_write, EmptyIo_read |-> EmptyIo_read, Iota_read |-> Iota_read, Iota_write |-> Iota_write,
  NoopIo_read |-> NoopIo_read ]
AllCalls == CompressorCallTables @@ IOCallTables

\* f for the calls it is about, nothing for the others
Else0(f) == [c \in DOMAIN AllCalls |-> IF c \in DOMAIN f THEN f[c] ELSE {}]
\* an early return, or an exception, before the release
KeptResources == Else0([
  Cusz_compress |-> {"compressor"}, Cuszp_compress |-> {"stream"}, Cuszp_decompress |-> {"stream"},
  Fpzip_compress |-> {"stream"}, Grib_read |-> {"result"}, Hdf5_read |-> {"result"}, Mgard10_compress |-> {"pinned"},
  Mgard10_decompress |-> {"pinned"}, Mmap_read |-> {"descriptor"}, Petsc_write |-> {"cast copy"},
  Select_read |-> {"all that was read"}, Zfp_compress |-> {"buffer", "null stream"}, Zfp_decompress |-> {"bitstream"}])
\* a result not looked at, a failure counted as progress, a negative code, or a 0 for arguments that are not accepted
QuietCalls == {
  "Arc_compress", "Arc_decompress", "BitGrooming_compress", "BitGrooming_decompress", "CopyTemplate_write", "Csv_write",
  "Cusz_compress", "Cusz_decompress", "DigitRounding_compress", "DigitRounding_decompress", "Manifest_decompress",
  "Matio_read", "Matio_write", "Mgardx_compress", "NoopIo_read", "Petsc_read", "Petsc_write", "Posix_read",
  "Posix_write", "Resize_decompress",
  "Select_read", "SzAuto_decompress", "Szp_compress", "Szp_decompress", "Szx_decompress"}
\* memory of the device given to a library of the host, or of the host to one of the device
OfHost == {"Chunking_decompress", "Fpzip_compress", "Mgard_compress", "Mgard_decompress", "Mgard10_compress",
           "Mgard10_decompress", "Mgard13_compress", "Mgard13_decompress", "Mgardx_compress", "Mgardx_decompress",
           "Noop_decompress", "Pressio_compress", "Zfp_decompress"}
\* settings of the object, or of its child, that a call leaves changed; and what else it disturbs
OtherDisturbances == Else0([
  Cast_compress |-> {"decompress_dtype"}, External_compress |-> {"io path"}, LambdaFn_compress |-> {"child options"},
  LinearQuantizer_compress |-> {"step"}, Manifest_decompress |-> {"name", "options", "lineage"},
  Mgard_compress |-> {"norm_of_qoi"}, Mgard10_compress |-> {"norm_of_qoi"},
  Mgard13_compress |-> {"omp threads"}, Mgard13_decompress |-> {"omp threads"}, Netcdf_read |-> {"object"},
  Petsc_read |-> {"object", "moved"}, Pipeline_compress |-> {"input"}, Posix_read |-> {"bounds"},
  Posix_write |-> {"bounds"}, Pressio_compress |-> {"child options"}, PwRel_compress |-> {"child options"},
  Qoz_compress |-> {"pred_dim", "stride"}, Qoz_decompress |-> {"configuration"}, Sz_compress |-> {"settings"},
  Sz3_compress |-> {"omp threads", "pred_dim"}, Sz3_decompress |-> {"omp threads", "pred_dim", "configuration"},
  SzOmp_compress |-> {"settings", "omp threads"}, SzOmp_decompress |-> {"omp threads"},
  Szp_compress |-> {"omp threads"}, Szp_decompress |-> {"omp threads"}, Szx_compress |-> {"omp threads"},
  Szx_decompress |-> {"omp threads"}, Zfp_compress |-> {"rate"}, Zfp_decompress |-> {"execution", "rate"}])
KnownDisturbances == [c \in DOMAIN AllCalls |-> OtherDisturbances[c] \cup (IF c \in OfHost THEN {"memory"} ELSE {})]
=============================================================================

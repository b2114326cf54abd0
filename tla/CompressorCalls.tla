--------------------------- MODULE CompressorCalls ---------------------------
(***************************************************************************)
(* compress_impl and decompress_impl of the compressor plugins as sets of  *)
(* paths of CallSteps.                                                     *)
(***************************************************************************)
EXTENDS CallSteps

\* the stream may be given a rate for the data at hand, which it keeps
Rated == {<<>>, <<Shift("rate")>>}
\* a type zfp does not know is recorded, and the function goes on; the dimensions are refused
Typed == <<Open, Noted>>
\* the buffer of the output reused; a new one of the bound's size; no data, and the bound asked for
Zfp_compress ==
  UNION {{<<Host, MoveOut, NewOut>> \o Typed \o <<Refuse, Take("field")>> \o rate \o <<Take("bitstream"), NewOut, Call,
            Give("field"), Give("bitstream"), Told>>,
          <<Host, MoveOut, NewOut>> \o Typed \o <<Refuse, Take("field")>> \o rate \o <<Take("buffer"), Take("bitstream"), Call,
            Give("field"), Give("bitstream"), Told, Give("buffer"), NewOut>>,
          Typed \o <<Take("null stream")>> \o rate \o <<Refuse, Take("field"), NewOut, Give("null stream"), Give("field")>>}
         : rate \in Rated}
Zfp_decompress == {rate \o <<Shift("execution"), Take("bitstream"), NewOut>> \o Typed \o <<Refuse, Take("field"), Call,
                     Give("field"), Give("bitstream"), Unshift("execution"), Told>> : rate \in Rated}

\* every object's set_options writes the parameters of the process
Sz_configure == <<Exclusive("sz"), Publish, Free("sz")>>
Sz_compress == {Sz_configure \o <<Shared("sz"), Host, Throw, Consult, Call, Told, NewOut>>}
Sz_decompress == {<<Shared("sz"), Host, Throw, Call, Told, NewOut>>}
\* a slip: the parameters of the process are used
SzThreadsafe_compress_mut == {<<Shared("sz"), Host, Throw, Consult, Call, Told, NewOut>>}
SzThreadsafe_compress == {<<Shared("sz"), Host, Throw, Call, Told, NewOut>>}

Blosc_compress == {<<Host, MoveOut, Call, NewOut, Told>>, <<Host, Call, NewOut, Told>>}
Blosc_decompress == {<<Host, Call, NewOut, Told>>, <<Host, MoveOut, Call, NewOut, Told>>}

Blosc2_compress == {<<Host, Owned("context"), Call, Refuse, NewOut, Told>>}
Blosc2_decompress == {<<Host, Owned("context"), Call, NewOut, Told>>}

Bzip2_compress == {<<Host, MoveOut, Refuse, Call, NewOut, Told>>, <<Host, Refuse, Call, NewOut, Told>>}
Bzip2_decompress == {<<Refuse, Host, MoveOut, Call, NewOut, Told>>, <<Refuse, Host, Call, NewOut, Told>>}

\* an early return leaves the fpzip stream open
Fpzip_compress == {<<Refuse, NewOut, Take("stream"), Call, Told, Call, Told, Give("stream"), NewOut>>}
Fpzip_decompress == {<<Refuse, Host, Take("stream"), MoveOut, NewOut, Call, Give("stream"), Told>>}

Arc_compress == {<<Child, Told, Host, Call, NewOut>>}
Arc_decompress == {<<Host, Call, Child, Told>>}

\* an input of the wrong type is answered with -1, a warning
BitGrooming_compress == {<<Host, Warn, Call, Told, NewOut>>}
BitGrooming_decompress == {<<Warn, Host, Call, NewOut>>}

\* the type is checked, by an exception, while the stream is open
Cuszp_compress == {<<Device, NewOut, Take("stream"), Refuse, RunKernel, Give("stream"), NewOut>>}
Cuszp_decompress == {<<Device, MoveOut, Take("stream"), Refuse, RunKernel, Give("stream"), NewOut>>}

\* an unknown mode is found, by an exception, when the compressor has been created
Cusz_compress == {<<Refuse, Device, Refuse, Take("compressor"), Refuse, Kernel, NewOut, Give("compressor")>>}
Cusz_decompress == {<<Refuse, MoveOut, NewOut, Host, Device, Take("compressor"), Kernel, Give("compressor")>>}

DigitRounding_compress == {<<Host, Warn, Call, NewOut>>}
DigitRounding_decompress == {<<Host, Warn, Call, NewOut>>}

\* the number of OpenMP threads is put back to that of the current team, which is one; decompress looks at the
\* address of the output object and not at what the library returned
Szx_compress == {<<Shift("omp threads"), Host, Refuse, Call, Told, NewOut>>, <<Host, Refuse, Call, Told, NewOut>>}
Szx_decompress == {<<Shift("omp threads"), Host, Refuse, Call, NewOut>>, <<Host, Refuse, Call, NewOut>>}

\* sz3 and qoz write what they find into their configuration, in decompress all that the stream says of it; decompress
\* writes into the caller's buffer
Sz3_compress == {<<Shift("omp threads"), Host, Throw, Shift("pred_dim"), Run, NewOut>>, <<Host, Throw, Shift("pred_dim"), Run, NewOut>>}
Sz3_decompress == {threads \o <<Host, Shift("pred_dim"), Refuse, Run, Shift("configuration")>>
                   : threads \in {<<>>, <<Shift("omp threads")>>}}
Qoz_compress == {<<Host, Throw, Shift("pred_dim"), Shift("stride"), Run, NewOut>>}
Qoz_decompress == {<<Host, Refuse, Run, Shift("configuration")>>}
\* the same parameters, written without the lock
SzOmp_compress == {<<Publish, Host, Refuse, Exclusive("sz"), Shift("omp threads"), Consult, Call, Told, NewOut>>}
SzOmp_decompress == {<<Refuse, Exclusive("sz"), Host, Shift("omp threads"), Call, Told, NewOut>>}

\* a quantity of interest that is not configured is recorded, and an empty buffer returned; its norm is kept
Norm == <<Raise, Shift("norm_of_qoi")>>
Mgard_compress == {<<Refuse, Owned("copy"), Refuse>> \o norm \o <<Raise, NewOut, Caught>> : norm \in {<<>>, <<Remark>>, Norm}}
Mgard_decompress == {<<Refuse, Owned("copy"), Refuse, Raise, NewOut, Caught>>}
\* the data is taken where it lies; the pinned staging buffer is freed by hand
Mgard10_compress ==
  UNION {{<<Refuse>> \o norm \o <<Raise, NewOut, Caught>>,
          <<Refuse>> \o norm \o <<Take("pinned"), Raise, Give("pinned"), NewOut, Caught>>} : norm \in {<<>>, Norm}}
Mgard10_decompress == {<<Refuse, Raise, NewOut, Caught>>, <<Refuse, Take("pinned"), Raise, Give("pinned"), NewOut, Caught>>}

\* the input is made readable and the output writeable, and the library is given what they were before
Mgard13_compress == {<<Shift("omp threads"), Owned("host copy"), MoveOut, NewOut, Raise, NewOut, Caught>>, <<Shift("omp threads"), RaiseKernel, NewOut, Caught>>}
Mgard13_decompress == {<<Shift("omp threads"), Owned("host copy"), MoveOut, NewOut, Raise, NewOut>>, <<Shift("omp threads"), RaiseKernel, NewOut>>}
\* compress answers a type it does not know with 0 and no output
Mgardx_compress == {<<Silent, Run, NewOut>>}
Mgardx_decompress == {<<Run, NewOut>>, <<Refuse>>}
\* a failed decoding is an exception, caught like the others
Ndzip_compress == {<<Host, Refuse, Run, NewOut, Caught>>}
Ndzip_decompress == {<<Host, Refuse, Raise, NewOut, Caught>>}

Szp_compress == {<<Shift("omp threads"), Host, Throw, Call, NewOut>>, <<Host, Throw, Call, NewOut>>}
Szp_decompress == {<<Shift("omp threads"), Host, Throw, Call, NewOut>>, <<Host, Throw, Call, NewOut>>}
\* the script may set the options of the compressor
LambdaFn_compress == {<<Child, Told, Caught>>, <<Attempt, Shift("child options"), Attempt, Child, Told, Caught>>}
\* a temporary file that cannot be made is recorded, and used, as its name is in the io plugin from then on; the result of
\* reading the output is not looked at
External_compress == {<<Owned("input file"), Open, Noted, Shift("io path"), Child, Told, Owned("output file"), Open, Told, Refuse, Child, NewOut, Told>>}
Noop_compress == {<<NewOut>>}
Noop_decompress == {<<Run, NewOut>>}
SzAuto_compress == {<<Host, Refuse, Call, Told, NewOut>>}
SzAuto_decompress == {<<Refuse, Host, Call, NewOut>>}

\* what the child says is returned as it is, through the code it recorded, or not at all; pw_rel gives the child its bound
PwRel_compress == {<<Host, Refuse, Shift("child options"), Child, Told>> \o signs \o <<NewOut, Caught>> : signs \in {<<>>, <<Child, Told>>}}
PwRel_decompress == {<<Host, Child, Told, Child, Told, Refuse, Caught>>, <<Host, Child, Told, Refuse, Caught>>}
Binning_compress == {<<Host, Refuse, Child, Told, Caught>>}
Binning_decompress == {<<Refuse, Child, Told, NewOut, Caught>>}
\* the step may be found from the data, and is kept
LinearQuantizer_compress == {<<Host, Child, Told>>, <<Host, Shift("step"), Child, Told>>}
LinearQuantizer_decompress == {<<Child, Told, NewOut>>}
MaskInterpolation_compress == {<<Host, Refuse, Child, Told>>}
MaskInterpolation_decompress == {<<Child, Told>>}
RemoveBackground_compress == {<<Refuse, Host, Child, Told>>}
RemoveBackground_decompress == {<<Refuse, Child, Told, MoveOut, NewOut>>}
\* the output is made a readable copy of itself and decoded before anyone looks at what the child said
DeltaEncoding_compress == {<<Host, Child, Told>>}
DeltaEncoding_decompress == {<<Child, MoveOut, NewOut, Told>>}
LogTransform_compress == {<<Host, Child, Told>>}
LogTransform_decompress == {<<Child, MoveOut, NewOut, Told>>}
ThresholdSmall_compress == {<<Host, Child, Told>>}
ThresholdSmall_decompress == {<<Child, Told>>}
Cast_compress == {<<Host, Shift("decompress_dtype"), Child, Told>>}
Cast_decompress == {<<Child, Told, NewOut>>}
Transpose_compress == {<<Host, Child, Told>>}
Transpose_decompress == {<<Child, MoveOut, NewOut, Told>>}
Resize_compress == {<<Throw, Child, Told>>}
Resize_decompress == {<<Throw, Child, Throw, Told>>}
\* compress_impl is one of decompress_impl's two branches too
Repeat_compress == {<<Child, Told>>, <<Child, Told, NewOut>>}
\* decimate finds no rows to take
Sampling_compress == {<<Host, Refuse, NewOut>>}
Sampling_decompress == {<<NewOut>>}
Switch_compress == {<<Throw, Child, Told, Caught>>}
Switch_decompress == {<<Throw, Child, Told, Caught>>}
\* the compressor's result is not looked at; the name, the options and, if asked for, the lineage become those of the stream
Manifest_compress == {<<Child, Told, NewOut>>}
Manifest_decompress == {<<Host, Refuse, Throw, Shift("name"), Shift("options"), Refuse, Child>> \o record
                        : record \in {<<>>, <<Shift("lineage")>>}}
Roibin_compress == {<<Host, Refuse, Child, Told, Child, Told, NewOut, Caught>>}
Roibin_decompress == {<<Host, Child, Told, Child, Told, Refuse, Caught>>, <<Host, Child, Told>>}

\* decompress reads the header where the input lies, and joins the chunks before it returns what the child said
Chunking_compress == {<<Child, Told, MoveOut, NewOut>>, <<Host, Run, Child, Told, MoveOut, NewOut>>}
Chunking_decompress == {<<Run, Child, NewOut, Told>>}
\* after the first stage the spare buffer is a view of the caller's input, and the second stage's output
Pipeline_compress == {<<Child, Told, ChildOver, Child, Told, NewOut>>}
Pipeline_decompress == {<<Host, Child, Told, NewOut>>, <<Host, Refuse>>}
\* the range of the values is computed where the input lies, beside the readable copy
Pressio_compress == {<<Refuse, Child, Told>>, <<Owned("copy"), Run, Shift("child options"), Child, Told>>}
Pressio_decompress == {<<Child, Told>>}
CudaDeviceSelector_compress == {<<Owned("device"), Refuse, Child, Told>>}
\* the library throws, and nobody catches
Magick_compress == {<<Host, Refuse, Raise, NewOut>>}
Magick_decompress == {<<Host, Raise, Refuse, NewOut, Run>>}
=============================================================================

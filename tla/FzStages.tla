------------------------------- MODULE FzStages -------------------------------
(***************************************************************************)
(* The stages of the FZGPUModules compressor.  A stage's parameters belong *)
(* to a place s0, s1, ... of the pipeline; `read' are those read_options   *)
(* looks for, `compared' those whose change it notices, `shown' those of   *)
(* populate_options, and `used' those add_stage gives the library.  A data *)
(* type a stage does not know, or a number out of its range, is one of the *)
(* reasons for which any build may fail.                                   *)
(***************************************************************************)
EXTENDS FiniteSets

\* a stage whose every parameter is read, compared, shown and used; add_stage accepts every value
Stage(names) == [read |-> names, compared |-> names, shown |-> names, used |-> names,
                 needs |-> {}, outliers |-> FALSE]
\* an output port of the indices of outliers, from which compress takes their number
Outliers(s) == [s EXCEPT !.outliers = TRUE]
\* add_stage throws unless these have been set
Needing(s, names) == [s EXCEPT !.needs = names]

AdaptiveBitpack == Stage({"block_size", "outlier_selection"})
AdaptiveLorenzo == Stage({"coder_block_size", "blocks_per_tile", "enable_order2", "enable_centering"})
ANS == Stage({})
Bitpack == Stage({"nbits"})
BitplaneRZE == Stage({})
Bitshuffle == Stage({"element_width", "block_size"})
CLOG == Stage({"chunk_size", "word_size"})
Diff == Stage({})
GInterp == Outliers(Stage({"quant_radius", "outlier_capacity", "auto_tuning_mode", "manual_alpha", "manual_beta"}))
GPULZ == Stage({"chunk_size", "word_size", "match_level"})
HCLOG == Stage({"chunk_size", "word_size"})
Huffman == Stage({"bklen", "device_resident", "validate_symbol_range", "adaptive_book"})
LogTransform == Stage({"threshold", "outlier_capacity"})
\* of floating-point numbers, and of integers
Lorenzo == Outliers(Stage({"quant_radius", "outlier_capacity", "zigzag_codes", "value_base", "centering"}))
IntegerLorenzo == Stage({"block_size"})
Negabinary == Stage({})
Quantizer == Outliers(Stage({"quant_radius", "outlier_capacity", "zigzag_codes", "value_base", "outlier_threshold",
                             "inplace_outliers", "linear_mode", "dither", "dither_seed", "dither_strength"}))
RARE == Stage({"chunk_size", "word_size"})
RAZE == Stage({"chunk_size", "word_size"})
RLE == Stage({})
ROIBinSplit == Needing(Stage({"peaks_file", "roi_half_width", "bin_factor"}), {"peaks_file"})
RRE == Stage({"chunk_size", "word_size"})
RZE == Stage({"chunk_size", "word_size"})
TiledLorenzo == Stage({"tile_x", "tile_y", "tile_z"})
TUPL == Stage({"block_size", "word_size", "dim"})
Zigzag == Stage({})
=============================================================================

----------------------------- MODULE MCFzPipeline -----------------------------
(***************************************************************************)
(* Every stage of the registry, each beside one that shares names of       *)
(* parameters with it or has other ports than it.                          *)
(***************************************************************************)
EXTENDS FzPipeline

\* StageRegistry
Registry == [
  adaptive_bitpack |-> AdaptiveBitpack, adaptive_lorenzo |-> AdaptiveLorenzo, ans |-> ANS, bitpack |-> Bitpack,
  bitplane_rze |-> BitplaneRZE, bitshuffle |-> Bitshuffle, clog |-> CLOG, diff |-> Diff, ginterp |-> GInterp,
  gpulz |-> GPULZ, hclog |-> HCLOG, huffman |-> Huffman, log_transform |-> LogTransform, lorenzo |-> Lorenzo,
  integer_lorenzo |-> IntegerLorenzo, negabinary |-> Negabinary, quantizer |-> Quantizer, rare |-> RARE, raze |-> RAZE,
  rle |-> RLE, roibin_split |-> ROIBinSplit, rre |-> RRE, rze |-> RZE, tiled_lorenzo |-> TiledLorenzo, tupl |-> TUPL,
  zigzag |-> Zigzag ]
Pairs == { {"adaptive_bitpack", "bitshuffle"}, {"adaptive_lorenzo", "ans"}, {"bitpack", "bitplane_rze"}, {"clog", "tupl"},
           {"diff", "ginterp"}, {"gpulz", "hclog"}, {"huffman", "roibin_split"}, {"log_transform", "lorenzo"},
           {"integer_lorenzo", "rle"}, {"quantizer", "negabinary"}, {"rare", "raze"}, {"rre", "rze"},
           {"tiled_lorenzo", "zigzag"} }
=============================================================================

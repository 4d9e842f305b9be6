------------------------------ MODULE MCStreaming -----------------------------
(***************************************************************************)
(* Two byte values, three layers.                                          *)
(***************************************************************************)
EXTENDS Streaming, SequencesExt

ShortTexts == BoundedSeq({0, 1}, 4)
===============================================================================

--------------------------- MODULE MCFormatString ---------------------------
(***************************************************************************)
(* FormatString with a size_t of four bits, where max_size() is less than  *)
(* INT_MAX as on the 32 bit targets; every limit and every length.         *)
(***************************************************************************)
EXTENDS FormatString
=============================================================================

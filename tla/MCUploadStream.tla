--------------------------- MODULE MCUploadStream ---------------------------
(* UploadStream for TLC: an empty datagram, one of the greatest length, one *)
(* the filter refuses, and a buffer without headroom.                       *)
EXTENDS UploadStream

SmallSize(p) == CASE p = 1 -> 1 [] p = 2 -> 3 [] p = 3 -> 0 [] p = 4 -> 2 [] OTHER -> 1
=============================================================================

------------------------- MODULE MCKeepaliveChannel -------------------------
(* KeepaliveChannel for TLC.  clientStart may lie anywhere within a second. *)
EXTENDS KeepaliveChannel

WithinASecond == 0..(Second - 1)
=============================================================================

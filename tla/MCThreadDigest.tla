--------------------------- MODULE MCThreadDigest ---------------------------
(* A tick is 30 s: windows of 1 and 2 ticks, an interval of 2, and a cooldown *)
(* of 1 (10 s).  With thresholds of 1 and 2 the second message opens a digest. *)
EXTENDS ThreadDigest

=============================================================================

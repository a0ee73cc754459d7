--------------------------- MODULE MCWriteFraming ---------------------------
(* The real header, buffers of 24 bytes in place of 8192, and every length *)
(* up to four buffers: all the remainders, and the lengths one byte before *)
(* and after each boundary.                                                *)
EXTENDS WriteFraming

UpToFour == 0 .. 4 * CHUNK
=============================================================================

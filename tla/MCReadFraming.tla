--------------------------- MODULE MCReadFraming ----------------------------
(* A header of 2 bytes and buffers of 8 in place of 8 and 8192: the frame  *)
(* of a message of 5 bytes fills a buffer, that of 6 has its terminator in *)
(* the next, those of 7 and 8 have a size that a buffer has room for and a *)
(* body that it has not, and one of 18 takes a continuation of two or      *)
(* three buffers.                                                          *)
EXTENDS ReadFraming

Mixed == {1, 5, 6, 7, 8, 9, 18}
Three == {3}
=============================================================================

--------------------------- MODULE MCTokenClient ----------------------------
(***************************************************************************)
(* TokenClient for TLC.  A tick is two and a half minutes: the margin of   *)
(* five minutes is two of them, a wait of ten minutes is four.             *)
(***************************************************************************)
EXTENDS TokenClient

\* An answer without expires_in, and tokens refreshed after one tick and
\* after three.
ShortLives == {0, 3, 5}
=============================================================================

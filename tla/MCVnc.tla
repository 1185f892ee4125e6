------------------------------- MODULE MCVnc -------------------------------
(* Two viewers, one of which may stop reading, a picture of two pixels, and  *)
(* a history of two entries, so that viewers fall behind it.                 *)
EXTENDS Vnc
=============================================================================

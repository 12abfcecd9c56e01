-------------------------- MODULE MCSegmentClient --------------------------
(* Small instances for TLC of the segment cache under its callers. *)
EXTENDS SegmentClient

(***************************************************************************)
(* What get.c and pagein.c say of a get: it returns the value of the cell,  *)
(* or -1 "if unable to seek or read segment file".  So no successful get    *)
(* hands out a word that was in a fresh buffer, and was never read or put.  *)
(***************************************************************************)
ReturnsReadValues == \A c \in DOMAIN reply.cells : reply.cells[c] # Junk
=============================================================================

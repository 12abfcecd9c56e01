----------------------------- MODULE MCSegment -----------------------------
(* Small instances for TLC of the segment cache, called in any order. *)
EXTENDS Segment
=============================================================================

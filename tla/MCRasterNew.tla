---------------------------- MODULE MCRasterNew ----------------------------
(* Small instances for TLC of a new raster map and a reader of it. *)
EXTENDS RasterReader

(* A region with the rows of the map and one more, and one of every other   *)
(* row of it.                                                               *)
SomeRowMaps == {[w \in 0 .. NRows |-> IF w = NRows THEN NoRow ELSE w],
                [w \in 0 .. (NRows - 1) \div 2 |-> 2 * w]}
=============================================================================

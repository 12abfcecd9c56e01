------------------------------ MODULE TileStore ------------------------------
(***************************************************************************)
(* What lib/g3d promises the writer of a new 3d raster map: its tiles are   *)
(* all there to be read and changed in any order, however few are kept in   *)
(* memory.  A tile goes to the data file once; what is put into it later    *)
(* lasts only as long as the tile stays in memory.                          *)
(***************************************************************************)
CONSTANTS Tiles, Values, Null, Unwritten

VARIABLES val,      \* what a tile shows
          written   \* what the data file has of it

Init ==
    /\ val = [t \in Tiles |-> Null]
    /\ written = [t \in Tiles |-> Unwritten]

(* A tile is written as it is, once, and one that was written may fall back *)
(* to that.                                                                 *)
Kept(t)    == written'[t] = written[t]
Flushed(t) == written[t] = Unwritten /\ written'[t] = val[t]
FallsBack(t) == written'[t] # Unwritten /\ val'[t] = written'[t]

Settle(Others) ==
    /\ DOMAIN written' = Tiles /\ DOMAIN val' = Tiles
    /\ \A t \in Tiles : Kept(t) \/ Flushed(t)
    /\ \A t \in Others : val'[t] = val[t] \/ FallsBack(t)

Put(t, v) == Settle(Tiles \ {t}) /\ val'[t] = v
Tidy == Settle(Tiles)

Next == Tidy \/ \E t \in Tiles, v \in Values : Put(t, v)

Spec == Init /\ [][Next]_<<val, written>>
=============================================================================

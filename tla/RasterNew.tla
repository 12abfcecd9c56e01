----------------------------- MODULE RasterNew -----------------------------
(***************************************************************************)
(* The life of a new raster map in lib/gis: G__open_raster_new, the         *)
(* sequential writing of rows (put_raster_row) with their null rows kept    *)
(* back in memory NullRowsInMem at a time, and close_new, which moves the   *)
(* temporary files over the old map element by element.  A row is           *)
(* identified by the call that put it.  The process may die between any two *)
(* of its effects on the disk.                                              *)
(***************************************************************************)
EXTENDS Integers, FiniteSets

CONSTANTS NRows,          \* rows of the map (cellhd.rows)
          NullRowsInMem,  \* NULL_ROWS_INMEM
          MaxPuts,        \* bound on the caller's calls to put a row
          FaultKinds,     \* what may fail: "row", "null", "openNull", "moveNull",
                          \* "pointers", "format", "moveData"
          MaxFaults       \* bound on the number of failures

ASSUME RasterNewAssumption ==
    /\ NRows \in Nat \ {0} /\ NullRowsInMem \in Nat \ {0}
    /\ MaxPuts \in Nat /\ MaxFaults \in Nat

VARIABLES pc,        \* where the writer is
          kind,      \* what is written: type of map, compressed or not
          curRow,    \* fcb->cur_row
          nullRow,   \* fcb->null_cur_row
          minNull,   \* fcb->min_null_row
          window,    \* fcb->NULL_ROWS
          data,      \* the temporary data file
          torn,      \* a row was written in part at its end
          nulls,     \* the temporary null file
          temps,     \* which temporary files exist
          padLeft,   \* close_new: rows still to pad
          padded,    \* close_new padded, and freed fcb->data
          disk,      \* the elements of the map in the mapset
          puts,      \* calls to put a row so far
          reply,     \* what the last call returned: 1 or -1
          troubles,  \* ghost: what has failed so far
          faults     \* failures so far

fcb  == <<kind, curRow, nullRow, minNull, window, padded>>
temp == <<data, torn, nulls, temps>>
vars == <<pc, kind, curRow, nullRow, minNull, window, data, torn, nulls, temps,
          padLeft, padded, disk, puts, reply, troubles, faults>>

Rows    == 0 .. NRows - 1
Window  == 0 .. NullRowsInMem - 1

(* The row put by a call, a row of zeros, a row of nulls, a row never       *)
(* written, a row that cannot be read back.                                 *)
Zeros == 0
Missing == -1
Absent == -2
Damaged == -3
Content == -3 .. MaxPuts

Types    == {"CELL", "FP"}
Elements == {"cell", "fcell", "null", "format", "cellhd", "support"}
States   == {"none", "old", "new", "empty"}
DataElement == IF kind.type = "CELL" THEN "cell" ELSE "fcell"

PCs == {"open", "pad", "oldNull", "nulls", "moveNull", "pointers", "format1",
        "format2", "dropData", "moveData", "support", "cellhd",
        "closed", "unopened", "dead"}
Ended == {"closed", "unopened", "dead"}

-----------------------------------------------------------------------------
NoFault == UNCHANGED <<faults, troubles>>
Fault(k) ==
    /\ k \in FaultKinds
    /\ faults < MaxFaults
    /\ faults' = faults + 1
    /\ troubles' = troubles \cup {k}

(* The temporary null file once the rows in rs, held in memory, are written. *)
NullsWith(rs) == [r \in Rows |-> IF r \in rs THEN window[r - minNull] ELSE nulls[r]]

(* A mistake: the last row in memory is forgotten. *)
HeldOneShort == {r \in Rows : r - minNull \in 0 .. NullRowsInMem - 2}

(* The rows that fall in the window. *)
Held == {r \in Rows : r - minNull \in Window}

(* A mistake: the window is moved one row too late. *)
NullKeptLate(content) ==
    /\ nullRow <= minNull + NullRowsInMem
    /\ window' = [w \in Window |-> IF w = nullRow - minNull THEN content ELSE window[w]]
    /\ nullRow' = nullRow + 1
    /\ reply' = 1
    /\ NoFault
    /\ UNCHANGED <<minNull, nulls>>

(* put_null_data: the null row is kept in memory ... *)
NullKept(content) ==
    /\ nullRow < minNull + NullRowsInMem
    /\ window' = [window EXCEPT ![nullRow - minNull] = content]
    /\ nullRow' = nullRow + 1
    /\ reply' = 1
    /\ NoFault
    /\ UNCHANGED <<minNull, nulls>>

(* ... in a window moved on after the rows it held are written (at first    *)
(* there are none) ...                                                      *)
NullMoved(content) ==
    /\ minNull + NullRowsInMem <= nullRow
    /\ nulls' = IF minNull >= 0 THEN NullsWith(Held) ELSE nulls
    /\ minNull' = minNull + NullRowsInMem
    /\ window' = [window EXCEPT ![nullRow - (minNull + NullRowsInMem)] = content]
    /\ nullRow' = nullRow + 1
    /\ reply' = 1
    /\ NoFault

(* ... or is lost because they could not all be written. *)
NullLost(written) ==
    /\ minNull >= 0 /\ minNull + NullRowsInMem <= nullRow
    /\ Fault("null")
    /\ written < Cardinality(Held)
    /\ nulls' = NullsWith({r \in Held : r - minNull < written})
    /\ reply' = -1
    /\ UNCHANGED <<minNull, window, nullRow>>

(* G__put_null_value_row *)
PutNull(content) ==
    \/ NullKept(content)
    \/ NullMoved(content)
    \/ \E written \in Window : NullLost(written)

(* What becomes of the data file when row curRow is written: after a torn   *)
(* write the row before it (compressed: it now ends too late) or this and   *)
(* all later rows (not compressed: they begin too late) cannot be read back.*)
DataWith(content) ==
    [r \in Rows |->
        IF r = curRow
        THEN IF torn /\ ~kind.compressed THEN Damaged ELSE content
        ELSE IF torn /\ kind.compressed /\ r = curRow - 1 THEN Damaged ELSE data[r]]

RowIgnored ==
    /\ curRow >= NRows
    /\ reply' = 1
    /\ NoFault
    /\ UNCHANGED <<curRow, nullRow, minNull, window, data, torn, nulls>>

RowFails ==
    /\ curRow < NRows
    /\ Fault("row")
    /\ torn' \in {torn, TRUE}
    /\ reply' = -1
    /\ UNCHANGED <<curRow, nullRow, minNull, window, data, nulls>>

RowTaken(content) ==
    /\ curRow < NRows
    /\ data' = DataWith(content)
    /\ torn' = (torn /\ ~kind.compressed)
    /\ curRow' = curRow + 1
    /\ PutNull(content)

(* put_raster_row *)
RowPut(content) == RowIgnored \/ RowFails \/ RowTaken(content)

(* A call of G_put_raster_row and its relatives. *)
Put ==
    /\ pc = "open" /\ puts < MaxPuts
    /\ puts' = puts + 1
    /\ RowPut(puts')
    /\ UNCHANGED <<pc, kind, temps, padLeft, padded, disk>>

-----------------------------------------------------------------------------
(* close_new, step by step.  Go moves on without touching the disk.         *)
Go(from, to) == pc = from /\ pc' = to
Set(element, state) == disk' = [disk EXCEPT ![element] = state]

(* G_close_cell.  The buffer the padding uses is freed by an earlier close  *)
(* that padded and then failed: using it again ends the process.            *)
Close ==
    /\ pc = "open"
    /\ padLeft' = NRows - curRow
    /\ pc' = IF curRow >= NRows THEN "oldNull" ELSE IF padded THEN "dead" ELSE "pad"
    /\ UNCHANGED <<fcb, temp, disk, puts, reply, troubles, faults>>

PadRow ==
    /\ pc = "pad" /\ padLeft > 0
    /\ padLeft' = padLeft - 1
    /\ RowPut(Zeros)
    /\ UNCHANGED <<pc, kind, temps, padded, disk, puts>>

PadEnds ==
    /\ Go("pad", "oldNull") /\ padLeft = 0
    /\ padded' = TRUE
    /\ UNCHANGED <<kind, curRow, nullRow, minNull, window, temp, padLeft, disk,
                   puts, reply, troubles, faults>>

(* A mistake: the old null file is left where it is. *)
KeepOldNull ==
    /\ Go("oldNull", IF nullRow > 0 THEN "nulls" ELSE "pointers")
    /\ temps' = IF nullRow > 0 THEN temps ELSE temps \ {"nulls"}
    /\ UNCHANGED <<fcb, data, torn, nulls, padLeft, disk, puts, reply, troubles, faults>>

(* The old null file goes first. *)
DropOldNull ==
    /\ Go("oldNull", IF nullRow > 0 THEN "nulls" ELSE "pointers")
    /\ Set("null", "none")
    /\ temps' = IF nullRow > 0 THEN temps ELSE temps \ {"nulls"}
    /\ UNCHANGED <<fcb, data, torn, nulls, padLeft, puts, reply, troubles, faults>>

(* A mistake: the missing rows are not written. *)
WriteNullsHeld(lost) ==
    /\ Go("nulls", "moveNull") /\ lost = {}
    /\ nulls' = [r \in Rows |-> IF r \in minNull .. nullRow - 1
                               THEN window[r - minNull] ELSE nulls[r]]
    /\ NoFault
    /\ UNCHANGED <<fcb, data, torn, temps, padLeft, disk, puts, reply>>

(* The rows still in memory are written, and rows of nulls for the missing  *)
(* ones; nobody looks at whether that worked.                               *)
WriteNulls(lost) ==
    /\ Go("nulls", "moveNull")
    /\ \A r \in lost : r >= minNull
    /\ IF lost = {} THEN NoFault ELSE Fault("null")
    /\ nulls' = [r \in Rows |->
                   IF r < minNull \/ r \in lost THEN nulls[r]
                   ELSE IF r < nullRow THEN window[r - minNull] ELSE Missing]
    /\ UNCHANGED <<fcb, data, torn, temps, padLeft, disk, puts, reply>>

(* The temporary null file cannot be opened: the map stays open. *)
NullsUnopened ==
    /\ Go("nulls", "open")
    /\ Fault("openNull")
    /\ reply' = -1
    /\ UNCHANGED <<fcb, temp, padLeft, disk, puts>>

MoveNull ==
    /\ Go("moveNull", "pointers")
    /\ Set("null", "new")
    /\ temps' = temps \ {"nulls"}
    /\ NoFault
    /\ UNCHANGED <<fcb, data, torn, nulls, padLeft, puts, reply>>

MoveNullFails ==
    /\ Go("moveNull", "pointers")
    /\ Fault("moveNull")
    /\ UNCHANGED <<fcb, temp, padLeft, disk, puts, reply>>

(* G__write_row_ptrs, whose result is not looked at. *)
WritePointers ==
    /\ Go("pointers", "format1")
    /\ \/ NoFault /\ UNCHANGED data
       \/ /\ kind.compressed
          /\ Fault("pointers")
          /\ data' = [r \in Rows |-> Damaged]
    /\ UNCHANGED <<fcb, torn, nulls, temps, padLeft, disk, puts, reply>>

(* A mistake: the floating point data of the old map are left. *)
Retype1Keeping ==
    /\ Go("format1", "format2")
    /\ IF kind.type = "FP" THEN Set("format", "new") ELSE UNCHANGED disk
    /\ NoFault
    /\ UNCHANGED <<fcb, temp, padLeft, puts, reply>>

(* What tells the type of the map: for floating point f_format and then an  *)
(* empty cell file are made; for CELL fcell and then f_format are removed.  *)
Retype1 ==
    /\ Go("format1", "format2")
    /\ \/ NoFault /\ IF kind.type = "FP" THEN Set("format", "new") ELSE Set("fcell", "none")
       \/ kind.type = "FP" /\ Fault("format") /\ UNCHANGED disk
    /\ UNCHANGED <<fcb, temp, padLeft, puts, reply>>

Retype2 ==
    /\ Go("format2", "dropData")
    /\ IF kind.type = "FP" THEN Set("cell", "empty") ELSE Set("format", "none")
    /\ UNCHANGED <<fcb, temp, padLeft, puts, reply, troubles, faults>>

(* The data file of the old map is removed, the new one moved in its place. *)
(* From here on the result is 1 whatever failed before.                     *)
DropData ==
    /\ Go("dropData", "moveData")
    /\ Set(DataElement, "none")
    /\ reply' = 1
    /\ UNCHANGED <<fcb, temp, padLeft, puts, troubles, faults>>

MoveData ==
    /\ Go("moveData", "support")
    /\ Set(DataElement, "new")
    /\ temps' = temps \ {"data"}
    /\ NoFault
    /\ UNCHANGED <<fcb, data, torn, nulls, padLeft, puts, reply>>

MoveDataFails ==
    /\ Go("moveData", "support")
    /\ Fault("moveData")
    /\ reply' = -1
    /\ UNCHANGED <<fcb, temp, padLeft, disk, puts>>

(* Colors, history and range; later quantisation rules, categories and      *)
(* histogram follow the header.                                             *)
WriteSupport ==
    /\ Go("support", "cellhd")
    /\ Set("support", "new")
    /\ UNCHANGED <<fcb, temp, padLeft, puts, reply, troubles, faults>>

WriteHeader ==
    /\ Go("cellhd", "closed")
    /\ Set("cellhd", "new")
    /\ UNCHANGED <<fcb, temp, padLeft, puts, reply, troubles, faults>>

CloseStep ==
    \/ PadRow \/ PadEnds \/ DropOldNull
    \/ \E lost \in SUBSET Rows : WriteNulls(lost)
    \/ NullsUnopened \/ MoveNull \/ MoveNullFails \/ WritePointers
    \/ Retype1 \/ Retype2 \/ DropData \/ MoveData \/ MoveDataFails
    \/ WriteSupport \/ WriteHeader

(* G_unopen_cell: the descriptor is closed, the map is not made. *)
Unopen ==
    /\ Go("open", "unopened")
    /\ reply' = 1
    /\ UNCHANGED <<fcb, temp, padLeft, disk, puts, troubles, faults>>

(* The process ends: by G_fatal_error, an interrupt, or an exit. *)
Die ==
    /\ pc \notin Ended /\ pc' = "dead"
    /\ UNCHANGED <<fcb, temp, padLeft, disk, puts, reply, troubles, faults>>

-----------------------------------------------------------------------------
(* The map of that name there is before: none, integer or floating point,   *)
(* the latter with its empty cell file.                                     *)
OldMaps ==
    {[e \in Elements |-> "none"]}
    \cup {[e \in Elements |->
              IF e = "cell" THEN IF type = "CELL" THEN "old" ELSE "empty"
              ELSE IF e \in {"fcell", "format"} THEN IF type = "FP" THEN "old" ELSE "none"
              ELSE IF e = "null" THEN null ELSE "old"] :
              type \in Types, null \in {"none", "old"}}

(* G__open_raster_new *)
Init ==
    /\ pc = "open"
    /\ kind \in [type : Types, compressed : BOOLEAN]
    /\ curRow = 0 /\ nullRow = 0
    /\ minNull = -NullRowsInMem
    /\ window = [w \in Window |-> Absent]
    /\ data = [r \in Rows |-> Absent] /\ torn = FALSE
    /\ nulls = [r \in Rows |-> Absent]
    /\ temps = {"data", "nulls"}
    /\ padLeft = 0 /\ padded = FALSE
    /\ disk \in OldMaps
    /\ puts = 0 /\ reply = 1 /\ troubles = {} /\ faults = 0

Next == Put \/ Close \/ CloseStep \/ Unopen \/ Die

Spec == Init /\ [][Next]_vars

-----------------------------------------------------------------------------
TypeOK ==
    /\ pc \in PCs
    /\ kind \in [type : Types, compressed : BOOLEAN]
    /\ curRow \in 0 .. NRows /\ nullRow \in 0 .. curRow
    /\ minNull \in Int /\ minNull <= nullRow /\ nullRow <= minNull + NullRowsInMem
    /\ window \in [Window -> Content]
    /\ data \in [Rows -> Content] /\ torn \in BOOLEAN
    /\ nulls \in [Rows -> Content]
    /\ temps \subseteq {"data", "nulls"}
    /\ padLeft \in 0 .. NRows /\ padded \in BOOLEAN
    /\ disk \in [Elements -> States]
    /\ puts \in 0 .. MaxPuts /\ reply \in {1, -1}
    /\ troubles \subseteq FaultKinds /\ faults \in 0 .. MaxFaults

(* The null row kept for row r: in the window or in the temporary file. *)
KeptNull(r) == IF r >= minNull THEN window[r - minNull] ELSE nulls[r]
Writing == {"open", "pad", "oldNull", "nulls"}

RowsHaveKeptNulls ==
    \A r \in Rows : r < nullRow => data[r] \in {KeptNull(r), Damaged}
RowsHaveFiledNulls ==
    \A r \in Rows : r < curRow => data[r] \in {nulls[r], Damaged}

(***************************************************************************)
(* "the corresponding null value row is written into null file" (put_row.c, *)
(* 32-34): the null row kept for each row written is the one of the same    *)
(* call, in the window, in the temporary file and in the null file of the   *)
(* map.                                                                     *)
(***************************************************************************)
RowsHaveTheirNulls ==
    /\ pc \in Writing => RowsHaveKeptNulls
    /\ disk["null"] = "new" => RowsHaveFiledNulls

(***************************************************************************)
(* So it is as long as no write of null rows failed, however many rows      *)
(* fail, are retried or skipped by the caller, and whenever the window      *)
(* moves.                                                                   *)
(***************************************************************************)
NullsBelongToRows == "null" \notin troubles => RowsHaveTheirNulls

(* The null file moved in place covers every row of the map, unless a write *)
(* of null rows failed.                                                     *)
NullFileIsWhole ==
    disk["null"] = "new" /\ "null" \notin troubles => \A r \in Rows : nulls[r] # Absent

(***************************************************************************)
(* The data file moved in place has all its rows, those never put being     *)
(* zeros (the padding in close_new), unless the write of a row failed.      *)
(***************************************************************************)
CommittedDataIsWhole ==
    disk[DataElement] = "new" /\ "row" \notin troubles => \A r \in Rows : data[r] # Absent

(* The two together: what is moved in place is complete. *)
CommittedFilesAreWhole == NullFileIsWhole /\ CommittedDataIsWhole

(***************************************************************************)
(* Whenever the process dies, the data of the new map is never found with   *)
(* the null file of the old one (close_new removes that one first), whose   *)
(* null cells would hide the new values.                                    *)
(***************************************************************************)
NewDataNeverOldNulls ==
    ~(disk[DataElement] = "new" /\ disk["null"] = "old")

(* The type G_raster_map_type finds. *)
TypeFound == IF disk["fcell"] # "none" THEN "FP" ELSE "CELL"

(***************************************************************************)
(* The header goes last: once it is the new one, the map is found with its  *)
(* new data, of the new type, whatever was there before, unless they could  *)
(* not be put in place.                                                     *)
(***************************************************************************)
HeaderComesLast ==
    disk["cellhd"] = "new" /\ troubles \cap {"format", "moveData"} = {} =>
        /\ disk[DataElement] = "new"
        /\ TypeFound = kind.type
        /\ (kind.type = "FP") = (disk["format"] = "new")
=============================================================================

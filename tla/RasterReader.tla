---------------------------- MODULE RasterReader ----------------------------
(***************************************************************************)
(* A process that reads the map RasterNew is writing (lib/gis: opencell.c, *)
(* get_row.c), with nothing between the two but the files of the mapset.   *)
(* It finds the map, reads its header, tells its type and opens its data   *)
(* file once; the null file is opened anew by name for every NullRowsInMem *)
(* rows of the region, whose null rows are kept.  One data row is kept as  *)
(* well.  The region maps its rows to rows of the map or outside of it;    *)
(* reclassed maps, masks, columns and the conversion of values are left    *)
(* out.                                                                    *)
(***************************************************************************)
EXTENDS RasterNew

CONSTANTS RowMaps,     \* maps from the rows of the region to rows of the map
          ReadFrom,    \* bound: where the writer is when a reader begins
          MaxReads     \* bound on the rows read

\* What a row of the region may show, besides the content of a row.
Old == -4        \* a row of the map there was before
Outside == -5    \* the region is larger than the map: zeros, and all null
Assumed == -6    \* no null file: zeros are null (CELL), or nothing is (FP)
Unset == -7
NoRow == -1

ASSUME RasterReaderAssumption ==
    /\ MaxReads \in Nat /\ ReadFrom \subseteq PCs
    /\ \A f \in RowMaps : /\ Cardinality(DOMAIN f) \in Nat
                            /\ f \in [0 .. Cardinality(DOMAIN f) - 1 -> Rows \cup {NoRow}]

VARIABLES reader,    \* where the reader is
          region,    \* its rows
          head,      \* the header it has read
          type,      \* fcb->map_type
          open,      \* the data file it has open
          row,       \* fcb->cur_row
          buf,       \* fcb->data
          first,     \* fcb->min_null_row
          nullRows,  \* fcb->NULL_ROWS
          noNullFile,  \* fcb->null_file_exists is 0: it was not there once
          reads,     \* rows read so far
          got        \* the last row it got: reply, data and null row

fileinfo == <<head, type, open, row, buf, first, nullRows, noNullFile>>
readerVars == <<reader, region, fileinfo, reads, got>>

NothingGot == [reply |-> 0, r |-> NoRow, data |-> Unset, null |-> Unset]
RegionRows == DOMAIN region

\* G_find_cell2 looks for the file in the element "cell".
Found == disk["cell"] # "none"
Fails == reader' = "failed" /\ UNCHANGED fileinfo
Kept == <<row, buf, first, nullRows, noNullFile>>

\* G__open_cell_old: the header first ...
FindMap ==
    /\ reader = "none" /\ pc \in ReadFrom
    /\ IF Found /\ disk["cellhd"] # "none"
       THEN reader' = "head" /\ head' = disk["cellhd"] /\ UNCHANGED <<type, open, Kept>>
       ELSE Fails
    /\ UNCHANGED <<region, reads, got, vars>>

\* ... the type, by whether there is an fcell file (G_raster_map_type) ...
TellType ==
    /\ reader = "head"
    /\ IF Found /\ (disk["fcell"] # "none" => disk["format"] # "none")
       THEN /\ reader' = "type" /\ type' = TypeFound
            /\ UNCHANGED <<head, open, Kept>>
       ELSE Fails
    /\ UNCHANGED <<region, reads, got, vars>>

\* ... and then the data file.  A file that does not belong to the header may
\* be found to be of the wrong format.
OpenData ==
    /\ reader = "type"
    /\ LET found == disk[IF type = "CELL" THEN "cell" ELSE "fcell"] IN
        \/ /\ found # "none"
           /\ reader' = "reading" /\ open' = found
           /\ UNCHANGED <<head, type, Kept>>
        \/ /\ found \in {"none", "empty"} \/ found # head \/ (\E r \in Rows : data[r] = Damaged)
           /\ Fails
    /\ UNCHANGED <<region, reads, got, vars>>

\* What the open data file has of a row of the map.
DataAt(r) == IF open = "new" THEN data[r] ELSE IF open = "old" THEN Old ELSE Absent
NullAt(r) == IF disk["null"] = "new" THEN nulls[r] ELSE Old
Readable(r) == DataAt(r) \notin {Absent, Damaged}

\* The first of the NULL_ROWS_INMEM rows that are read together.
WindowOf(w) == (w \div NullRowsInMem) * NullRowsInMem
InWindow(w) == w - first \in Window

\* open_null_read: a null file that was missing is not looked for again.
NoNullFile == noNullFile \/ disk["null"] = "none"

\* A mistake: the rows of the region are taken for rows of the map.
NullRowsUnmapped(f) ==
    [i \in Window |->
        IF f + i \notin RegionRows THEN nullRows[i]
        ELSE IF region[f + i] = NoRow THEN Outside
        ELSE IF NoNullFile THEN Assumed ELSE NullAt(f + i)]

\* get_null_value_row_nomask: the null rows of the region from f on
NullRowsFrom(f) ==
    [i \in Window |->
        IF f + i \notin RegionRows THEN nullRows[i]
        ELSE IF region[f + i] = NoRow THEN Outside
        ELSE IF NoNullFile THEN Assumed ELSE NullAt(region[f + i])]

\* Without a null file the data rows of a CELL map are read for their zeros,
\* so that the row that is kept is then the last of them.
LastOf(ws) == region[CHOOSE w \in ws : \A v \in ws : v <= w]
RowKept(f, r, b) ==
    LET ws == {w \in RegionRows : w - f \in Window /\ region[w] # NoRow}
        good == {w \in ws : Readable(region[w])}
    IN  IF NoNullFile /\ type = "CELL" /\ (\E w \in ws : region[w] # r)
        THEN row' = LastOf(ws) /\ buf' = IF good = {} THEN b ELSE DataAt(LastOf(good))
        ELSE row' = r /\ buf' = b

\* embed_nulls for row w of the region, whose data row is r and b
Nulls(w, r, b, shown) ==
    IF InWindow(w)
    THEN /\ row' = r /\ buf' = b
         /\ UNCHANGED <<first, nullRows, noNullFile>>
         /\ got' = [reply |-> 1, r |-> region[w], data |-> shown, null |-> nullRows[w - first]]
    ELSE /\ RowKept(WindowOf(w), r, b)
         /\ first' = WindowOf(w)
         /\ nullRows' = NullRowsFrom(first')
         /\ noNullFile' = NoNullFile
         /\ got' = [reply |-> 1, r |-> region[w], data |-> shown, null |-> nullRows'[w - first']]

Reading(w) ==
    /\ reader = "reading" /\ reads < MaxReads
    /\ reads' = reads + 1
    /\ UNCHANGED <<reader, region, head, type, open>>

\* G_get_raster_row for a row that is outside the map, kept, or read
GetOutside(w) ==
    /\ Reading(w) /\ region[w] = NoRow
    /\ Nulls(w, NoRow, buf, Outside)
    /\ UNCHANGED vars
GetKept(w) ==
    /\ Reading(w) /\ region[w] # NoRow /\ region[w] = row
    /\ Nulls(w, row, buf, buf)
    /\ UNCHANGED vars
GetRead(w) ==
    /\ Reading(w) /\ region[w] \notin {NoRow, row}
    /\ LET r == region[w] IN Nulls(w, r, DataAt(r), DataAt(r))
    /\ UNCHANGED vars

\* The row cannot be read, and is the current row all the same.
GetFails(w) ==
    /\ Reading(w) /\ region[w] \notin {NoRow, row}
    /\ IF Readable(region[w]) THEN Fault("read") ELSE NoFault
    /\ row' = region[w]
    /\ got' = [reply |-> -1, r |-> region[w], data |-> Unset, null |-> Unset]
    /\ UNCHANGED <<buf, first, nullRows, noNullFile, pc, fcb, temp, padLeft, disk, puts, reply>>

ReaderInit ==
    /\ reader = "none" /\ region \in RowMaps
    /\ head = "none" /\ type = "CELL" /\ open = "none"
    /\ row = NoRow /\ buf = Unset
    /\ first = -NullRowsInMem /\ nullRows = [i \in Window |-> Unset] /\ noNullFile = FALSE
    /\ reads = 0 /\ got = NothingGot

GetRow == \E w \in RegionRows : GetOutside(w) \/ GetKept(w) \/ GetRead(w) \/ GetFails(w)
ReaderNext == FindMap \/ TellType \/ OpenData \/ GetRow

SystemInit == Init /\ ReaderInit
SystemNext == (Next /\ UNCHANGED readerVars) \/ ReaderNext
System == SystemInit /\ [][SystemNext]_<<vars, readerVars>>

(***************************************************************************)
(* A reader that finds the new header (it goes last) is given, for every   *)
(* row of its region, in any order and however often, the data and the     *)
(* null row of one call of the writer, or those that close_new put for a   *)
(* row never put, as long as no write or read failed.  A reader that found *)
(* the old header may meet both maps: nothing is promised to it.           *)
(***************************************************************************)
ReadsWhatWasPut ==
    head = "new" /\ troubles \subseteq {"openNull"} /\ got.reply # 0 =>
        /\ got.reply = 1
        /\ IF got.r = NoRow THEN got.data = Outside /\ got.null = Outside
           ELSE got.data = data[got.r] /\ got.null = nulls[got.r] /\ got.data = got.null
=============================================================================

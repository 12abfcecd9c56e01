--------------------------- MODULE SegmentClient ---------------------------
(***************************************************************************)
(* The segment library under the callers it has (r.cost, r.walk, r.los,     *)
(* r.flow, r.watershed, r.spreadpath): rows are stored before the first     *)
(* cell is accessed, and segment_flush comes before segment_get_row and     *)
(* before segment_release.  Under that discipline the cache and the file    *)
(* together are a Matrix.                                                   *)
(***************************************************************************)
EXTENDS Segment

VARIABLES accessed,   \* a cell was accessed since the segment was initialised
          pending     \* a cell was put since the last flush

clientVars == <<vars, accessed, pending>>

ClientInit == Init /\ accessed = FALSE /\ pending = FALSE

ClientGet(r, c) ==
    /\ Get(r, c)
    /\ accessed' = TRUE
    /\ UNCHANGED pending

ClientPut(r, c, v) ==
    /\ Put(r, c, v)
    /\ accessed' = TRUE
    /\ pending' = TRUE

ClientFlush(lost, k) ==
    /\ Flush(lost, k)
    /\ pending' = FALSE
    /\ UNCHANGED accessed

ClientPutRow(r, row) ==
    /\ ~accessed
    /\ PutRow(r, row) \/ \E m \in Cols : PutRowFails(r, row, m)
    /\ UNCHANGED <<accessed, pending>>

ClientGetRow(r) ==
    /\ ~pending
    /\ GetRow(r) \/ GetRowFails
    /\ UNCHANGED <<accessed, pending>>

ClientRelease ==
    /\ ~pending
    /\ Release
    /\ UNCHANGED <<accessed, pending>>

ClientReopen ==
    /\ Reopen
    /\ accessed' = FALSE
    /\ UNCHANGED pending

ClientNext ==
    \/ \E r \in Rows, c \in Cols : ClientGet(r, c)
    \/ \E r \in Rows, c \in Cols, v \in Values : ClientPut(r, c, v)
    \/ \E lost \in SUBSET Slots, k \in Words : ClientFlush(lost, k)
    \/ \E r \in Rows, row \in [Cols -> Values] : ClientPutRow(r, row)
    \/ \E r \in Rows : ClientGetRow(r)
    \/ ClientRelease
    \/ ClientReopen

ClientSpec == ClientInit /\ [][ClientNext]_clientVars

-----------------------------------------------------------------------------
(* Word x of segment n, with control blocks s and file f: in memory if the  *)
(* segment is, in the file otherwise.                                       *)
ValueIn(s, f, n, x) ==
    IF \E i \in Slots : s[i].n = n
    THEN s[CHOOSE i \in Slots : s[i].n = n].buf[x]
    ELSE f[n][x]

CellValue(r, c) == ValueIn(scb, file, SegNo(r, c), Index(r, c))

MatrixView == [r \in Rows |-> [c \in Cols |-> CellValue(r, c)]]

M == INSTANCE Matrix WITH mat <- MatrixView

(***************************************************************************)
(* The library implements the matrix: whatever the order of gets, puts,     *)
(* evictions, flushes, releases and re-initialisations, and whichever       *)
(* page-outs fail or stop short, a successful get or get_row returns the    *)
(* values last stored, and no other cell changes (get.c, put.c, pagein.c).  *)
(***************************************************************************)
ImplementsMatrix == M!Spec

(***************************************************************************)
(* A slot that is not dirty has in memory what the file has, so that        *)
(* reusing it without writing it loses nothing (segment_pagein writes only  *)
(* dirty victims).                                                          *)
(***************************************************************************)
CleanSlotsMatchFile ==
    \A i \in Slots : scb[i].n # Free /\ ~scb[i].dirty => scb[i].buf = file[scb[i].n]

(***************************************************************************)
(* After a flush, and until the next put, the file alone has the whole      *)
(* matrix: "the pending updates [are] written to the segment file" (flush.c,*)
(* 23-24), so that segment_get_row and segment_release lose nothing.        *)
(***************************************************************************)
FlushedFileIsWhole ==
    ~pending => \A i \in Slots : scb[i].n # Free => scb[i].buf = file[scb[i].n]

(* Only a put makes a slot dirty, and a flush leaves none. *)
NoDirtyUnlessPending ==
    ~pending => \A i \in Slots : scb[i].n # Free => ~scb[i].dirty

(* Rows are stored only while no slot caches a part of the file. *)
NothingCachedBeforeAccess ==
    ~accessed \/ ~open => \A i \in Slots : scb[i].n = Free

(***************************************************************************)
(* With two slots or more, the segment of the last selection is never the   *)
(* one given up for the next (age and segment_select in pagein.c): a caller *)
(* that alternates between two cells does not read the file every time.     *)
(***************************************************************************)
LastSelectedIsKept ==
    [][NSeg > 1 /\ open /\ open' /\ scb[cur].n # Free => scb'[cur].n = scb[cur].n]_clientVars
=============================================================================

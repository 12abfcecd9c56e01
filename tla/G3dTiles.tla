------------------------------ MODULE G3dTiles ------------------------------
(***************************************************************************)
(* A new 3d raster map written through the tile cache of lib/g3d: tiles are *)
(* kept in the elements of G3dCache, in the file cache when an element is   *)
(* reused before its tile was flushed, and in the data file (g3dcache.c,    *)
(* tileio.c, tilewrite.c, tileread.c).  The caller is a single thread.      *)
(***************************************************************************)
EXTENDS G3dCache

CONSTANTS Values,        \* what may be put into a tile (the whole tile here)
          Null,          \* a tile of null values
          Junk,          \* what unset memory, or a torn tile of the file, holds
          Unwritten,     \* nothing in the data file
          Minima,        \* arguments of G3d_minUnlocked, called when the map is open
          Compressed,    \* is the map compressed?
          MaxFaults      \* bound on the failed writes to the data file

ASSUME G3dTilesAssumption ==
    /\ Null \notin Values /\ Junk \notin Values \cup {Null}
    /\ Unwritten \notin Values \cup {Null, Junk}
    /\ Minima \subseteq Nat \ {0}
    /\ Compressed \in BOOLEAN /\ MaxFaults \in Nat

VARIABLES pc,        \* which call is being executed, or "idle"
          cur,       \* the tile being flushed, or the next element (0 when idle)
          cache,     \* map->cache, see G3dCache
          buf,       \* the contents of its elements
          index,     \* map->index: -1 nowhere, >= 0 in the data file, -p - 2 file cache
          spill,     \* the file cache, up to cachePosLast
          out,       \* the tiles in the data file
          end,       \* its end: 0 as it was opened (fileEndPtr), 1 (and if compressed) beyond
          xdr,       \* the global buffer in which tiles are encoded and decoded
          toOutput,  \* eltRemoveFun is cacheFlushFun
          faults     \* writes to the data file that have failed so far

files == <<index, spill, out, end, xdr>>
vars  == <<pc, cur, cache, buf, index, spill, out, end, xdr, toOutput, faults>>

Word == Values \cup {Null, Junk}
PCs  == {"idle", "flushTile", "flushFile", "flushFileTile", "flushElts", "fatal", "undefined"}

(* The position of a tile in the file cache, from 0, is -index - 2.         *)
Nowhere == -1
FileEnd == 0
Beyond  == 1
AtPos(p) == -p - 2
PosOf(ix, t) == -ix[t] - 2
InSpill(ix, t) == ix[t] < Nowhere
InData(ix, t) == ix[t] > Nowhere

NoPut == [val |-> Null, put |-> FALSE]
PutOf(v) == [val |-> v, put |-> TRUE]

-----------------------------------------------------------------------------
NoFault == UNCHANGED faults
Fault == faults < MaxFaults /\ faults' = faults + 1

(* The files, as one value to compute with. *)
Files == [index |-> index, spill |-> spill, out |-> out, end |-> end, xdr |-> xdr]
FilesAre(f) ==
    /\ index' = f.index /\ spill' = f.spill /\ out' = f.out
    /\ end' = f.end /\ xdr' = f.xdr

(* A tile encoded in the xdr buffer, and one put there in the machine's own *)
(* byte order, of which only nulls decode to themselves.  With compression  *)
(* each use fills the buffer first: its contents are not followed.          *)
Encoded(v) == IF Compressed THEN Junk ELSE v
Raw(v) == IF v = Null THEN Encoded(v) ELSE Junk

(* A mistake: a tile is written again. *)
WrittenAgain(f, t, v) == [f EXCEPT !.index[t] = f.end, !.out[t] = v,
                                   !.end = Beyond, !.xdr = Encoded(v)]

(* G3d_writeTile: a tile that is in a file already is not written again; it *)
(* is encoded in the xdr buffer and goes to the end of the data file.       *)
Written(f, t, v) ==
    IF f.index[t] # Nowhere THEN f
    ELSE [f EXCEPT !.index[t] = f.end, !.out[t] = v,
                   !.end = Beyond, !.xdr = Encoded(v)]

(* cacheWrite_writeFun: the tile goes to the end of the file cache.         *)
Spilled(f, t, v) ==
    IF f.index[t] # Nowhere THEN f
    ELSE [f EXCEPT !.spill = Append(@, [tile |-> t, val |-> v]),
                   !.index[t] = AtPos(Len(f.spill))]

(* A mistake: a flush does not change where tiles go. *)
AlwaysSpilled(f, t, v) == Spilled(f, t, v)

(* What becomes of the tile in an element that is reused or flushed, and    *)
(* how that fails: a tile that cannot be written counts as written, whether *)
(* some of it is in the file or nothing.                                    *)
Saved(f, t, v) == IF toOutput THEN Written(f, t, v) ELSE Spilled(f, t, v)
WriteFails(t, v) ==
    /\ index[t] = Nowhere
    /\ Fault
    /\ \E e \in {end, Beyond} :
          FilesAre([Files EXCEPT !.index[t] = end, !.out[t] = Junk,
                                 !.end = e, !.xdr = Encoded(v)])

(* A mistake: the tile moved into the hole is not found there. *)
UnspilledHole(f, t) ==
    LET n == Len(f.spill)
        p == PosOf(f.index, t)
        rest == [k \in 1 .. n - 1 |-> IF k = p + 1 THEN f.spill[n] ELSE f.spill[k]]
        last == IF p < n - 1 THEN Raw(f.spill[n].val) ELSE f.xdr
    IN  IF ~InSpill(f.index, t) THEN f
        ELSE [f EXCEPT !.spill = rest, !.index[t] = Nowhere, !.xdr = last]

(* cacheWrite_readFun, of a tile in the file cache: the last record of the  *)
(* file is moved into the hole, through the xdr buffer.                     *)
Unspilled(f, t) ==
    LET n == Len(f.spill)
        p == PosOf(f.index, t)
        rest == [k \in 1 .. n - 1 |-> IF k = p + 1 THEN f.spill[n] ELSE f.spill[k]]
        moved == f.spill[n].tile
        last == IF p < n - 1 THEN Raw(f.spill[n].val) ELSE f.xdr
    IN  IF ~InSpill(f.index, t) THEN f
        ELSE [f EXCEPT !.spill = rest, !.xdr = last,
                       !.index = [u \in Tiles |->
                           IF u = t THEN Nowhere
                           ELSE IF p < n - 1 /\ u = moved THEN AtPos(p) ELSE @[u]]]

(* ... and what it puts in the element, where old was.  A read that fails   *)
(* is not looked at: a torn tile may leave the element as it is.  In a new  *)
(* map that is not compressed nothing is read past fileEndPtr: no bytes of  *)
(* the tile that begins there, and the xdr buffer is decoded as it stands;  *)
(* of the tiles behind it a negative number, and that read fails.           *)
Torn(f, t) == faults > 0 /\ f.out[t] = Junk
Loaded(f, t, old) ==
    IF InSpill(f.index, t) THEN {f.spill[PosOf(f.index, t) + 1].val}
    ELSE IF f.index[t] = Nowhere THEN {Null}
    ELSE IF Compressed THEN {f.out[t]} \cup (IF Torn(f, t) THEN {old} ELSE {})
    ELSE IF f.index[t] = FileEnd THEN {f.xdr} ELSE {old}

-----------------------------------------------------------------------------
(* G3d_cache_elt_ptr, by G3d_getTilePtr, of a tile in memory; the caller    *)
(* then reads or changes it.                                                *)
Contents(b, i, w) == IF w.put THEN [b EXCEPT ![i] = w.val] ELSE b

PtrHit(t, w) ==
    LET i == EltOf(cache, t)
    IN  /\ i # NoElt
        /\ cache' = Hit(cache, t)
        /\ buf' = Contents(buf, i, w)
        /\ NoFault
        /\ UNCHANGED files

(* ... of one that is not: the head of the queue is saved and reused.       *)
Head1 == Head(cache.queue)
Dirty == cache.locks[Head1] # Inactive
Misses(t) == EltOf(cache, t) = NoElt /\ cache.queue # <<>>
NameKnown == Dirty => cache.index[cache.names[Head1]] # NoElt

PtrMiss(t, w) ==
    LET i == Head1
        f == IF Dirty THEN Saved(Files, cache.names[i], buf[i]) ELSE Files
        c == IF Dirty THEN NameRemoved(cache, cache.names[i]) ELSE cache
    IN  /\ Misses(t) /\ NameKnown
        /\ cache' = Taken(c, t, i)
        /\ FilesAre(Unspilled(f, t))
        /\ \E v \in Loaded(f, t, buf[i]) :
              /\ buf' = Contents([buf EXCEPT ![i] = v], i, w)
        /\ NoFault

(* ... when the old tile cannot be saved: it keeps its element, but its     *)
(* name is gone.                                                            *)
PtrFails(t) ==
    /\ Misses(t) /\ NameKnown /\ Dirty
    /\ toOutput /\ WriteFails(cache.names[Head1], buf[Head1])
    /\ cache' = NameRemoved(cache, cache.names[Head1])
    /\ UNCHANGED buf

(* ... when a name has gone that way before, or when no element is left.    *)
PtrEnds(t) ==
    /\ EltOf(cache, t) = NoElt
    /\ cache.queue # <<>> => ~NameKnown
    /\ pc' = IF cache.queue = <<>> THEN "undefined" ELSE "fatal"
    /\ cur' = 0
    /\ NoFault
    /\ UNCHANGED <<cache, buf, files, toOutput>>

(* All together, going on to pc = then with cur = next, or to pc = else.    *)
TilePtr(t, w, then, next, else) ==
    \/ /\ PtrHit(t, w) \/ PtrMiss(t, w)
       /\ pc' = then /\ cur' = next
    \/ /\ PtrFails(t)
       /\ pc' = else /\ cur' = 0

-----------------------------------------------------------------------------
(* G3d_getValue and G3d_putValue of a cell: the first does not return when  *)
(* it fails.                                                                *)
Access(t, w) ==
    /\ pc = "idle"
    /\ \/ TilePtr(t, w, "idle", 0, IF w.put THEN "idle" ELSE "fatal") /\ UNCHANGED toOutput
       \/ PtrEnds(t)

Get(t)    == Access(t, NoPut)
Put(t, v) == Access(t, PutOf(v))

(* Calls that only change the bookkeeping of the cache. *)
Only(c) ==
    /\ pc = "idle"
    /\ cache' = c
    /\ NoFault
    /\ UNCHANGED <<pc, cur, buf, files, toOutput>>

(* G3d_lockTile: that the lock was not given is not told. *)
LockTile(t) ==
    LET i == EltOf(cache, t)
        c == Looked(cache, t)
    IN  Only(IF i # NoElt /\ (c.locks[i] = Locked \/ MayLock(c)) THEN LockedElt(c, i) ELSE c)

UnlockTile(t) ==
    LET i == EltOf(cache, t)
    IN  Only(IF i = NoElt THEN cache ELSE UnlockedElt(Looked(cache, t), i))

(* G3d_unlockAll, element by element. *)
LockedElts == {i \in Elts : cache.locks[i] = Locked}
AllUnlocked[k \in 0 .. NElts] ==
    IF k = 0 THEN cache
    ELSE LET c == AllUnlocked[k - 1]
         IN  IF c.locks[k - 1] = Locked
             THEN UnlockedElt(Looked(c, c.names[k - 1]), k - 1) ELSE c
UnlockAll == Only(AllUnlocked[NElts])

Autolock(on) == Only([cache EXCEPT !.autoLock = on])

-----------------------------------------------------------------------------
(* G3d_flushTile: the tile is loaded ... *)
FlushTile(t) ==
    /\ pc = "idle"
    /\ \/ TilePtr(t, NoPut, "flushTile", t, "idle") /\ UNCHANGED toOutput
       \/ PtrEnds(t)

(* ... written, and removed from memory, where its element keeps what it    *)
(* held ...                                                                 *)
WriteTile ==
    /\ pc = "flushTile" /\ pc' = "idle"
    /\ LET i == EltOf(cache, cur)
       IN  /\ FilesAre(Written(Files, cur, buf[i]))
           /\ cache' = Removed(cache, cur)
    /\ cur' = 0
    /\ NoFault
    /\ UNCHANGED <<buf, toOutput>>

(* ... unless it cannot be written: it counts as written then. *)
WriteTileFails ==
    /\ pc = "flushTile" /\ pc' = "idle"
    /\ WriteFails(cur, buf[EltOf(cache, cur)])
    /\ cur' = 0
    /\ UNCHANGED <<cache, buf, toOutput>>

(* G3d_flushAllTiles: from now on the data file takes what is removed ... *)
FlushAll ==
    /\ pc = "idle" /\ pc' = "flushFile"
    /\ toOutput' = TRUE
    /\ UNCHANGED <<cur, cache, buf, files, faults>>

(* ... the last tile of the file cache is loaded ... *)
FlushLoad ==
    /\ pc = "flushFile" /\ spill # <<>>
    /\ LET t == spill[Len(spill)].tile
       IN  \/ TilePtr(t, NoPut, "flushFileTile", t, "idle") /\ UNCHANGED toOutput
           \/ PtrEnds(t)

(* G3d_cache_flush *)
Flushed(t, then, next) ==
    LET i == EltOf(cache, t)
    IN  /\ \/ /\ i = NoElt
              /\ pc' = "idle" /\ cur' = 0
              /\ NoFault
              /\ UNCHANGED <<cache, files>>
           \/ /\ i # NoElt
              /\ FilesAre(Saved(Files, t, buf[i]))
              /\ cache' = Removed(cache, t)
              /\ pc' = then /\ cur' = next
              /\ NoFault
           \/ /\ i # NoElt
              /\ toOutput /\ WriteFails(t, buf[i])
              /\ cache' = StuckElt(cache, t)
              /\ pc' = "idle" /\ cur' = 0
        /\ UNCHANGED buf

(* ... and flushed ... *)
FlushLoaded ==
    /\ pc = "flushFileTile"
    /\ Flushed(cur, "flushFile", 0)
    /\ UNCHANGED toOutput

(* A mistake: the loop ends one record early. *)
FlushFileEndsEarly ==
    /\ pc = "flushFile" /\ Len(spill) <= 1
    /\ pc' = "flushElts"
    /\ UNCHANGED <<cur, cache, buf, files, toOutput, faults>>

(* ... until there is none ... *)
FlushFileEnds ==
    /\ pc = "flushFile" /\ spill = <<>>
    /\ pc' = "flushElts"
    /\ UNCHANGED <<cur, cache, buf, files, toOutput, faults>>

(* ... then the elements, one by one ... *)
FlushElt ==
    /\ pc = "flushElts" /\ cur < NElts
    /\ IF cache.locks[cur] = Inactive
       THEN cur' = cur + 1 /\ UNCHANGED <<pc, cache, buf, files, faults>>
       ELSE Flushed(cache.names[cur], "flushElts", cur + 1)
    /\ UNCHANGED toOutput

(* ... and the file cache is in use again. *)
FlushEnds ==
    /\ pc = "flushElts" /\ cur = NElts
    /\ pc' = "idle"
    /\ toOutput' = FALSE
    /\ cur' = 0
    /\ UNCHANGED <<cache, buf, files, faults>>

Flush == WriteTile \/ WriteTileFails \/ FlushLoad \/ FlushLoaded
         \/ FlushFileEnds \/ FlushElt \/ FlushEnds

-----------------------------------------------------------------------------
(* A map just opened by G3d_openCellNew, and G3d_minUnlocked called (as its *)
(* callers do before they use a tile).  Only without compression is a tile  *)
(* read up to fileEndPtr, and are positions told apart from it.             *)
Init ==
    /\ pc = "idle" /\ cur = 0
    /\ \E n \in Minima : cache = [FreshCache EXCEPT !.minUnlocked = n]
    /\ buf = [i \in Elts |-> Junk]
    /\ index = [t \in Tiles |-> Nowhere]
    /\ spill = <<>>
    /\ out = [t \in Tiles |-> Unwritten]
    /\ end = (IF Compressed THEN Beyond ELSE FileEnd) /\ xdr = Junk
    /\ toOutput = FALSE
    /\ faults = 0

Next ==
    \/ \E t \in Tiles : Get(t) \/ LockTile(t) \/ UnlockTile(t) \/ FlushTile(t)
    \/ \E t \in Tiles, v \in Values : Put(t, v)
    \/ \E on \in BOOLEAN : Autolock(on)
    \/ UnlockAll \/ FlushAll \/ Flush

Spec == Init /\ [][Next]_vars
FairSpec == Spec /\ WF_vars(Flush)

-----------------------------------------------------------------------------
TypeOK ==
    /\ pc \in PCs /\ cur \in Nat
    /\ cache \in Cache
    /\ buf \in [Elts -> Word]
    /\ index \in [Tiles -> Int]
    /\ spill \in Seq([tile : Tiles, val : Word])
    /\ out \in [Tiles -> Word \cup {Unwritten}]
    /\ end \in {FileEnd, Beyond} /\ xdr \in Word
    /\ toOutput \in BOOLEAN
    /\ faults \in 0 .. MaxFaults

Active(i) == cache.locks[i] # Inactive
Holding(t) == {i \in Elts : Active(i) /\ cache.names[i] = t}
InMemory(t) == Holding(t) # {}

(***************************************************************************)
(* The bookkeeping of the cache agrees with itself: the queue holds each    *)
(* element that is not locked once, their number is the one counted, no two *)
(* elements hold one tile, and the table and the memo find the element that *)
(* holds a tile (unless it could not be saved, and lost its name).          *)
(***************************************************************************)
QueueAgrees ==
    /\ \A i \in Elts :
          (cache.locks[i] # Locked) <=> (\E k \in DOMAIN cache.queue : cache.queue[k] = i)
    /\ Len(cache.queue) = Cardinality(Elts \ LockedElts)
    /\ cache.nofUnlocked = Len(cache.queue)
NamesAgree ==
    /\ \A t \in Tiles :
          /\ cache.index[t] # NoElt => cache.index[t] \in Holding(t)
          /\ InMemory(t) /\ faults = 0 => Holding(t) = {cache.index[t]}
    /\ cache.last # NoMemo => cache.index[cache.last.tile] = cache.last.elt
CacheAgrees == QueueAgrees /\ NamesAgree

(***************************************************************************)
(* "the invariant for every tile that it is either in no file (index == -1) *)
(* or in either the output-file (index >= 0) or the cash-file (index <= -2)"*)
(* (g3dcache.c, 38-43): the index and the file cache agree, record by       *)
(* record, and a tile of the file cache is not in memory as well.           *)
(***************************************************************************)
FileCacheIndexed ==
    /\ \A p \in 0 .. Len(spill) - 1 : index[spill[p + 1].tile] = AtPos(p)
    /\ \A t \in Tiles : InSpill(index, t) =>
          /\ PosOf(index, t) \in 0 .. Len(spill) - 1
          /\ spill[PosOf(index, t) + 1].tile = t
          /\ ~InMemory(t)
    /\ \A t \in Tiles : InData(index, t) <=> out[t] # Unwritten

(* An element can always be found for a tile: the locks leave one, unless a *)
(* flush failed and left its element locked (G3d_cache_lock, 285-288).      *)
OneElementLeft == faults = 0 => cache.queue # <<>> /\ pc \notin {"fatal", "undefined"}

(* A locked element keeps its tile until the tile is flushed, so that the   *)
(* caller's pointer to it remains good (G3d_cache_lock, G3d_cache_elt_ptr). *)
LockHolds ==
    [][\A i \in Elts : cache.locks[i] = Locked /\ cache'.names[i] # cache.names[i]
          => pc \in {"flushTile", "flushFileTile", "flushElts"}]_vars

(* What a tile shows: in memory, in the file cache, or in the data file. *)
View(t) ==
    IF InMemory(t) THEN buf[CHOOSE i \in Elts : i \in Holding(t)]
    ELSE IF InSpill(index, t) THEN spill[PosOf(index, t) + 1].val
    ELSE IF InData(index, t) THEN out[t] ELSE Null

Store == INSTANCE TileStore WITH val <- [t \in Tiles |-> View(t)], written <- out
ShownStep == faults' = 0 => Store!Next
Implements == Store!Init /\ [][ShownStep]_<<[t \in Tiles |-> View(t)], out>>

(* A flush of all tiles that succeeds leaves no tile in memory or in the    *)
(* file cache, "every tile which is not flushed before closing is flushed". *)
AllFlushed ==
    faults = 0 /\ pc = "flushElts" /\ cur = NElts =>
        /\ spill = <<>>
        /\ \A i \in Elts : ~Active(i)

(* A flush of all tiles comes to its end, however the tiles of the file     *)
(* cache are moved in it while it is flushed (G3d_flushAllTiles, 298-318).  *)
FlushReturns == pc # "idle" ~> pc \in {"idle", "fatal", "undefined"}

(***************************************************************************)
(* "If the map is new G3d_getValue() can be used even if the tile which     *)
(* contains the cell has already been flushed to the data file.  In this    *)
(* case the tile is simply read back into the memory-cache from the data    *)
(* file" (g3dlib.dox, 179-181): what is got of such a tile is what was      *)
(* written.                                                                 *)
(***************************************************************************)
ReadBackIsWritten ==
    [][\A t \in Tiles : Get(t) /\ InData(index, t) /\ ~InMemory(t)
          => View(t)' = out[t]]_vars
=============================================================================

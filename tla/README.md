# GRASS GIS: specifications, model checking and proofs

TLA+ modules of the parts of GRASS GIS where order, failure and shared state
decide whether data survive: the segment library, the writing of a new raster
map and a reader of it, the tile cache of 3d raster maps, the daemon and workers
of `r.li`, and programs with their database drivers.
Every definition is translated from the source; `PROJECT.json` maps each to the
file and lines it stands for. TLC checks the modules on small instances; TLAPS
proves, for all values of the constants, the theorems listed below.

Sections: [inventory](#inventory) · [modules and code](#modules-and-the-code) ·
[runs](#runs-what-each-checks-and-shows) · [bounds](#bounds) ·
[fairness and deadlock](#fairness-and-deadlock) · [proofs](#proofs) ·
[findings](#findings) · [disagreements without a run](#disagreements-seen-without-a-run) ·
[not modelled](#not-modelled) · [plan](#plan)

## Inventory

GRASS is a few hundred command-line programs around libraries that keep maps as
files in a directory (the mapset). Nearly every program is a single thread;
concurrency comes from processes (database drivers, graphics monitors, `r.li`
workers, two sessions in one mapset) and from the state that programs leave on
the disk when they fail or die.

| component | state it keeps | operations | talks to |
|---|---|---|---|
| **segment library** `lib/segment` | slots (segment number, dirty, age, buffer), the file | format, init, get, put, get/put row, flush, release | called by r.cost, r.walk, r.los, r.watershed, v.surf..., which also hold the file |
| **new raster maps** `lib/gis` opencell, put_row, closecell | rows put, window of null rows, temporary files, elements of the map | open, put row, put null row, close, unopen | every raster module; readers in other processes |
| **3d tile cache** `lib/g3d` | elements, queue, locks, name table and memo, index of tiles, file cache, data file | open, get, put, lock, unlock, flush one or all tiles | raster3d modules |
| **r.li sample areas** `r.li.daemon/list.c`, `disposeAreas` | the generator of areas, the list of areas | dispose, next area | the daemon |
| **r.li daemon** `daemon.c`, `worker.c`, `ipc.c` | workers, a named command pipe for each and one report pipe for all, the output | fork, schedule, report, end, wait, write | workers; the parser of the setup file |
| rows in memory `lib/rowio` | slots of rows, the current row | setup, get, put, flush, forget, release | i.rectify, paint modules |
| **raster reader** `lib/gis` opencell, get_row | the open data file, the data row and the block of null rows it keeps | open, get a row of the region | the files of a new raster map |
| 3d raster files `lib/g3d` | header, index, compression | open, close | tile cache |
| environment, regions, categories... `lib/gis` | text files, tables | read, write | everything |
| vector library `lib/vector` | topology of lines, nodes, areas | build, write, rewrite, delete | vector modules |
| **attribute databases** `lib/db`, `db/drivers/dbf` | a driver process per database with a pipe each way; the token table, cursors, tables in memory, the files | start, open, select, fetch, execute, describe, close, shutdown | all attribute access; drivers started later inherit pipe ends |
| session start `lib/init` | the lock file of a mapset | lock, clean | two sessions |
| monitors `lib/driver`, `lib/raster` | one client at a time, a socket | connect, begin, commands | d.* modules |
| data management `general/manage` | the elements of a map | copy, rename, remove | files of all the above |
| containers, numerics, display, user interfaces, scripts | - | - | - |

What is hard, and where:

* *caches over files* (segment, g3d, rowio): a long sequence of legal calls, a
  transfer that fails or stops in the middle, a label changed before the data are;
* *several files that must agree* (new raster maps): a write, rename or crash
  between two of them;
* *files read by name while they are replaced* (raster reader): a kept row or block
  of null rows that is not of the row asked for, data of one map with nulls of another;
* *processes and pipes* (r.li, databases, monitors): answers in any order, ends of
  pipes inherited by processes that do not use them, `wait()` that returns another
  child, a request or reply that one side has sent and the other does not expect;
* *generators and layouts* (r.li areas): off-by-one at the edges of a frame.

`PROJECT.json` lists the hazards one by one, each with its line and with the
properties that cover it, or the reason why none does.

Correctness, component by component: a segment file with its slots is a plain
matrix; every data row of a new raster map has its own null row, and a crash
never leaves a header over incomplete files; the tiles of a new 3d map are all
there however few are in memory; r.li's areas lie in the frame, apart and
complete, and each area gets exactly one result, in its place, after which every
process has ended; a reader that finds the new header of a map gets for every row
what was put for it; a reply of a database driver belongs to the call the program
made, a cursor to what it selected, what the driver said it inserted is in the
files it has closed, and no driver outlives its program.

## Modules and the code

| module | models | state and actions |
|---|---|---|
| `SegmentAddress` | address.c, the size of the formatted file | pure operators `SegNo`, `Index` |
| `Segment` | the rest of lib/segment | `scb` the slots, `cur`, `file`, `open`; one action per call, with its successful, failing and partly done transfers (`AccessHit`, `AccessMiss`, `AccessEvictFails`, `AccessReadFails`, `Flush`, `PutRow`, `GetRow`, `Release`, `Reopen`) |
| `SegmentClient` | the discipline of the callers (r.los and r.flow by rows and cells, r.cost and r.walk by cells): rows are written before cells are used, read after a flush | composes `Segment` with the caller's phase |
| `Matrix` | what lib/segment promises: a matrix | abstract specification, refined by `SegmentClient` |
| `RasterNew` | opencell.c, put_row.c, closecell.c for a new map | `data` and `nulls` the temporary files, `window` the null rows in memory from row `minNull` on, `disk` the elements of the map, close as the sequence of its steps (`PadRow` ... `WriteHeader`), the process may die between any two |
| `RasterReader` | a reader: opencell.c, get_row.c for an old map | composes `RasterNew` (its `System` interleaves both) with `head`, `type`, `open` what it found of the map, `row`, `buf` the data row and `first`, `nullRows` the null rows it keeps; finding the map, telling its type and opening its data are three actions, since the writer may move files between them; `GetKept`, `GetReads`, `GetFails` are the ways a row is read |
| `RliAreas` | `disposeAreas`, `next` of list.c | the generator `g`, its position `x`, `y`, the `areas` so far; a disposition, a draw, a call of `next` are actions |
| `RliDaemon` | the daemon, its workers, their pipes | a program counter per process, the command pipes and the report pipe with the ends that are open, the job of each worker, the output and the raster made from it |
| `RliFarm` | what the daemon promises: one result per area, then it returns | abstract specification, refined by `RliDaemon` |
| `G3dCache` | cache.c, cachehash.c | operators on one record: queue, locks, names, table, memo, counts |
| `G3dTiles` | g3dcache.c, tileio.c, tilewrite.c, tileread.c of a new map | `cache`, `buf` the contents of its elements (an element keeps them when its tile is removed), `index`, `spill` the file cache, `out` the tiles in the data file, `end` whether that has grown since it was opened (`fileEndPtr`), `xdr` the global buffer tiles are encoded and decoded in; one action per call, the flush of all tiles step by step |
| `TileStore` | what lib/g3d promises the writer of a map | abstract specification, refined by `G3dTiles` |
| `DbTokens` | dbmi_base/token.c | pure operators on the table of tokens |
| `DbfTables` | db/drivers/dbf table.c, dbfexe.c | operators on the tables of a driver (their rows, whether they are described, loaded, updated) for each kind of statement |
| `DbDriver` | lib/db/dbmi_client, lib/db/dbmi_driver with the dbf driver | the program (`client`, `handle`, `cursors`), the drivers (`drv`, `inner`), two pipes for each and the `heirs` of their ends, the `file`s; a call is four messages, each sent and received in an action; processes may be killed between any two |
| `*Proofs` | theorems about the module of that name; the layout of `SegmentAddress` is proved in `SegmentProofs`, the operators of `G3dCache` in `G3dTilesProofs`, what `DbDriver` does to files and to cursors, and its types, in `DbFilesProofs` | |
| `MC*` | instances for TLC | |

Data are abstracted to what the properties tell apart. A cell is one of two
values, a row its number, a tile one value (a put changes a cell of it, the cache
only moves tiles), an area's result its number. `Junk` stands for the contents of
memory that was never set and of records that were torn, or read in the wrong byte order. The text of headers,
setup files and messages is left out.

Ghost variables: `faults` (failed transfers so far), `troubles` (which kinds of
them, RasterNew), `misread` (RliDaemon: a `read` whose failure went unnoticed),
`pending` and `orphaned` (DbDriver: rows a driver said it inserted that are in no
file yet, tables that somebody dropped meanwhile); the code has none of them, no guard of an operation depends on them (except that
`MaxFaults` bounds failures), and they only serve to state when a property is
promised. An operator under a comment "A mistake:" is not part of any
specification: it is the operation after it with a plausible bug, used to test
that a property notices it (`PROJECT.json`, "mutants").

## Runs: what each checks and shows

| run | instance | checks |
|---|---|---|
| `segment_any_order` | 3 segments, 2 slots, any order of calls, all failures | `TypeOK`, `OneSlotPerSegment`: no segment is in two slots |
| `segment_client` | 3 segments of 2 words (the last one half used), 2 slots, failing page-outs and row transfers | `ImplementsMatrix` (refinement), `CleanSlotsMatchFile`, `FlushedFileIsWhole`, `LastSelectedIsKept` |
| `segment_read_fault` | 2 segments, 1 slot, failing reads | finding: `ReturnsReadValues` is violated |
| `raster_new` | a writer of 5 rows, window of 2 null rows, up to 6 puts, all failures, death at any step; a reader of two regions | `TypeOK`, `NullsBelongToRows`, `CommittedFilesAreWhole`, `NewDataNeverOldNulls`, `HeaderComesLast`, `ReadsWhatWasPut` |
| `raster_null_fault` | the writer alone, failing writes of null rows | finding: `RowsHaveTheirNulls` is violated |
| `rli_areas` | all dispositions over frames up to 6x6, areas up to 3x3 | `AreasInFrame`, `AreasApart`, `AidIsPlace`, `NoAreaMissing`: every place, window or stratum has its area in the end, `EndsForGood`: there is an end and it is final |
| `rli_window_size` | a 3x3 window in a 4x4 frame | finding: `WindowMovesOverAll` is violated |
| `rli_daemon` | 3 workers, 0 to 6 areas, some failing, text and raster output | `TypeOK`, `Implements` (refinement of `RliFarm`), `NoneLeft`, `RasterShowsResults`, `WaitReturnsTarget`, `Returns` (liveness) |
| `rli_deaths` | 3 workers that cannot start, die or are late, 5 areas | `OneJobEach`, `AtMostOnce`, `OutIsFinal` |
| `g3d_tiles` | 3 tiles, 2 elements, a write of the data file may fail | `TypeOK`, `CacheAgrees`, `FileCacheIndexed`, `OneElementLeft`, `LockHolds`, `AllFlushed`, `Implements` (refinement of `TileStore`), `FlushReturns` (liveness) |
| `g3d_read_back` | 2 tiles, 1 element, without compression, no failures | finding: `ReadBackIsWritten` is violated |
| `db_driver` | a program with 2 drivers, 1 table of 1 row, 5 calls, one fault: a killed process or a failed save | `TypeOK`; `InSync`: replies belong to their calls; `CursorsFound`: a cursor leads to what it selected; `FilesKept`: no file is ever there in part, none lacks a row the driver said it inserted; `CallsReturn`, `DriversEnd` (liveness) |

The type invariants are checked in the runs that list `TypeOK`; the other passing
runs are of the same modules, or, `rli_areas`, of a module whose properties read
every variable it has.

Where a property is promised only as long as nothing (or nothing of a kind)
failed, its definition says so: `NullsBelongToRows` without failed writes of null
rows; `Implements` and `OneElementLeft` of `G3dTiles` without failed writes;
`AtMostOnce` without misread reports; `Returns` without dying workers. The runs
`segment_client` and the segment theorems take no failing reads and no failing
flushes: with the first the finding applies, with the second `segment_flush`
returns 0 whatever happened.

## Bounds

* `MaxFaults` (1 or 2): failures in one behaviour. Two are enough for one failure
  to meet the consequences of another (raster_new, segment_any_order); where the
  properties are about what follows one failure it is one.
* `MaxAge` (Segment): bound on the ages of slots. With two slots an age never
  exceeds 2 in the code as it is, so 3 never binds in `segment_client`; in
  `segment_any_order` 4 leaves room for the ages of mutated code.
* `MaxPuts` (RasterNew): calls of put; 6 for 5 rows, so that the sixth is one too many.
* `NRows` 5 with a null window of 2: the window moves twice and ends half full.
* `NCols` 5 with segments of 2: the last segment is not full. Three segments in
  two slots is the least that evicts while another segment stays.
* `ReadFrom` {"closed"} (RasterReader): where the writer is when a reader begins.
  The header goes last (`HeaderComesLast`), so a reader that finds the new header
  begins after the close; `RasterReaderReads` proves the property for every value
  of `ReadFrom`. `MaxReads` 3: a kept data row, a kept block of null rows and another
  block. `SomeRowMaps`: a region with one row more than the map and one of every
  other row, where rows of the region and rows of the map differ.
* `MaxDrivers` 2 (DbDriver): the second inherits the ends of the first. `MaxCalls` 5:
  open a database, create, insert, close and one more; the safety properties were
  also checked with 7 (4,128,249 distinct states). `MaxFaults` 1 and one table with
  one row: what is lost after a fault is lost at once.
* `FrameSides`, `AreaSides`, `Offsets`, `Dists`, `Units`, `Strata` (RliAreas): 4
  and 6 divide by the areas evenly or not; 1 leaves no room at all; draws at random
  are all values the code can draw.
* `NAreas` 6 with `WORKERS` 3: no area, fewer than workers, and two rounds of them.
* `NTiles` 3 in `NElts` 2: the file cache holds two records at times, so that its
  last one is moved into a hole; one element can be locked while the other is
  reused. `Minima` {1}: one element always stays unlocked; with 2 of 2 elements no
  lock is ever given, which only leaves out states. A queue of more elements is the
  same list with more in the middle. `g3d_read_back` takes 2 tiles in 1 element:
  the first tile is encoded, then the second over it, and a get needs the element again.

Symmetry is not used: slots, rows, tiles and areas are ordered by the code.

## Fairness and deadlock

Safety runs use `Spec`. Liveness is checked under:

* `RliAreas!FairSpec`: the caller keeps asking for areas until there is none
  (`calculateIndex` does, in its loops); a position drawn twice is drawn again in
  the code (daemon.c:540-549), and the fairness says that a free one comes up in the end.
* `RliDaemon!FairSpec`: every process that can take a step takes one in the end
  (`WF` of the daemon and of each worker): they are separate processes that the
  system schedules, blocked only by pipes and by `wait()`, whose conditions are in
  the guards. `PromptOpen` says a worker opens its report pipe before the daemon
  reads it; it is set where liveness is checked, and left out in `rli_deaths`.
* `G3dTiles!FairSpec`: a call of the library that has begun goes on (`WF` of the
  steps of a flush): it is one thread and calls nothing that blocks.
* `DbDriver!FairSpec`: each process is scheduled (`WF` of the steps of a program
  inside a call, `WF` of each driver), blocked only by empty pipes and by `waitpid`.
  Which call a program makes, and that it makes one, is not fair, and faults are
  not. `CallsReturn` counts waiting for the end of a driver only while nobody else
  holds the other end of its pipe: with a driver started later it lasts as long as
  that one (shutdown.c:56), which the code does nothing about.

`CHECK_DEADLOCK FALSE` is set where the system ends: a map that is closed or
whose process died, the last area, a daemon that returned, a process that
`G3d_fatalError` ended, a program and its drivers that ended, a program that waits
for a driver whose pipe a later one holds. For the daemon, the flush and the
drivers the liveness properties say that they do not stop elsewhere. `Segment` has no end and is checked for deadlock.

## Proofs

`tlapm` checks every proof. All are about the modules TLC runs, for all values of
the constants that satisfy the named assumptions in the modules.

* `AddressesInFile`, `AddressesDistinct`: addresses of cells lie in the formatted
  file and are distinct, for all sizes (integer division and modulus).
* `SegmentTypeOK`, `SegmentHeldOnce`: by induction with the type invariant; a
  segment is only ever loaded when `Cached` finds it in no slot.
* `SegmentCleanSlots`, `SegmentFlushedFile`, `SegmentImplementsMatrix`: assume no
  failing reads and no failing flushes. The inductive invariant adds to the type
  invariant that slots hold distinct segments, that a clean slot equals the file,
  and in each phase of the caller what that phase may rely on (rows are transferred only when no
  slot is dirty). The matrix is the slots over the file; page-in, page-out and
  eviction leave it as it is, because what is written is what the slot shows and,
  on a partial write, the slot stays.
* `SegmentLastKept`: `AgesInv` says that the slot last selected has age 1 and every other slot
  with a segment is older, so a miss never takes the last one when there are two
  slots. Assumes only that no read fails: a failed read labels a slot without selecting
  it, whose age may then be 0 (pagein.c:74), and the slot last selected is the oldest.
* `RasterNewTypeOK`, `RasterNewNulls`: `NullsInv` adds that null rows before the
  window are on the disk in their places and those in the window in theirs, as
  long as no write of null rows has failed; `cur_row` and `null_cur_row` are then equal.
* `RasterNewNoOldNulls`, `RasterNewHeaderLast`: `CloseInv` says for each step of the
  close which elements of the map are already new, which still old, and which
  failures explain an element that was passed over.
* `RasterNewWhole`: `WholeInv` says that the temporary files have a record of every
  row before the current one, and all of them once the rows are padded.
* `RasterReaderReads`: two invariants. `WriterInv` collects those of the writer and
  adds that without a failure nothing on the disk is damaged. `ReaderInv` says that
  a reader with the new header has the new data file open, that the row it keeps is
  the one `row` names, and that the null rows it keeps are those of the block that
  begins at `first`; the writer has ended by then, so its files stay. For any
  regions and any moment at which the reader begins.
* `RliWindowLayout`, `RliAreasInFrame`: `AreasInv` ties the position of the
  generator to the number of areas it has given; `DrawnInv` says of the areas drawn
  at random, or from a stratum, where they can be. Assume only that there is no mask.
* `RliAreasApart`: `ApartInv` says where the areas so far are: behind the position
  of the generator, on the places of a grid, or in the strata of earlier numbers.
  No assumption on masks, sizes or draws.
* `RliNoAreaMissing`: `MissingInv`, with `ApartInv`, says that a generator which stands
  at the c-th place of the r-th row has given exactly the places before it, and that
  every stratum of an earlier number has its area. Assumes no mask, as the run `rli_areas` does.
* `RliAtMostOnce`, `RliOutIsFinal`: `FarmInv` says where an area can be: not yet
  given, in a command pipe, in a worker's hands, in a report pipe, or in the output, in one place only.
* `RliOneJobEach`: `JobInv`, with `FarmInv`, says that no worker has a job before the
  first are given, nor those not yet served while they are given, and that a report
  comes from a worker that opened the report pipe. So the worker a stale report
  names has ended when the daemon can read past the last report.
* `RliTypeOK`: `RangeInv`, with `FarmInv`, keeps the counter of the daemon inside its
  table of workers, whichever workers fail.
* `RliNoneLeft`, `RliWaitReturnsTarget`, `RliRasterShowsResults`, `RliIsFarm`: assume
  `Orderly`, that workers start, live and open their pipe in time, which is what the
  run `rli_daemon` assumes; otherwise the daemon may wait for ever for a pipe that a
  worker never opens, or count a stale report as an answer (`rli_deaths`). `OrderInv` says, for each place the daemon can be
  in, which workers were never given an area, which have one, which have been told to
  end and which have gone; that an area given is in a worker's hands, in a report or
  in the output; and that a report is true of its area. TLC agreed on the instance of
  `rli_daemon` before the proof. The row of results a raster is read from is a
  recursive function, whose value at a place is argued by the least place at which it
  would be wrong. `RliIsFarm` is the safety part of the refinement: a report taken is
  a result of the farm, all other steps stutter.
* `TypeCorrect`, `CacheConsistent`, `FileCacheConsistent`, `ElementLeft`,
  `FlushComplete` (3d tiles, any number of tiles and elements): one invariant,
  `TilesInv`. It says of the cache that every unlocked element is in the queue once and
  every name is found by the table and the memo; of the file cache that the index
  leads to each record and each record to its tile; and of both together that a tile
  in memory is not in the file cache. After a failed write an element may have lost
  its name, and then its tile counts as one to be written, or faults are not zero. The
  last two theorems are promised without faults, as the properties are.
* `LocksHold`: no step but those of a flush takes the name of a locked element, since
  an element that is reused comes from the queue. `AllUnlocked`, a recursive function,
  is argued by the least element at which it would be wrong.
* `TilesAreStored`: the refinement of `TileStore`. What a tile shows is found by the table, in the
  file cache or in the data file; saving, evicting, moving a record into a hole and
  reading one back leave every other tile as it shows, and the data file gets a tile
  once. Assumes `Compressed`, since without compression finding 4 applies.
* `AlwaysInSync`: `SyncInv` says, for each place a program can be in a call, which
  messages are in the two pipes of the driver it calls and where that driver is,
  and that the pipes of the others are empty. A driver that is killed leaves its
  messages, which is why the cases also name `killed`.
* `AlwaysFilesKept`: `FilesInv` follows a row from the statement that inserted it:
  it is in the table in memory, which is marked as updated, or among those still to
  be saved, until the file is renamed in place; what a table holds is well formed.
  In `DbFilesProofs`, on top of the first.
* `AlwaysCursorsFound`: `CursorsInv`, on top of both, says that the cursors the driver
  manages lead to cursors of their own, that those of the program are among them, and
  what the driver has done and the program not yet read (a cursor opened, a cursor
  closed, the database closed). That a new token takes the first free place needs
  the well-foundedness of the natural numbers.
* `DriverTypesOK`: `TypeInv`, on top of the third, says what types do not: that a
  driver saves only tables it has, and that the table of tokens is a sequence that
  only grows, so that a dbCursor once managed still has its place in it.

Not proved, only model-checked: liveness, which no prover here does under fairness
(`Returns`, `EndsForGood`, `FlushReturns`, `CallsReturn`, `DriversEnd`, and with
`Implements` of the daemon that of the farm: `RliIsFarm` leaves out its `WF`).
`ENABLED` and proofs by an induction schema over data are out of reach for the same
reason; no theorem needs them, because the two recursive functions that matter
(`AllUnlocked`, and the reading of a row of results) can be unfolded at one place.
Every other property a passing run checks is a theorem.

## Findings

1. **A failed page-in is forgotten** (`segment_read_fault`, pagein.c:74). The slot
   is labelled before it is read; the next get returns what was in the buffer.
2. **Null rows shift after a failed write** (`raster_null_fault`, put_row.c:927). The
   data row is counted before its null row is stored.
3. **A large moving window yields nothing** (`rli_window_size`, list.c:89). The size
   of the frame is replaced by the number of places, and then compared with the
   size of the window.
4. **A flushed tile is not read back** (`g3d_read_back`, tileread.c:94) in a new
   map without compression: the end of the file is that of its opening. Of the first
   tile no bytes are read, and the buffer `xdr`, with the tile encoded last, is decoded
   in its place: the right one only if no other tile was flushed since. Of a later
   tile a negative number of bytes is asked for, the read fails unnoticed
   (g3dcache.c:66), and the element shows the tile that was in it.

## Disagreements seen, without a run

Found while reading, described here so that they are not lost; where the code is
modelled, the model does what the code does.

* segment: `segment_flush` ignores failed page-outs and returns 0 (flush.c:38,
  40), as flush.c:29 says; but flush.c:23-24 promises that all pending updates are written.
* raster: `close_new` overwrites the -1 of a failed step with 1 (closecell.c:230,
  252, 295; 14-16). `G_unopen_cell` leaves temporary files (closecell.c:312; 96-98).
  A row whose read failed is the current row all the same, and is answered with
  success the next time (get_row.c:614).
* r.li areas: with a mask the window stops one row early (list.c:121 and 101) and
  the origin of the frame is never stored (daemon.c:433-440); spaced areas may pass
  the frame (list.c:97; description.html:70-71); strata equal to an area divide by
  zero (daemon.c:601, 612; description.html:104-108).
* r.li daemon: the result of reading the report pipe is ignored, and a stale
  answer counts twice when a worker is late (daemon.c:211; daemon.h:128-129); a
  worker that cannot open the map ends before it opens its pipe and is waited for
  for ever (daemon.c:87, worker.c:65-68; daemon.h:133-134); a failed area leaves a
  hole in the raster, shown as 0 or as the row above (daemon.c:193-195, 738);
  `write_raster` adds rl/2 rows more than the map has; the row cache of a worker
  starts uninitialised; `child[i].pipe` is used with i == WORKERS (daemon.c:302).
* g3d: `G3d_lockTile` returns 1 where its comment says -1 (tileread.c:244-270);
  `G3d_writeTile` ignores a tile that is only in the file cache (tilewrite.c:137);
  a failed read of the file cache leaves a labelled element with garbage; a failed
  eviction leaves a tile without a name, and the next miss is fatal (cache.c:484);
  after a failed move in the file cache, flushing may not end (g3dcache.c:298);
  r3.in.ascii ignores failed puts.
* rowio: failed writes are dropped (get.c:88); a failed read compares a slot with a
  row (get.c:66); a forgotten row stays current (forget.c:12).
* databases: a select that fails leaves its token (d_openselect.c:53); a driver
  asked to close an unknown cursor ends without a reply (d_close_cur.c:35); one asked
  to fetch from an invalid cursor answers with a failure and then ends, and the next
  call to it kills the program by SIGPIPE (d_fetch.c:40). Closing a database does not
  look at tables that could not be saved (dbf/db.c:132), INSERT not at rows that
  could not be read (dbf/dbfexe.c:217), and of two sessions with a table the last to
  save wins. v.reclass shuts its drivers down in the order in which they were
  started (v.reclass/main.c:201-202, 271-272), other programs in the opposite one
  (copy_tab.c:39), which the inherited pipe ends require.
* session lock: a lock file whose pid is not written after a second is no lock (lock.c:48).
* monitors: the second wait of the handshake runs without its handler (rem_io.c:206-229).

## Not modelled

* segment: `lseek` that fails, `segment_format_nofill`, memory that runs out, debug.c.
* raster: random writing, compression and value conversion; of the reader reclassed
  maps, GDAL links, masks, columns and quantisation.
* databases: update and insert cursors, cursors that are used after they were
  closed, procedures the dbf driver does not implement, UPDATE and ALTER, columns
  and the parsing of SQL, writes that fail while a table is written aside, drivers
  other than dbf, Windows.
* r.li: areas written in the setup file, masks in the daemon, the row cache of a
  worker, fatal errors of the daemon while workers run, the indices.
* g3d: maps opened for reading or without a cache, `G3d_readTile` and
  `G3d_writeTile` called by the application (`G3d_flushTilesInCube` calls
  `G3d_flushTile`, which is modelled), failures of the file cache (its growth,
  reads and moves), several maps that share the `xdr` buffer (with compression its
  contents are not followed, since each use fills it first), machines whose byte order is that of XDR,
  clipped tiles, masks, the header and the index of the file.
* The other components of the inventory; the reason of each is in `PROJECT.json`:
  floating-point numerics, drawing, conversions and sequential one-pass programs
  have no state that interleaving, failure or order could break.

## Plan

Done, in this order: `SegmentAddress`, `Segment`, `SegmentClient`, `RasterNew`,
`RliAreas`, `RliDaemon`, `G3dCache`, `G3dTiles`, `DbTokens`, `DbfTables`,
`DbDriver`, `RasterReader`, and the proofs above.

Next, most important first:

1. `SessionLock`: two sessions, `creat` after `open` (lock.c:46).
2. `RowIO` under the runs of a cache over a file, sharing `Matrix` as its abstract
   specification; the current row after a failed read.
3. `G3dTiles` extended by the closing of a map (flush, index, header).
4. The handshake of the graphics monitors.
5. Weaker hypotheses: what `RliNoneLeft` and `RliIsFarm` keep when workers die, in
   place of `Orderly`; the 3d tiles when the file cache fails too.

Runs stay few: one passing run per composition, a violating one per finding. New
compositions share a run with the module they extend where the bounds allow.

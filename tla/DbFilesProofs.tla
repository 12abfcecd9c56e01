---------------------------- MODULE DbFilesProofs ----------------------------
(***************************************************************************)
(* What a driver says it inserted reaches the files it closes, the cursors *)
(* of a program lead to what they were opened on, and every variable has   *)
(* its type, for any number of drivers, tables, rows, calls and faults.    *)
(***************************************************************************)
EXTENDS DbDriverProofs, WellFoundedInduction

(***************************************************************************)
(* The statements.                                                         *)
(***************************************************************************)
HasFields(x, fields) == DOMAIN x = fields /\ x = [i \in fields |-> x[i]]
IsTable(x) == HasFields(x, {"alive", "described", "loaded", "updated", "rows"})
IsTables(tables) == /\ tables = [t \in DOMAIN tables |-> tables[t]]
                    /\ \A t \in DOMAIN tables : IsTable(tables[t])
Ops == {"create", "drop", "select", "delete", "describe", "insert"}

(* One table is changed: the others are as they were.                       *)
Changes(tables, new, t) ==
    /\ IsTables(new) /\ DOMAIN new = DOMAIN tables
    /\ \A u \in DOMAIN tables : u # t => new[u] = tables[u]

(* Describing a table leaves the rest of it.                                *)
LEMMA Describing ==
  ASSUME NEW tables, IsTables(tables), NEW t \in DOMAIN tables
  PROVE  LET new == Described(tables, t) IN
         /\ Changes(tables, new, t)
         /\ new[t].alive = tables[t].alive /\ new[t].loaded = tables[t].loaded
         /\ new[t].updated = tables[t].updated /\ new[t].rows = tables[t].rows
<1> DEFINE x == [tables[t] EXCEPT !.described = TRUE]
<1>1. /\ IsTable(x) /\ x.alive = tables[t].alive /\ x.loaded = tables[t].loaded
      /\ x.updated = tables[t].updated /\ x.rows = tables[t].rows
  BY DEF IsTables, IsTable, HasFields
<1>2. Described(tables, t) = [tables EXCEPT ![t] = x]
  BY DEF Described
<1> HIDE DEF x
<1> QED
  BY <1>1, <1>2 DEF IsTables, Changes

(* A table that was loaded is as it was; one that was not is if it can be.  *)
LEMMA Loading ==
  ASSUME NEW tables, IsTables(tables), NEW files, NEW t \in DOMAIN tables
  PROVE  LET new == Loaded(tables, files, t) IN
         /\ Changes(tables, new, t)
         /\ new[t].alive = tables[t].alive /\ new[t].updated = tables[t].updated
         /\ tables[t].loaded => new[t].rows = tables[t].rows
         /\ tables[t].loaded \/ Readable(files, t) => new[t].loaded
<1>1. CASE tables[t].loaded \/ ~Readable(files, t)
  BY <1>1, Describing DEF Loaded
<1>2. CASE ~(tables[t].loaded \/ ~Readable(files, t))
  <2> DEFINE x == [tables[t] EXCEPT !.described = TRUE, !.loaded = TRUE, !.rows = files[t].rows]
  <2>1. IsTable(x) /\ x.alive = tables[t].alive /\ x.updated = tables[t].updated /\ x.loaded
    BY DEF IsTables, IsTable, HasFields
  <2>2. Loaded(tables, files, t) = [tables EXCEPT ![t] = x]
    BY <1>2 DEF Loaded
  <2> HIDE DEF x
  <2> QED
    BY <1>2, <2>1, <2>2 DEF IsTables, Changes
<1> QED
  BY <1>1, <1>2

(* What a statement does to the tables.  A row that is there and loaded     *)
(* stays until it is deleted, a table that is alive until it is dropped.    *)
LEMMA StatementOnTables ==
  ASSUME NEW tables, IsTables(tables), NEW files, NEW st, st.op \in Ops
  PROVE  LET t == st.table
             new == TablesAfter(tables, files, st)
             ok == Succeeds(tables, files, st)
         IN  /\ IsTables(new) /\ DOMAIN tables \subseteq DOMAIN new
             /\ \A u \in DOMAIN new : u # t => u \in DOMAIN tables /\ new[u] = tables[u]
             /\ t \in DOMAIN new /\ t \notin DOMAIN tables => new[t] = Created
             /\ t \in DOMAIN tables =>
                  /\ tables[t].alive /\ ~new[t].alive => st.op = "drop" /\ ok
                  /\ tables[t].updated => new[t].updated
                  /\ tables[t].loaded => new[t].loaded
                  /\ tables[t].loaded /\ ~(st.op = "delete" /\ ok) => tables[t].rows \subseteq new[t].rows
                  /\ ok /\ st.op = "drop" => ~new[t].alive
             /\ ok /\ st.op = "insert" =>
                  /\ t \in DOMAIN tables /\ new[t].updated /\ st.row \in new[t].rows
                  /\ new[t].alive = tables[t].alive
                  /\ tables[t].loaded \/ Readable(files, t) => new[t].loaded
             /\ ok /\ st.op = "drop" => t \in DOMAIN tables
<1> DEFINE t == st.table
           new == TablesAfter(tables, files, st)
           ok == Succeeds(tables, files, st)
<1>1. CASE st.op = "describe" \/ ~ok
  <2>1. ~(ok /\ st.op = "insert") /\ ~(ok /\ st.op = "drop")
    BY <1>1 DEF Ops
  <2>2. CASE st.op # "create" /\ HeadLoads(tables, files, t)
    <3>1. new = Described(tables, t) /\ t \in DOMAIN tables
      BY <1>1, <2>2 DEF TablesAfter, HeadLoads, Known
    <3> QED
      BY <2>1, <3>1, Describing DEF Changes
  <2>3. CASE ~(st.op # "create" /\ HeadLoads(tables, files, t))
    <3>1. new = tables
      BY <1>1, <2>3 DEF TablesAfter
    <3> QED
      BY <2>1, <3>1
  <2> QED
    BY <2>2, <2>3
<1>2. CASE ok /\ st.op = "create"
  <2>1. t \notin DOMAIN tables /\ new = WithCreated(tables, t)
    BY <1>2 DEF Succeeds, Known, TablesAfter
  <2>2. IsTable(Created)
    BY DEF IsTable, HasFields, Created
  <2>3. /\ DOMAIN new = DOMAIN tables \cup {t} /\ new[t] = Created
        /\ \A u \in DOMAIN tables : new[u] = tables[u]
        /\ new = [u \in DOMAIN new |-> new[u]]
    BY <2>1 DEF WithCreated
  <2> HIDE DEF new
  <2> QED
    BY <1>2, <2>1, <2>2, <2>3 DEF IsTables, new
<1>3. CASE ok /\ st.op \in {"drop", "select", "delete", "insert"}
  <2>1. t \in DOMAIN tables
    BY <1>3 DEF Succeeds, HeadLoads, Known
  <2>2. CASE st.op = "drop"
    <3> DEFINE d == Described(tables, t)
               x == [d[t] EXCEPT !.alive = FALSE]
    <3>1. /\ Changes(tables, d, t) /\ d[t].loaded = tables[t].loaded
          /\ d[t].updated = tables[t].updated /\ d[t].rows = tables[t].rows
      BY <2>1, Describing
    <3>2. new = [d EXCEPT ![t] = x]
      BY <1>3, <2>2 DEF TablesAfter
    <3>3. t \in DOMAIN d /\ IsTables(d)
      BY <2>1, <3>1 DEF Changes
    <3> HIDE DEF d, new
    <3>4. /\ IsTable(x) /\ ~x.alive /\ x.loaded = d[t].loaded /\ x.updated = d[t].updated
          /\ x.rows = d[t].rows
      BY <3>3 DEF IsTables, IsTable, HasFields
    <3> HIDE DEF x
    <3>5. Changes(tables, new, t) /\ new[t] = x
      BY <3>1, <3>2, <3>3, <3>4 DEF IsTables, Changes
    <3> QED
      BY <1>3, <2>1, <2>2, <3>1, <3>4, <3>5 DEF Changes, new
  <2>3. CASE st.op = "select"
    <3>1. new = Loaded(tables, files, t)
      BY <1>3, <2>3 DEF TablesAfter
    <3> HIDE DEF new
    <3> QED
      BY <2>1, <2>3, <3>1, Loading DEF Changes, new
  <2>4. CASE st.op = "delete"
    <3> DEFINE l == Loaded(tables, files, t)
               x == [l[t] EXCEPT !.rows = {}, !.updated = @ \/ l[t].rows # {}]
    <3>1. /\ Changes(tables, l, t) /\ l[t].alive = tables[t].alive
          /\ l[t].updated = tables[t].updated /\ (tables[t].loaded => l[t].loaded)
      BY <2>1, Loading
    <3>2. new = Emptied(tables, files, t)
      BY <1>3, <2>4 DEF TablesAfter
    <3>3. t \in DOMAIN l /\ IsTables(l)
      BY <2>1, <3>1 DEF Changes
    <3>4. new = [l EXCEPT ![t] = x]
      BY <3>2 DEF Emptied
    <3> HIDE DEF l, new
    <3>5. /\ IsTable(x) /\ x.alive = l[t].alive /\ x.loaded = l[t].loaded
          /\ (l[t].updated => x.updated)
      BY <3>3 DEF IsTables, IsTable, HasFields
    <3> HIDE DEF x
    <3>6. Changes(tables, new, t) /\ new[t] = x
      BY <3>1, <3>3, <3>4, <3>5 DEF IsTables, Changes
    <3> QED
      BY <1>3, <2>1, <2>4, <3>1, <3>5, <3>6 DEF Changes, new
  <2>5. CASE st.op = "insert"
    <3> DEFINE l == Loaded(tables, files, t)
               x == [l[t] EXCEPT !.rows = @ \cup {st.row}, !.updated = TRUE]
    <3>1. /\ Changes(tables, l, t) /\ l[t].alive = tables[t].alive
          /\ (tables[t].loaded => l[t].rows = tables[t].rows)
          /\ (tables[t].loaded \/ Readable(files, t) => l[t].loaded)
      BY <2>1, Loading
    <3>2. new = Inserted(tables, files, t, st.row)
      BY <1>3, <2>5 DEF TablesAfter
    <3>3. t \in DOMAIN l /\ IsTables(l)
      BY <2>1, <3>1 DEF Changes
    <3>4. new = [l EXCEPT ![t] = x]
      BY <3>2 DEF Inserted
    <3> HIDE DEF l, new
    <3>5. /\ IsTable(x) /\ x.alive = l[t].alive /\ x.loaded = l[t].loaded /\ x.updated
          /\ x.rows = l[t].rows \cup {st.row}
      BY <3>3 DEF IsTables, IsTable, HasFields
    <3> HIDE DEF x
    <3>6. Changes(tables, new, t) /\ new[t] = x
      BY <3>1, <3>3, <3>4, <3>5 DEF IsTables, Changes
    <3> QED
      BY <1>3, <2>1, <2>5, <3>1, <3>5, <3>6 DEF Changes, new
  <2> QED
    BY <1>3, <2>2, <2>3, <2>4, <2>5
<1> QED
  BY <1>1, <1>2, <1>3 DEF Ops

-----------------------------------------------------------------------------
(***************************************************************************)
(* What holds of a driver.  A database is open whenever a statement can    *)
(* come: while the program has it open, unless it has just been closed and *)
(* the program has not read so yet.                                        *)
(***************************************************************************)
Fits(call, open) == call.proc = "execute_immediate" => open /\ call.statement \in Statements

Closed(d) ==
    /\ client.d = d /\ client.call.proc = "close_database" /\ drv[d] = "listens"
    /\ \/ client.at = "procnum" /\ rep[d] = <<ProcedureOk, Result(TRUE, 0)>>
       \/ client.at = "result" /\ rep[d] = <<Result(TRUE, 0)>>

Requests(d) ==
    \/ req[d] = <<>>
    \/ drv[d] = "listens" /\ \E call : req[d] = <<Procnum(call)>>
    \/ drv[d] = "args" /\ \E call : req[d] = <<Args(call)>> /\ Fits(call, inner[d].open)

SessionAgrees(d) ==
    /\ d \in session => handle[d] = "open" /\ ~(client.at = "start" /\ client.d = d)
    /\ Alive(d) =>
        /\ Requests(d)
        /\ client.at = "procnum" /\ client.d = d => Fits(client.call, inner[d].open)
        /\ d \in session => inner[d].open \/ Closed(d)
        /\ client.at = "result" /\ client.d = d /\ client.call.proc = "open_database"
             /\ rep[d] # <<>> /\ Head(rep[d]).ok => inner[d].open

(* A row that is not in a file yet is in the table of the driver, which     *)
(* will be saved; a table nobody dropped can be read.                       *)
Keeps(is, state, rows, t) ==
    /\ is \in {"listens", "args", "serves", "saves"} /\ state.open
    /\ is = "saves" => t \in state.todo
    /\ t \in DOMAIN state.tables /\ state.tables[t].alive /\ state.tables[t].updated
    /\ state.tables[t].loaded /\ rows \subseteq state.tables[t].rows

IsDriver(state) ==
    /\ HasFields(state, {"open", "managed", "tokens", "tables", "todo", "saving"})
    /\ IsTables(state.tables)

RowsAgree(d) ==
    /\ IsDriver(inner[d]) /\ (drv[d] = "none" => DOMAIN inner[d].tables = {})
    /\ \A t \in Tables :
        /\ t \in orphaned[d] \/ drv[d] = "none" => pending[d][t] = {}
        /\ Alive(d) /\ pending[d][t] # {} => Keeps(drv[d], inner[d], pending[d][t], t)
        /\ Alive(d) /\ t \in DOMAIN inner[d].tables /\ t \notin orphaned[d] =>
             inner[d].tables[t].alive /\ (inner[d].tables[t].loaded \/ file[t] # Absent)

Shapes ==
    /\ DOMAIN inner = Drivers /\ DOMAIN pending = Drivers /\ DOMAIN orphaned = Drivers
    /\ \A d \in Drivers : DOMAIN pending[d] = Tables
    /\ DOMAIN file = Tables /\ \A t \in Tables : file[t].is # "part"

FilesInv == SyncInv /\ Shapes /\ \A d \in Drivers : SessionAgrees(d) /\ RowsAgree(d)

(* A driver that does not run has nothing.                                  *)
LEMMA Fresh ==
  /\ IsDriver(FreshDriver) /\ DOMAIN FreshDriver.tables = {} /\ ~FreshDriver.open
  /\ FreshDriver.todo = {}
<1>1. HasFields(FreshDriver, {"open", "managed", "tokens", "tables", "todo", "saving"})
  BY DEF HasFields, FreshDriver
<1>2. FreshDriver.tables = <<>> /\ ~FreshDriver.open /\ FreshDriver.todo = {}
  BY DEF FreshDriver
<1>3. <<>> \in Seq({}) /\ Len(<<>>) = 0
  OBVIOUS
<1>4. DOMAIN <<>> = {} /\ <<>> = [t \in DOMAIN <<>> |-> <<>>[t]]
  BY <1>3
<1> QED
  BY <1>1, <1>2, <1>4 DEF IsDriver, IsTables

-----------------------------------------------------------------------------
(* What a step of another driver may do to the tables of driver d.          *)
Undisturbed(d, t) ==
    /\ pending'[d][t] \in {pending[d][t], {}} /\ orphaned[d] \subseteq orphaned'[d]
    /\ t \in orphaned'[d] => t \in orphaned[d] \/ pending'[d][t] = {}
    /\ file'[t] = Absent => file[t] = Absent \/ t \in orphaned'[d]

(* A step of driver e.                                                      *)
LEMMA DriverKeeps ==
  ASSUME FilesInv, SyncInv', NEW e \in Drivers,
         UNCHANGED <<client, handle, session>>,
         OnlyAt(e, drv, drv'), OnlyAt(e, req, req'), OnlyAt(e, rep, rep'), OnlyAt(e, inner, inner'),
         Shapes', \A d \in Drivers \ {e}, t \in Tables : Undisturbed(d, t),
         SessionAgrees(e)', RowsAgree(e)'
  PROVE  FilesInv'
<1>1. ASSUME NEW d \in Drivers, d # e PROVE SessionAgrees(d)' /\ RowsAgree(d)'
  <2>1. /\ drv'[d] = drv[d] /\ req'[d] = req[d] /\ rep'[d] = rep[d] /\ inner'[d] = inner[d]
        /\ SessionAgrees(d) /\ RowsAgree(d)
    BY <1>1 DEF OnlyAt, FilesInv
  <2>2. Alive(d)' <=> Alive(d)
    BY <2>1 DEF Alive
  <2>3. SessionAgrees(d)'
    BY <2>1, <2>2 DEF SessionAgrees, Requests, Closed
  <2>4. RowsAgree(d)'
    <3> SUFFICES ASSUME NEW t \in Tables
                 PROVE  /\ t \in orphaned'[d] \/ drv'[d] = "none" => pending'[d][t] = {}
                        /\ Alive(d)' /\ pending'[d][t] # {} => Keeps(drv'[d], inner'[d], pending'[d][t], t)
                        /\ Alive(d)' /\ t \in DOMAIN inner'[d].tables /\ t \notin orphaned'[d] =>
                             inner'[d].tables[t].alive /\ (inner'[d].tables[t].loaded \/ file'[t] # Absent)
      BY <2>1 DEF RowsAgree
    <3>1. Undisturbed(d, t)
      BY <1>1
    <3> QED
      BY <2>1, <2>2, <3>1 DEF RowsAgree, Undisturbed
  <2> QED
    BY <2>3, <2>4
<1> QED
  BY <1>1 DEF FilesInv

(* Nothing happened to the files.                                           *)
LEMMA FilesSame ==
  ASSUME FilesInv, UNCHANGED <<file, orphaned, pending>>, DOMAIN inner' = Drivers
  PROVE  Shapes' /\ \A d \in Drivers, t \in Tables : Undisturbed(d, t)
  BY DEF FilesInv, Shapes, Undisturbed

(* A driver that ends or is killed.                                         *)
LEMMA Gone ==
  ASSUME FilesInv, NEW e \in Drivers, UNCHANGED <<client, handle, session>>,
         drv'[e] \in {"ended", "killed"}, inner'[e] = FreshDriver,
         \A t \in Tables : t \in orphaned'[e] => pending'[e][t] = {}
  PROVE  SessionAgrees(e)' /\ RowsAgree(e)'
<1>1. ~Alive(e)' /\ drv'[e] # "none"
  BY DEF Alive, Running
<1> QED
  BY <1>1, Fresh DEF FilesInv, SessionAgrees, RowsAgree

(* An answer, or the end of the driver.                                     *)
LEMMA AnswerState ==
  ASSUME FilesInv, NEW e \in Drivers, NEW m, NEW next \in {"listens", "args", "serves"}, NEW state,
         Answer(e, m, next, state)
  PROVE  /\ OnlyAt(e, drv, drv') /\ OnlyAt(e, rep, rep') /\ OnlyAt(e, inner, inner')
         /\ DOMAIN inner' = Drivers
         /\ \/ drv'[e] = next /\ inner'[e] = state /\ rep'[e] = Append(rep[e], m)
            \/ drv'[e] = "ended" /\ inner'[e] = FreshDriver
  BY DEF FilesInv, SyncInv, Shapes, Answer, Becomes, OnlyAt, Running

(* Nothing happened to the tables of a driver.                              *)
LEMMA TablesSame ==
  ASSUME FilesInv, NEW e \in Drivers, UNCHANGED <<file, orphaned, pending>>,
         Alive(e), drv[e] # "saves", drv'[e] \in {"listens", "args", "serves"},
         IsDriver(inner'[e]), inner'[e].tables = inner[e].tables, inner[e].open => inner'[e].open
  PROVE  RowsAgree(e)'
<1>1. RowsAgree(e)
  BY DEF FilesInv
<1> QED
  BY <1>1 DEF RowsAgree, Keeps

(* A driver that goes on with what it has.                                  *)
LEMMA InitFiles ==
  ASSUME FilesInv, SyncInv', NEW e \in Drivers, DriverInit(e)
  PROVE  FilesInv'
<1>1. /\ Alive(e) /\ drv[e] = "init" /\ UNCHANGED <<client, handle, session, req, file, orphaned, pending>>
      /\ \/ Answer(e, Result(TRUE, 0), "listens", inner[e])
         \/ Answer(e, Result(FALSE, 0), "ended", inner[e])
  BY DEF DriverInit, Alive, Running, programVars
<1>2. /\ OnlyAt(e, drv, drv') /\ OnlyAt(e, rep, rep') /\ OnlyAt(e, inner, inner') /\ DOMAIN inner' = Drivers
      /\ \/ drv'[e] = "listens" /\ inner'[e] = inner[e]
         \/ drv'[e] = "ended" /\ inner'[e] = FreshDriver
  BY <1>1 DEF FilesInv, SyncInv, Shapes, Answer, Becomes, OnlyAt, Running
<1>3. OnlyAt(e, req, req') /\ SessionAgrees(e) /\ RowsAgree(e)
  BY <1>1 DEF OnlyAt, FilesInv, SyncInv
<1>4. SessionAgrees(e)' /\ RowsAgree(e)'
  <2>1. CASE drv'[e] = "listens" /\ inner'[e] = inner[e]
    <3>1. RowsAgree(e)'
      BY <1>1, <1>3, <2>1, TablesSame DEF RowsAgree
    <3>2. handle[e] = "open" => PipesAgree(e)
      BY DEF FilesInv, SyncInv
    <3>3. ~(client.at \in {"procnum", "result"} /\ client.d = e)
      BY <1>1, <3>2 DEF FilesInv, SyncInv, Exchanging, PipesAgree, Asking, Awaiting
    <3>4. SessionAgrees(e)'
      BY <1>1, <1>3, <2>1, <3>3 DEF SessionAgrees, Requests, Closed
    <3> QED
      BY <3>1, <3>4
  <2>2. CASE drv'[e] = "ended" /\ inner'[e] = FreshDriver
    BY <1>1, <1>3, <2>2, Gone DEF RowsAgree
  <2> QED
    BY <1>2, <2>1, <2>2
<1> QED
  BY <1>1, <1>2, <1>3, <1>4, FilesSame, DriverKeeps

(* A request is taken: the program waits for its number.                    *)
LEMMA ProcnumFiles ==
  ASSUME FilesInv, SyncInv', NEW e \in Drivers, ReceiveProcnum(e)
  PROVE  FilesInv'
<1> DEFINE next == IF HasArgs(Head(req[e]).call) THEN "args" ELSE "serves"
<1>1. /\ Alive(e) /\ drv[e] = "listens" /\ req[e] # <<>>
      /\ UNCHANGED <<client, handle, session, file, orphaned, pending>>
      /\ req' = [req EXCEPT ![e] = Tail(@)]
      /\ Answer(e, ProcedureOk, next, inner[e])
  BY DEF ReceiveProcnum, Alive, Running, programVars
<1>2. next \in {"listens", "args", "serves"}
  OBVIOUS
<1> HIDE DEF next
<1>3. /\ OnlyAt(e, drv, drv') /\ OnlyAt(e, rep, rep') /\ OnlyAt(e, inner, inner') /\ DOMAIN inner' = Drivers
      /\ \/ drv'[e] = next /\ inner'[e] = inner[e] /\ rep'[e] = Append(rep[e], ProcedureOk)
         \/ drv'[e] = "ended" /\ inner'[e] = FreshDriver
  BY <1>1, <1>2, AnswerState
<1>4. OnlyAt(e, req, req') /\ req'[e] = Tail(req[e]) /\ SessionAgrees(e) /\ RowsAgree(e)
  BY <1>1 DEF OnlyAt, FilesInv, SyncInv
<1>5. req'[e] = <<>>
  BY <1>1, <1>4, Ones DEF SessionAgrees, Requests
<1>6. SessionAgrees(e)' /\ RowsAgree(e)'
  <2>1. CASE drv'[e] = next /\ inner'[e] = inner[e]
    <3>1. RowsAgree(e)' /\ next \in {"args", "serves"}
      BY <1>1, <1>2, <1>4, <2>1, TablesSame DEF RowsAgree, next
    <3>2. handle[e] = "open" => client.at = "procnum" /\ client.d = e /\ rep[e] = <<>>
      BY <1>1 DEF FilesInv, SyncInv, PipesAgree, Exchanging, Quiet, Starting, Asking, Awaiting
    <3>3. e \in session => inner[e].open
      <4>1. <<ProcedureOk, Result(TRUE, 0)>> # <<>>
        BY Twos
      <4> QED
        BY <1>1, <1>4, <3>2, <4>1 DEF SessionAgrees, Closed
    <3>4. ~(client.at = "result" /\ client.d = e)
      BY <3>2 DEF FilesInv, SyncInv, Exchanging
    <3>5. SessionAgrees(e)'
      BY <1>1, <1>4, <1>5, <2>1, <3>3, <3>4 DEF SessionAgrees, Requests
    <3> QED
      BY <3>1, <3>5
  <2>2. CASE drv'[e] = "ended" /\ inner'[e] = FreshDriver
    BY <1>1, <1>4, <2>2, Gone DEF RowsAgree
  <2> QED
    BY <1>3, <2>1, <2>2
<1> QED
  BY <1>1, <1>3, <1>4, <1>6, FilesSame, DriverKeeps

(* The end of a driver, by itself or killed.                                *)
LEMMA GoneFiles ==
  ASSUME FilesInv, SyncInv', NEW e \in Drivers, EndOfRequests(e) \/ DriverKilled(e)
  PROVE  FilesInv'
<1>1. /\ UNCHANGED <<client, handle, session, rep, file, orphaned, pending>>
      /\ Becomes(e, "ended", inner[e]) \/ Becomes(e, "killed", inner[e])
      /\ UNCHANGED req \/ req' = [req EXCEPT ![e] = <<>>]
  BY DEF EndOfRequests, DriverKilled, programVars
<1>2. /\ OnlyAt(e, drv, drv') /\ OnlyAt(e, rep, rep') /\ OnlyAt(e, req, req') /\ OnlyAt(e, inner, inner')
      /\ drv'[e] \in {"ended", "killed"} /\ inner'[e] = FreshDriver /\ DOMAIN inner' = Drivers
  BY <1>1 DEF FilesInv, SyncInv, Shapes, Becomes, OnlyAt, Running
<1>3. SessionAgrees(e)' /\ RowsAgree(e)'
  BY <1>1, <1>2, Gone DEF FilesInv, RowsAgree
<1> QED
  BY <1>1, <1>2, <1>3, FilesSame, DriverKeeps

-----------------------------------------------------------------------------
(* A routine is called by the program that waits for its result, and while  *)
(* the program has a database open so has the driver.                       *)
LEMMA Served ==
  ASSUME FilesInv, NEW e \in Drivers, drv[e] = "args", req[e] # <<>>
  PROVE  /\ Tail(req[e]) = <<>> /\ Fits(Head(req[e]).call, inner[e].open)
         /\ e \in session => inner[e].open
         /\ client.at \in Exchanging /\ client.d = e =>
              client.at = "result" /\ Head(req[e]).call = client.call /\ rep[e] = <<>>
<1>1. Alive(e) /\ SessionAgrees(e)
  BY DEF FilesInv, Alive, Running
<1>2. PICK call : req[e] = <<Args(call)>> /\ Fits(call, inner[e].open)
  BY <1>1 DEF SessionAgrees, Requests
<1>3. Tail(req[e]) = <<>> /\ Head(req[e]) = Args(call)
  BY <1>2, Ones
<1>4. Head(req[e]).call = call
  BY <1>3, Messages
<1>5. e \in session => inner[e].open
  BY <1>1 DEF SessionAgrees, Closed
<1>6. ASSUME client.at \in Exchanging, client.d = e
      PROVE  client.at = "result" /\ Head(req[e]).call = client.call /\ rep[e] = <<>>
  <2>1. PipesAgree(e)
    BY <1>6 DEF FilesInv, SyncInv
  <2>2. client.at = "result" /\ req[e] = <<Args(client.call)>> /\ rep[e] = <<>>
    BY <1>6, <2>1 DEF PipesAgree, Exchanging, Quiet, Starting, Asking, Awaiting
  <2>3. Head(req[e]) = Args(client.call)
    BY <2>2, Ones
  <2> QED
    BY <2>2, <2>3, Messages
<1> QED
  BY <1>2, <1>3, <1>4, <1>5, <1>6

(* After a routine the driver listens, with its database still open.        *)
LEMMA ServedSession ==
  ASSUME FilesInv, NEW e \in Drivers, drv[e] = "args", req[e] # <<>>,
         UNCHANGED <<client, handle, session>>, req' = [req EXCEPT ![e] = Tail(@)],
         NEW ok, NEW token, drv'[e] = "listens", rep'[e] = Append(rep[e], Result(ok, token)),
         inner[e].open => inner'[e].open,
         Head(req[e]).call.proc = "open_database" /\ ok => inner'[e].open
  PROVE  SessionAgrees(e)'
<1>1. req'[e] = <<>>
  BY Served DEF FilesInv, SyncInv
<1>2. SessionAgrees(e)
  BY DEF FilesInv
<1>3. ASSUME client.at = "result", client.d = e, client.call.proc = "open_database",
             rep'[e] # <<>>, Head(rep'[e]).ok
      PROVE  inner'[e].open
  <2>1. rep'[e] = <<Result(ok, token)>> /\ Head(req[e]).call = client.call
    BY <1>3, Served, Ones DEF Exchanging
  <2>2. Head(rep'[e]) = Result(ok, token)
    BY <2>1, Ones
  <2> QED
    BY <1>3, <2>1, <2>2, Messages
<1>4. ~(client.at = "procnum" /\ client.d = e)
  BY Served DEF Exchanging
<1> QED
  BY <1>1, <1>2, <1>3, <1>4, Served DEF SessionAgrees, Requests

(* A fetch and the closing of a cursor leave the tables.                    *)
LEMMA CursorFiles ==
  ASSUME FilesInv, SyncInv', NEW e \in Drivers, ServeFetch(e) \/ ServeCloseCursor(e)
  PROVE  FilesInv'
<1>1. /\ drv[e] = "args" /\ req[e] # <<>> /\ Head(req[e]).call.proc \in {"fetch", "close_cursor"}
      /\ req' = [req EXCEPT ![e] = Tail(@)]
      /\ UNCHANGED <<client, handle, session, file, orphaned, pending>>
  BY DEF ServeFetch, ServeCloseCursor, Serving, programVars
<1>2. Alive(e) /\ OnlyAt(e, req, req') /\ RowsAgree(e) /\ IsDriver(inner[e])
  BY <1>1 DEF Alive, Running, OnlyAt, FilesInv, SyncInv, RowsAgree
<1>3. ASSUME NEW ok, NEW state, Replies(e, ok, 0, state), IsDriver(state), state.tables = inner[e].tables,
             state.open = inner[e].open
      PROVE  FilesInv'
  <2> DEFINE m == Result(ok, 0)
  <2> HIDE DEF m
  <2>1. Answer(e, m, "listens", state)
    BY <1>3 DEF Replies, m
  <2>2. /\ OnlyAt(e, drv, drv') /\ OnlyAt(e, rep, rep') /\ OnlyAt(e, inner, inner') /\ DOMAIN inner' = Drivers
        /\ \/ drv'[e] = "listens" /\ inner'[e] = state /\ rep'[e] = Append(rep[e], m)
           \/ drv'[e] = "ended" /\ inner'[e] = FreshDriver
    BY <2>1 DEF FilesInv, SyncInv, Shapes, Answer, Becomes, OnlyAt, Running
  <2>3. CASE drv'[e] = "listens" /\ inner'[e] = state /\ rep'[e] = Append(rep[e], m)
    <3>1. RowsAgree(e)'
      BY <1>1, <1>2, <1>3, <2>3, TablesSame
    <3>2. SessionAgrees(e)'
      BY <1>1, <1>3, <2>3, ServedSession DEF m
    <3> QED
      BY <1>1, <1>2, <2>2, <3>1, <3>2, FilesSame, DriverKeeps
  <2>4. CASE drv'[e] = "ended" /\ inner'[e] = FreshDriver
    <3>1. SessionAgrees(e)' /\ RowsAgree(e)'
      BY <1>1, <1>2, <2>4, Gone DEF RowsAgree
    <3> QED
      BY <1>1, <1>2, <2>2, <3>1, FilesSame, DriverKeeps
  <2> QED
    BY <2>2, <2>3, <2>4
<1>4. ASSUME drv'[e] = "ended", inner'[e] = FreshDriver,
             OnlyAt(e, drv, drv'), OnlyAt(e, rep, rep'), OnlyAt(e, inner, inner')
      PROVE  FilesInv'
  <2>1. SessionAgrees(e)' /\ RowsAgree(e)'
    BY <1>1, <1>2, <1>4, Gone DEF RowsAgree
  <2>2. DOMAIN inner' = Drivers
    BY <1>4 DEF OnlyAt
  <2> QED
    BY <1>1, <1>2, <1>4, <2>1, <2>2, FilesSame, DriverKeeps
<1>5. CASE ServeFetch(e)
  <2> DEFINE c == FindToken(inner[e].tokens, Head(req[e]).call.token)
             ok == FindToken(inner[e].tokens, c.own) = OwnCursor
  <2>1. Replies(e, ok, 0, inner[e]) \/ Answer(e, Result(FALSE, 0), "ended", inner[e])
    BY <1>5 DEF ServeFetch
  <2>2. CASE Replies(e, ok, 0, inner[e])
    <3> HIDE DEF ok
    <3> QED
      BY <1>2, <1>3, <2>2
  <2>3. CASE Answer(e, Result(FALSE, 0), "ended", inner[e])
    <3>1. /\ OnlyAt(e, drv, drv') /\ OnlyAt(e, rep, rep') /\ OnlyAt(e, inner, inner')
          /\ drv'[e] = "ended" /\ inner'[e] = FreshDriver
      BY <2>3 DEF FilesInv, SyncInv, Shapes, Answer, Becomes, OnlyAt, Running
    <3> QED
      BY <1>4, <3>1
  <2> QED
    BY <2>1, <2>2, <2>3
<1>6. CASE ServeCloseCursor(e)
  <2> DEFINE token == Head(req[e]).call.token
             c == FindToken(inner[e].tokens, token)
             ok == FindToken(inner[e].tokens, c.own) = OwnCursor
             state == [inner[e] EXCEPT !.tokens = ClosedTokens(@, token), !.managed = @ \ {token}]
  <2>1. Replies(e, ok, 0, state) \/ (Becomes(e, "ended", inner[e]) /\ UNCHANGED rep)
    BY <1>6 DEF ServeCloseCursor
  <2>2. CASE Replies(e, ok, 0, state)
    <3>1. IsDriver(state) /\ state.tables = inner[e].tables /\ state.open = inner[e].open
      BY <1>2 DEF IsDriver, HasFields
    <3> HIDE DEF ok, state
    <3> QED
      BY <1>3, <2>2, <3>1
  <2>3. CASE Becomes(e, "ended", inner[e]) /\ UNCHANGED rep
    <3>1. /\ OnlyAt(e, drv, drv') /\ OnlyAt(e, rep, rep') /\ OnlyAt(e, inner, inner')
          /\ drv'[e] = "ended" /\ inner'[e] = FreshDriver
      BY <2>3 DEF FilesInv, SyncInv, Shapes, Becomes, OnlyAt, Running
    <3> QED
      BY <1>4, <3>1
  <2> QED
    BY <2>1, <2>2, <2>3
<1> QED
  BY <1>5, <1>6

-----------------------------------------------------------------------------
(* What a statement of driver e does to the files and to what is relied on. *)
Drops(ok, st, t) == ok /\ st.op = "drop" /\ t = st.table
LEMMA Effects ==
  ASSUME FilesInv, NEW e \in Drivers, NEW st, st.op \in Ops, NEW ok,
         ok <=> Succeeds(inner[e].tables, file, st),
         file' = FilesAfter(inner[e].tables, file, st),
         pending' = IF ok THEN PendingAfter(e, st) ELSE pending,
         orphaned' = IF ok THEN OrphanedAfter(st) ELSE orphaned
  PROVE  /\ DOMAIN file' = Tables /\ DOMAIN orphaned' = Drivers /\ DOMAIN pending' = Drivers
         /\ \A d \in Drivers : DOMAIN pending'[d] = Tables
         /\ \A t \in Tables : file'[t] = IF Drops(ok, st, t) THEN Absent ELSE file[t]
         /\ \A d \in Drivers, t \in Tables :
              /\ t \in orphaned'[d] <=> t \in orphaned[d] \/ Drops(ok, st, t)
              /\ orphaned[d] \subseteq orphaned'[d]
              /\ \/ Drops(ok, st, t) /\ pending'[d][t] = {}
                 \/ ok /\ st.op = "delete" /\ t = st.table /\ d = e /\ pending'[d][t] = {}
                 \/ /\ ok /\ st.op = "insert" /\ t = st.table /\ d = e /\ t \notin orphaned[d]
                    /\ pending'[d][t] = pending[d][t] \cup {st.row}
                 \/ /\ ~Drops(ok, st, t) /\ ~(ok /\ st.op = "delete" /\ t = st.table /\ d = e)
                    /\ pending'[d][t] = pending[d][t]
<1>1. Shapes
  BY DEF FilesInv
<1>2. CASE ok /\ st.op = "drop"
  <2>1. /\ file' = [file EXCEPT ![st.table] = Absent]
        /\ pending' = [d \in Drivers |-> [pending[d] EXCEPT ![st.table] = {}]]
        /\ orphaned' = [d \in Drivers |-> orphaned[d] \cup {st.table}]
    BY <1>2 DEF FilesAfter, PendingAfter, OrphanedAfter
  <2> QED
    BY <1>1, <1>2, <2>1 DEF Shapes, Drops
<1>3. CASE ok /\ st.op = "delete"
  <2>1. /\ file' = file /\ orphaned' = orphaned
        /\ pending' = [pending EXCEPT ![e][st.table] = {}]
    BY <1>3 DEF FilesAfter, PendingAfter, OrphanedAfter
  <2>2. pending' = [pending EXCEPT ![e] = [pending[e] EXCEPT ![st.table] = {}]]
    BY <2>1
  <2> QED
    BY <1>1, <1>3, <2>1, <2>2 DEF Shapes, Drops
<1>4. CASE ok /\ st.op = "insert" /\ st.table \notin orphaned[e]
  <2>1. /\ file' = file /\ orphaned' = orphaned
        /\ pending' = [pending EXCEPT ![e][st.table] = @ \cup {st.row}]
    BY <1>4 DEF FilesAfter, PendingAfter, OrphanedAfter
  <2>2. pending' = [pending EXCEPT ![e] = [pending[e] EXCEPT ![st.table] = pending[e][st.table] \cup {st.row}]]
    BY <2>1
  <2> QED
    BY <1>1, <1>4, <2>1, <2>2 DEF Shapes, Drops
<1>5. CASE ~(ok /\ st.op \in {"drop", "delete"}) /\ ~(ok /\ st.op = "insert" /\ st.table \notin orphaned[e])
  <2>1. file' = file /\ orphaned' = orphaned /\ pending' = pending
    BY <1>5 DEF FilesAfter, PendingAfter, OrphanedAfter
  <2> QED
    BY <1>1, <1>5, <2>1 DEF Shapes, Drops
<1> QED
  BY <1>2, <1>3, <1>4, <1>5

(* A statement keeps what was inserted before, and what it inserts.         *)
LEMMA StatementRows ==
  ASSUME FilesInv, NEW e \in Drivers, drv[e] = "args", NEW st, st.op \in Ops, NEW ok,
         ok <=> Succeeds(inner[e].tables, file, st), st.op = "insert" => inner[e].open,
         file' = FilesAfter(inner[e].tables, file, st),
         pending' = IF ok THEN PendingAfter(e, st) ELSE pending,
         orphaned' = IF ok THEN OrphanedAfter(st) ELSE orphaned,
         drv'[e] = "listens", IsDriver(inner'[e]), inner'[e].open = inner[e].open,
         inner'[e].tables = TablesAfter(inner[e].tables, file, st)
  PROVE  RowsAgree(e)'
<1> DEFINE old == inner[e].tables
           new == inner'[e].tables
<1>1. RowsAgree(e) /\ Alive(e) /\ IsTables(old)
  BY DEF FilesInv, RowsAgree, IsDriver, Alive, Running
<1>2. /\ DOMAIN old \subseteq DOMAIN new
      /\ \A u \in DOMAIN new : u # st.table => u \in DOMAIN old /\ new[u] = old[u]
      /\ st.table \in DOMAIN new /\ st.table \notin DOMAIN old => new[st.table] = Created
      /\ st.table \in DOMAIN old =>
           /\ old[st.table].alive /\ ~new[st.table].alive => st.op = "drop" /\ ok
           /\ old[st.table].updated => new[st.table].updated
           /\ old[st.table].loaded => new[st.table].loaded
           /\ old[st.table].loaded /\ ~(st.op = "delete" /\ ok) => old[st.table].rows \subseteq new[st.table].rows
      /\ ok /\ st.op = "insert" =>
           /\ st.table \in DOMAIN old /\ new[st.table].updated /\ st.row \in new[st.table].rows
           /\ new[st.table].alive = old[st.table].alive
           /\ old[st.table].loaded \/ Readable(file, st.table) => new[st.table].loaded
  BY <1>1, StatementOnTables
<1> HIDE DEF old, new
<1>3. ASSUME NEW t \in Tables
      PROVE  /\ t \in orphaned'[e] => pending'[e][t] = {}
             /\ pending'[e][t] # {} => Keeps("listens", inner'[e], pending'[e][t], t)
             /\ t \in DOMAIN new /\ t \notin orphaned'[e] => new[t].alive /\ (new[t].loaded \/ file'[t] # Absent)
  <2>1. /\ t \in orphaned'[e] <=> t \in orphaned[e] \/ Drops(ok, st, t)
        /\ file'[t] = IF Drops(ok, st, t) THEN Absent ELSE file[t]
        /\ \/ Drops(ok, st, t) /\ pending'[e][t] = {}
           \/ ok /\ st.op = "delete" /\ t = st.table /\ pending'[e][t] = {}
           \/ /\ ok /\ st.op = "insert" /\ t = st.table /\ t \notin orphaned[e]
              /\ pending'[e][t] = pending[e][t] \cup {st.row}
           \/ /\ ~Drops(ok, st, t) /\ ~(ok /\ st.op = "delete" /\ t = st.table)
              /\ pending'[e][t] = pending[e][t]
    BY Effects
  <2>2. /\ t \in orphaned[e] => pending[e][t] = {}
        /\ pending[e][t] # {} =>
             /\ inner[e].open /\ t \in DOMAIN old /\ old[t].alive /\ old[t].updated /\ old[t].loaded
             /\ pending[e][t] \subseteq old[t].rows
        /\ t \in DOMAIN old /\ t \notin orphaned[e] => old[t].alive /\ (old[t].loaded \/ file[t] # Absent)
    BY <1>1 DEF RowsAgree, Keeps, old
  <2>3. t \in orphaned'[e] => pending'[e][t] = {}
    BY <2>1, <2>2 DEF Drops
  <2>4. t \in DOMAIN new /\ t \notin orphaned'[e] => new[t].alive /\ (new[t].loaded \/ file'[t] # Absent)
    <3>1. CASE t # st.table
      BY <1>2, <2>1, <2>2, <3>1 DEF Drops
    <3>2. CASE t = st.table /\ t \notin DOMAIN old
      BY <1>2, <3>2 DEF Created
    <3>3. CASE t = st.table /\ t \in DOMAIN old
      BY <1>2, <2>1, <2>2, <3>3 DEF Drops
    <3> QED
      BY <3>1, <3>2, <3>3
  <2>5. ASSUME pending'[e][t] # {} PROVE Keeps("listens", inner'[e], pending'[e][t], t)
    <3>1. CASE ok /\ st.op = "insert" /\ t = st.table /\ t \notin orphaned[e]
               /\ pending'[e][t] = pending[e][t] \cup {st.row}
      <4>1. /\ t \in DOMAIN new /\ new[t].updated /\ st.row \in new[t].rows /\ new[t].alive
            /\ new[t].loaded /\ inner'[e].open
        BY <1>2, <2>2, <3>1 DEF Readable
      <4>2. pending[e][t] \subseteq new[t].rows
        BY <1>2, <2>2, <3>1
      <4> QED
        BY <3>1, <4>1, <4>2 DEF Keeps, new
    <3>2. CASE ~Drops(ok, st, t) /\ ~(ok /\ st.op = "delete" /\ t = st.table) /\ pending'[e][t] = pending[e][t]
      <4>1. /\ t \in DOMAIN new /\ new[t].updated /\ new[t].alive
            /\ new[t].loaded /\ inner'[e].open /\ pending[e][t] \subseteq new[t].rows
        BY <1>2, <2>2, <2>5, <3>2 DEF Drops
      <4> QED
        BY <3>2, <4>1 DEF Keeps, new
    <3> QED
      BY <2>1, <2>5, <3>1, <3>2
  <2> QED
    BY <2>3, <2>4, <2>5
<1> QED
  BY <1>3 DEF RowsAgree, new

(* A statement as a step of the driver.                                     *)
LEMMA StatementFiles ==
  ASSUME FilesInv, SyncInv', NEW e \in Drivers, drv[e] = "args", req[e] # <<>>,
         Head(req[e]).call.proc # "open_database",
         UNCHANGED <<client, handle, session>>, req' = [req EXCEPT ![e] = Tail(@)],
         NEW st, st.op \in Ops, NEW ok, NEW token, NEW state, Replies(e, ok, token, state),
         ok <=> Succeeds(inner[e].tables, file, st), st.op = "insert" => inner[e].open,
         file' = FilesAfter(inner[e].tables, file, st),
         pending' = IF ok THEN PendingAfter(e, st) ELSE pending,
         orphaned' = IF ok THEN OrphanedAfter(st) ELSE orphaned,
         IsDriver(state), state.open = inner[e].open,
         state.tables = TablesAfter(inner[e].tables, file, st)
  PROVE  FilesInv'
<1> DEFINE m == Result(ok, token)
<1>1. Answer(e, m, "listens", state)
  BY DEF Replies
<1> HIDE DEF m
<1>2. /\ OnlyAt(e, drv, drv') /\ OnlyAt(e, rep, rep') /\ OnlyAt(e, inner, inner') /\ DOMAIN inner' = Drivers
      /\ \/ drv'[e] = "listens" /\ inner'[e] = state /\ rep'[e] = Append(rep[e], m)
         \/ drv'[e] = "ended" /\ inner'[e] = FreshDriver
  BY <1>1 DEF FilesInv, SyncInv, Shapes, Answer, Becomes, OnlyAt, Running
<1>3. /\ DOMAIN file' = Tables /\ DOMAIN orphaned' = Drivers /\ DOMAIN pending' = Drivers
      /\ \A d \in Drivers : DOMAIN pending'[d] = Tables
      /\ \A t \in Tables : file'[t] = IF Drops(ok, st, t) THEN Absent ELSE file[t]
      /\ \A d \in Drivers, t \in Tables :
           /\ t \in orphaned'[d] <=> t \in orphaned[d] \/ Drops(ok, st, t)
           /\ orphaned[d] \subseteq orphaned'[d]
           /\ \/ Drops(ok, st, t) /\ pending'[d][t] = {}
              \/ ok /\ st.op = "delete" /\ t = st.table /\ d = e /\ pending'[d][t] = {}
              \/ /\ ok /\ st.op = "insert" /\ t = st.table /\ d = e /\ t \notin orphaned[d]
                 /\ pending'[d][t] = pending[d][t] \cup {st.row}
              \/ /\ ~Drops(ok, st, t) /\ ~(ok /\ st.op = "delete" /\ t = st.table /\ d = e)
                 /\ pending'[d][t] = pending[d][t]
  BY Effects
<1>4. Shapes'
  BY <1>2, <1>3 DEF FilesInv, Shapes, Absent
<1>5. \A d \in Drivers \ {e}, t \in Tables : Undisturbed(d, t)
  BY <1>3 DEF Undisturbed
<1>6. \A t \in Tables : t \in orphaned'[e] => pending'[e][t] = {}
  BY <1>3 DEF FilesInv, RowsAgree, Drops
<1>7. SessionAgrees(e)' /\ RowsAgree(e)'
  <2>1. CASE drv'[e] = "listens" /\ inner'[e] = state /\ rep'[e] = Append(rep[e], m)
    <3>1. RowsAgree(e)'
      BY <2>1, StatementRows
    <3>2. SessionAgrees(e)'
      BY <2>1, ServedSession DEF m
    <3> QED
      BY <3>1, <3>2
  <2>2. CASE drv'[e] = "ended" /\ inner'[e] = FreshDriver
    BY <1>6, <2>2, Gone
  <2> QED
    BY <1>2, <2>1, <2>2
<1>8. OnlyAt(e, req, req')
  BY DEF OnlyAt, FilesInv, SyncInv
<1> QED
  BY <1>2, <1>4, <1>5, <1>7, <1>8, DriverKeeps

(* The statements.                                                          *)
LEMMA ExecuteFiles ==
  ASSUME FilesInv, SyncInv', NEW e \in Drivers, ServeExecute(e)
  PROVE  FilesInv'
<1> DEFINE st == Head(req[e]).call.statement
           ok == Succeeds(inner[e].tables, file, st)
           state == [inner[e] EXCEPT !.tables = TablesAfter(@, file, st)]
<1>1. /\ drv[e] = "args" /\ req[e] # <<>> /\ Head(req[e]).call.proc = "execute_immediate"
      /\ req' = [req EXCEPT ![e] = Tail(@)] /\ UNCHANGED <<client, handle, session>>
  BY DEF ServeExecute, Serving, programVars
<1>2. /\ Replies(e, ok, 0, state)
      /\ file' = FilesAfter(inner[e].tables, file, st)
      /\ pending' = IF ok THEN PendingAfter(e, st) ELSE pending
      /\ orphaned' = IF ok THEN OrphanedAfter(st) ELSE orphaned
  BY DEF ServeExecute
<1>3. inner[e].open /\ st \in Statements
  BY <1>1, Served DEF Fits
<1>4. st.op \in Ops
  BY <1>3 DEF Statements, Ops
<1>5. IsDriver(inner[e]) /\ IsTables(inner[e].tables)
  BY DEF FilesInv, RowsAgree, IsDriver
<1> HIDE DEF st
<1>6. IsTables(TablesAfter(inner[e].tables, file, st))
  BY <1>4, <1>5, StatementOnTables
<1>7. /\ IsDriver(state) /\ state.open = inner[e].open
      /\ state.tables = TablesAfter(inner[e].tables, file, st)
  BY <1>5, <1>6 DEF IsDriver, HasFields
<1>8. ok <=> Succeeds(inner[e].tables, file, st)
  OBVIOUS
<1>9. Head(req[e]).call.proc # "open_database"
  BY <1>1
<1> HIDE DEF ok, state
<1> QED
  BY <1>1, <1>2, <1>3, <1>4, <1>7, <1>8, <1>9, StatementFiles

(* The select of a cursor.                                                  *)
LEMMA SelectFiles ==
  ASSUME FilesInv, SyncInv', NEW e \in Drivers, ServeOpenSelect(e)
  PROVE  FilesInv'
<1> DEFINE call == Head(req[e]).call
           st == [op |-> "select", table |-> call.table]
           after == [inner[e] EXCEPT !.tables = TablesAfter(@, file, st)]
           token == NewToken(inner[e].tokens)
           yes == [after EXCEPT !.tokens = SelectedTokens(@, call.mode), !.managed = @ \cup {token}]
           no == [after EXCEPT !.tokens = SelectTokens(@, call.mode)]
<1>1. /\ drv[e] = "args" /\ req[e] # <<>> /\ Head(req[e]).call.proc = "open_select_cursor"
      /\ req' = [req EXCEPT ![e] = Tail(@)] /\ UNCHANGED <<client, handle, session, file, orphaned, pending>>
  BY DEF ServeOpenSelect, Serving, programVars
<1>2. \/ Succeeds(inner[e].tables, file, st) /\ Replies(e, TRUE, token, yes)
      \/ ~Succeeds(inner[e].tables, file, st) /\ Replies(e, FALSE, 0, no)
  BY DEF ServeOpenSelect
<1>3. st.op = "select" /\ st.op \in Ops
  BY DEF Ops
<1>4. IsDriver(inner[e]) /\ IsTables(inner[e].tables)
  BY DEF FilesInv, RowsAgree, IsDriver
<1> HIDE DEF st
<1>5. IsTables(TablesAfter(inner[e].tables, file, st))
  BY <1>3, <1>4, StatementOnTables
<1>6. /\ IsDriver(after) /\ after.open = inner[e].open
      /\ after.tables = TablesAfter(inner[e].tables, file, st)
  BY <1>4, <1>5 DEF IsDriver, HasFields
<1> HIDE DEF after
<1>7. /\ IsDriver(yes) /\ yes.open = inner[e].open /\ yes.tables = TablesAfter(inner[e].tables, file, st)
      /\ IsDriver(no) /\ no.open = inner[e].open /\ no.tables = TablesAfter(inner[e].tables, file, st)
  BY <1>6 DEF IsDriver, HasFields
<1>8. \A ok : /\ file' = FilesAfter(inner[e].tables, file, st)
              /\ pending' = IF ok THEN PendingAfter(e, st) ELSE pending
              /\ orphaned' = IF ok THEN OrphanedAfter(st) ELSE orphaned
  BY <1>1, <1>3 DEF FilesAfter, PendingAfter, OrphanedAfter
<1>9. Head(req[e]).call.proc # "open_database" /\ st.op # "insert"
  BY <1>1, <1>3
<1> HIDE DEF yes, no, token
<1>10. CASE Succeeds(inner[e].tables, file, st) /\ Replies(e, TRUE, token, yes)
  BY <1>1, <1>3, <1>7, <1>8, <1>9, <1>10, StatementFiles
<1>11. CASE ~Succeeds(inner[e].tables, file, st) /\ Replies(e, FALSE, 0, no)
  BY <1>1, <1>3, <1>7, <1>8, <1>9, <1>11, StatementFiles
<1> QED
  BY <1>2, <1>10, <1>11

(* A database that is opened has the tables of its files.                   *)
LEMMA OpenFiles ==
  ASSUME FilesInv, SyncInv', NEW e \in Drivers, ServeOpenDatabase(e)
  PROVE  FilesInv'
<1> DEFINE state == [inner[e] EXCEPT !.open = TRUE, !.tables = OpenedTables(file)]
<1>1. /\ drv[e] = "args" /\ req[e] # <<>>
      /\ req' = [req EXCEPT ![e] = Tail(@)] /\ UNCHANGED <<client, handle, session, file, pending>>
      /\ \/ inner[e].open /\ Replies(e, FALSE, 0, inner[e]) /\ UNCHANGED orphaned
         \/ /\ ~inner[e].open /\ Replies(e, TRUE, 0, state)
            /\ orphaned' = [orphaned EXCEPT ![e] = {}]
  BY DEF ServeOpenDatabase, Serving, programVars
<1>2. Alive(e) /\ OnlyAt(e, req, req') /\ RowsAgree(e) /\ IsDriver(inner[e])
  BY <1>1 DEF Alive, Running, OnlyAt, FilesInv, SyncInv, RowsAgree
<1>3. /\ IsDriver(state) /\ state.open /\ state.tables = OpenedTables(file)
      /\ \A t \in DOMAIN OpenedTables(file) : OpenedTables(file)[t] = Listed /\ file[t] # Absent
  <2>1. IsTable(Listed)
    BY DEF IsTable, HasFields, Listed
  <2>2. IsTables(OpenedTables(file))
    BY <2>1 DEF IsTables, OpenedTables
  <2> QED
    BY <1>2, <2>2 DEF IsDriver, HasFields, OpenedTables
<1> HIDE DEF state
<1>4. PICK ok, next :
         /\ ok \in BOOLEAN /\ Replies(e, ok, 0, next) /\ next.open
         /\ \/ next = inner[e] /\ UNCHANGED orphaned
            \/ ~inner[e].open /\ next = state /\ orphaned' = [orphaned EXCEPT ![e] = {}]
  BY <1>1, <1>3
<1> DEFINE m == Result(ok, 0)
<1>5. Answer(e, m, "listens", next)
  BY <1>4 DEF Replies
<1> HIDE DEF m
<1>6. /\ OnlyAt(e, drv, drv') /\ OnlyAt(e, rep, rep') /\ OnlyAt(e, inner, inner') /\ DOMAIN inner' = Drivers
      /\ \/ drv'[e] = "listens" /\ inner'[e] = next /\ rep'[e] = Append(rep[e], m)
         \/ drv'[e] = "ended" /\ inner'[e] = FreshDriver
  BY <1>5 DEF FilesInv, SyncInv, Shapes, Answer, Becomes, OnlyAt, Running
<1>7. /\ DOMAIN orphaned' = Drivers
      /\ \A d \in Drivers : d # e => orphaned'[d] = orphaned[d]
      /\ orphaned'[e] \in {orphaned[e], {}}
  BY <1>4 DEF FilesInv, Shapes
<1>8. Shapes' /\ \A d \in Drivers \ {e}, t \in Tables : Undisturbed(d, t)
  BY <1>1, <1>6, <1>7 DEF FilesInv, Shapes, Undisturbed
<1>9. SessionAgrees(e)' /\ RowsAgree(e)'
  <2>1. CASE drv'[e] = "listens" /\ inner'[e] = next /\ rep'[e] = Append(rep[e], m)
    <3>1. SessionAgrees(e)'
      BY <1>1, <1>4, <2>1, ServedSession DEF m
    <3>2. CASE next = inner[e] /\ UNCHANGED orphaned
      BY <1>1, <1>2, <1>4, <2>1, <3>1, <3>2, TablesSame
    <3>3. CASE ~inner[e].open /\ next = state /\ orphaned' = [orphaned EXCEPT ![e] = {}]
      <4>1. \A t \in Tables : pending'[e][t] = {}
        BY <1>1, <1>2, <3>3 DEF RowsAgree, Keeps
      <4>2. RowsAgree(e)'
        BY <1>1, <1>3, <2>1, <3>3, <4>1 DEF RowsAgree, Listed
      <4> QED
        BY <3>1, <4>2
    <3> QED
      BY <1>4, <3>2, <3>3
  <2>2. CASE drv'[e] = "ended" /\ inner'[e] = FreshDriver
    BY <1>1, <1>2, <1>7, <2>2, Gone DEF RowsAgree
  <2> QED
    BY <1>6, <2>1, <2>2
<1> QED
  BY <1>1, <1>2, <1>6, <1>8, <1>9, DriverKeeps

-----------------------------------------------------------------------------
(* A driver that closes its database has been called for that.              *)
LEMMA Closing ==
  ASSUME FilesInv, NEW e \in Drivers, drv[e] \in {"serves", "saves"}
  PROVE  /\ req[e] = <<>> /\ (e \in session => inner[e].open)
         /\ (client.at \in Exchanging /\ client.d = e) \/ e \in session =>
              /\ client.d = e /\ client.call.proc = "close_database"
              /\ \/ client.at = "procnum" /\ rep[e] = <<ProcedureOk>>
                 \/ client.at = "result" /\ rep[e] = <<>>
<1>1. SessionAgrees(e) /\ Alive(e)
  BY DEF FilesInv, Alive, Running
<1>2. req[e] = <<>> /\ (e \in session => inner[e].open)
  BY <1>1 DEF SessionAgrees, Requests, Closed
<1>3. ASSUME (client.at \in Exchanging /\ client.d = e) \/ e \in session
      PROVE  /\ client.d = e /\ client.call.proc = "close_database"
             /\ \/ client.at = "procnum" /\ rep[e] = <<ProcedureOk>>
                \/ client.at = "result" /\ rep[e] = <<>>
  <2>1. PipesAgree(e)
    BY <1>1, <1>3 DEF FilesInv, SyncInv, SessionAgrees
  <2> QED
    BY <2>1 DEF PipesAgree, Exchanging, Quiet, Starting, Asking, Awaiting, HasArgs
<1> QED
  BY <1>2, <1>3

(* It begins to save, all tables that were changed, or fails.               *)
LEMMA CloseFiles ==
  ASSUME FilesInv, SyncInv', NEW e \in Drivers, ServeCloseDatabase(e)
  PROVE  FilesInv'
<1> DEFINE state == [inner[e] EXCEPT !.tokens = AllClosed(inner[e]), !.managed = {},
                                     !.todo = ToSave(inner[e].tables)]
           m == Result(FALSE, 0)
<1>1. /\ drv[e] = "serves" /\ UNCHANGED <<client, handle, session, req, file, orphaned, pending>>
      /\ \/ inner[e].open /\ Becomes(e, "saves", state) /\ UNCHANGED rep
         \/ ~inner[e].open /\ Answer(e, m, "listens", inner[e])
  BY DEF ServeCloseDatabase, Replies, programVars
<1>2. Alive(e) /\ OnlyAt(e, req, req') /\ RowsAgree(e) /\ SessionAgrees(e) /\ IsDriver(inner[e])
  BY <1>1 DEF Alive, Running, OnlyAt, FilesInv, SyncInv, RowsAgree
<1>3. /\ IsDriver(state) /\ state.open = inner[e].open /\ state.tables = inner[e].tables
      /\ state.todo = ToSave(inner[e].tables)
  BY <1>2 DEF IsDriver, HasFields
<1> HIDE DEF state, m
<1>4. ASSUME OnlyAt(e, drv, drv'), OnlyAt(e, rep, rep'), OnlyAt(e, inner, inner'),
             SessionAgrees(e)', RowsAgree(e)'
      PROVE  FilesInv'
  <2>1. DOMAIN inner' = Drivers
    BY <1>4 DEF OnlyAt
  <2> QED
    BY <1>1, <1>2, <1>4, <2>1, FilesSame, DriverKeeps
<1>5. CASE inner[e].open /\ Becomes(e, "saves", state) /\ UNCHANGED rep
  <2>1. /\ OnlyAt(e, drv, drv') /\ OnlyAt(e, rep, rep') /\ OnlyAt(e, inner, inner')
        /\ drv'[e] = "saves" /\ inner'[e] = state
    BY <1>5 DEF FilesInv, SyncInv, Shapes, Becomes, OnlyAt, Running
  <2>2. RowsAgree(e)'
    BY <1>1, <1>2, <1>3, <1>5, <2>1 DEF RowsAgree, Keeps, ToSave, Alive, Running
  <2>3. SessionAgrees(e)'
    BY <1>1, <1>2, <1>3, <1>5, <2>1, Closing DEF SessionAgrees, Requests, Exchanging, Fits
  <2> QED
    BY <1>4, <2>1, <2>2, <2>3
<1>6. CASE ~inner[e].open /\ Answer(e, m, "listens", inner[e])
  <2>1. /\ OnlyAt(e, drv, drv') /\ OnlyAt(e, rep, rep') /\ OnlyAt(e, inner, inner')
        /\ \/ drv'[e] = "listens" /\ inner'[e] = inner[e]
           \/ drv'[e] = "ended" /\ inner'[e] = FreshDriver
    BY <1>6 DEF FilesInv, SyncInv, Shapes, Answer, Becomes, OnlyAt, Running
  <2>2. CASE drv'[e] = "listens" /\ inner'[e] = inner[e]
    <3>1. RowsAgree(e)'
      BY <1>1, <1>2, <2>2, TablesSame
    <3>2. SessionAgrees(e)'
      BY <1>1, <1>2, <1>6, <2>2, Closing DEF SessionAgrees, Requests, Exchanging, Fits
    <3> QED
      BY <1>4, <2>1, <3>1, <3>2
  <2>3. CASE drv'[e] = "ended" /\ inner'[e] = FreshDriver
    <3>1. SessionAgrees(e)' /\ RowsAgree(e)'
      BY <1>1, <1>2, <2>3, Gone DEF RowsAgree
    <3> QED
      BY <1>4, <2>1, <3>1
  <2> QED
    BY <2>1, <2>2, <2>3
<1> QED
  BY <1>1, <1>5, <1>6

(* A step of the saving, after which table t, if any, is done: its rows are *)
(* in the file, or it was passed over.                                      *)
LEMMA SavingFiles ==
  ASSUME FilesInv, SyncInv', NEW e \in Drivers, drv[e] = "saves", NEW state, IsDriver(state),
         state.open = inner[e].open, state.tables = inner[e].tables, Becomes(e, "saves", state),
         UNCHANGED <<client, handle, session, req, rep, orphaned>>,
         DOMAIN file' = Tables, \A t \in Tables : file'[t] = file[t] \/ \E rows : file'[t] = Whole(rows),
         DOMAIN pending' = Drivers, \A d \in Drivers : DOMAIN pending'[d] = Tables,
         \A d \in Drivers \ {e} : pending'[d] = pending[d],
         \A t \in Tables : \/ pending'[e][t] = {}
                           \/ pending'[e][t] = pending[e][t] /\ (t \in inner[e].todo => t \in state.todo)
  PROVE  FilesInv'
<1>1. /\ OnlyAt(e, drv, drv') /\ OnlyAt(e, rep, rep') /\ OnlyAt(e, req, req') /\ OnlyAt(e, inner, inner')
      /\ drv'[e] = "saves" /\ inner'[e] = state /\ DOMAIN inner' = Drivers
  BY DEF FilesInv, SyncInv, Shapes, Becomes, OnlyAt, Running
<1>2. Alive(e) /\ RowsAgree(e) /\ SessionAgrees(e)
  BY DEF Alive, Running, FilesInv
<1>3. \A t \in Tables : file'[t].is # "part" /\ (file'[t] = Absent => file[t] = Absent)
  BY DEF FilesInv, Shapes, Whole, Absent
<1>4. Shapes'
  BY <1>1, <1>3 DEF FilesInv, Shapes
<1>5. \A d \in Drivers \ {e}, t \in Tables : Undisturbed(d, t)
  BY <1>3 DEF Undisturbed
<1>6. RowsAgree(e)'
  BY <1>1, <1>2, <1>3 DEF RowsAgree, Keeps
<1>7. SessionAgrees(e)'
  BY <1>1, <1>2, Closing DEF SessionAgrees, Requests, Exchanging, Fits
<1> QED
  BY <1>1, <1>4, <1>5, <1>6, <1>7, DriverKeeps

(* A table that is passed over, with nothing more to be relied on.          *)
LEMMA PassingOver ==
  ASSUME FilesInv, SyncInv', NEW e \in Drivers, drv[e] = "saves", NEW t, PassedOver(e, t),
         UNCHANGED <<client, handle, session, req, rep, orphaned>>
  PROVE  FilesInv'
<1> DEFINE state == [inner[e] EXCEPT !.todo = @ \ {t}, !.saving = NotSaving]
<1>1. /\ Becomes(e, "saves", state) /\ file' = file
      /\ pending' = [pending EXCEPT ![e] = [pending[e] EXCEPT ![t] = {}]]
  BY DEF PassedOver
<1>2. IsDriver(inner[e]) /\ Shapes
  BY DEF FilesInv, RowsAgree
<1>3. /\ IsDriver(state) /\ state.open = inner[e].open /\ state.tables = inner[e].tables
      /\ state.todo = inner[e].todo \ {t}
  BY <1>2 DEF IsDriver, HasFields
<1> HIDE DEF state
<1>4. /\ DOMAIN pending' = Drivers /\ \A d \in Drivers : DOMAIN pending'[d] = Tables
      /\ \A d \in Drivers \ {e} : pending'[d] = pending[d]
      /\ \A u \in Tables : pending'[e][u] = IF u = t THEN {} ELSE pending[e][u]
  BY <1>1, <1>2 DEF Shapes
<1>5. /\ DOMAIN file' = Tables /\ \A u \in Tables : file'[u] = file[u]
  BY <1>1, <1>2 DEF Shapes
<1> QED
  BY <1>1, <1>3, <1>4, <1>5, SavingFiles

(* The steps of the saving.                                                 *)
LEMMA WriteFiles ==
  ASSUME FilesInv, SyncInv', NEW e \in Drivers, SaveWrites(e)
  PROVE  FilesInv'
<1>1. drv[e] = "saves" /\ UNCHANGED <<client, handle, session, req, rep, orphaned>>
  BY DEF SaveWrites, programVars
<1>2. PICK t : \/ /\ Becomes(e, "saves", [inner[e] EXCEPT !.saving = [is |-> "temp", table |-> t]])
                  /\ file' = file /\ pending' = pending
               \/ PassedOver(e, t)
  BY DEF SaveWrites, FilesDuringSave
<1>3. CASE /\ Becomes(e, "saves", [inner[e] EXCEPT !.saving = [is |-> "temp", table |-> t]])
           /\ file' = file /\ pending' = pending
  <2> DEFINE state == [inner[e] EXCEPT !.saving = [is |-> "temp", table |-> t]]
  <2>1. IsDriver(inner[e]) /\ Shapes
    BY DEF FilesInv, RowsAgree
  <2>2. /\ IsDriver(state) /\ state.open = inner[e].open /\ state.tables = inner[e].tables
        /\ state.todo = inner[e].todo
    BY <2>1 DEF IsDriver, HasFields
  <2>3. Becomes(e, "saves", state)
    BY <1>3
  <2> HIDE DEF state
  <2> QED
    BY <1>1, <1>3, <2>1, <2>2, <2>3, SavingFiles DEF Shapes
<1> QED
  BY <1>1, <1>2, <1>3, PassingOver

(* The new file has every row of the table.                                 *)
LEMMA RenameFiles ==
  ASSUME FilesInv, SyncInv', NEW e \in Drivers, SaveRenames(e)
  PROVE  FilesInv'
<1> DEFINE t == inner[e].saving.table
           state == [inner[e] EXCEPT !.todo = @ \ {t}, !.saving = NotSaving]
<1>1. drv[e] = "saves" /\ UNCHANGED <<client, handle, session, req, rep, orphaned>>
  BY DEF SaveRenames, programVars
<1>2. \/ /\ Becomes(e, "saves", state)
         /\ file' = [file EXCEPT ![t] = Whole(inner[e].tables[t].rows)]
         /\ pending' = [pending EXCEPT ![e] = [pending[e] EXCEPT ![t] = pending[e][t] \ file'[t].rows]]
      \/ PassedOver(e, t)
  BY DEF SaveRenames, FilesSaved
<1>3. CASE /\ Becomes(e, "saves", state)
           /\ file' = [file EXCEPT ![t] = Whole(inner[e].tables[t].rows)]
           /\ pending' = [pending EXCEPT ![e] = [pending[e] EXCEPT ![t] = pending[e][t] \ file'[t].rows]]
  <2>1. IsDriver(inner[e]) /\ Shapes /\ RowsAgree(e) /\ Alive(e)
    BY <1>1 DEF FilesInv, RowsAgree, Alive, Running
  <2>2. /\ IsDriver(state) /\ state.open = inner[e].open /\ state.tables = inner[e].tables
        /\ state.todo = inner[e].todo \ {t}
    BY <2>1 DEF IsDriver, HasFields
  <2> HIDE DEF t, state
  <2>3. /\ DOMAIN file' = Tables
        /\ \A u \in Tables : file'[u] = IF u = t THEN Whole(inner[e].tables[t].rows) ELSE file[u]
    BY <1>3, <2>1 DEF Shapes
  <2>4. /\ DOMAIN pending' = Drivers /\ \A d \in Drivers : DOMAIN pending'[d] = Tables
        /\ \A d \in Drivers \ {e} : pending'[d] = pending[d]
        /\ \A u \in Tables : pending'[e][u] = IF u = t THEN pending[e][t] \ file'[t].rows ELSE pending[e][u]
    BY <1>3, <2>1 DEF Shapes
  <2>5. t \in Tables => pending'[e][t] = {}
    <3>1. t \in Tables => file'[t].rows = inner[e].tables[t].rows
      BY <2>3 DEF Whole
    <3>2. t \in Tables => pending[e][t] \subseteq inner[e].tables[t].rows
      BY <2>1 DEF RowsAgree, Keeps
    <3> QED
      BY <2>4, <3>1, <3>2
  <2> QED
    BY <1>1, <1>3, <2>2, <2>3, <2>4, <2>5, SavingFiles
<1> HIDE DEF t, state
<1> QED
  BY <1>1, <1>2, <1>3, PassingOver

(* The driver answers when every table is done: nothing is pending then.    *)
LEMMA AnswerFiles ==
  ASSUME FilesInv, SyncInv', NEW e \in Drivers, CloseReplies(e)
  PROVE  FilesInv'
<1> DEFINE state == [FreshDriver EXCEPT !.tokens = inner[e].tokens]
           m == Result(TRUE, 0)
<1>1. /\ drv[e] = "saves" /\ inner[e].todo = {} /\ Answer(e, m, "listens", state)
      /\ UNCHANGED <<client, handle, session, req, file, orphaned, pending>>
  BY DEF CloseReplies, Replies, programVars
<1>2. /\ IsDriver(state) /\ DOMAIN state.tables = {}
  BY Fresh DEF IsDriver, HasFields
<1>3. Alive(e) /\ RowsAgree(e) /\ SessionAgrees(e) /\ OnlyAt(e, req, req')
  BY <1>1 DEF Alive, Running, FilesInv, OnlyAt, SyncInv
<1>4. \A t \in Tables : pending[e][t] = {}
  BY <1>1, <1>3 DEF RowsAgree, Keeps
<1> HIDE DEF state
<1>5. /\ OnlyAt(e, drv, drv') /\ OnlyAt(e, rep, rep') /\ OnlyAt(e, inner, inner') /\ DOMAIN inner' = Drivers
      /\ \/ drv'[e] = "listens" /\ inner'[e] = state /\ rep'[e] = Append(rep[e], m)
         \/ drv'[e] = "ended" /\ inner'[e] = FreshDriver
  <2> HIDE DEF m
  <2> QED
    BY <1>1 DEF FilesInv, SyncInv, Shapes, Answer, Becomes, OnlyAt, Running
<1>6. SessionAgrees(e)' /\ RowsAgree(e)'
  <2>1. CASE drv'[e] = "listens" /\ inner'[e] = state /\ rep'[e] = Append(rep[e], m)
    <3>1. RowsAgree(e)'
      BY <1>1, <1>2, <1>4, <2>1 DEF RowsAgree
    <3>2. Append(<<>>, m) = <<m>> /\ Append(<<ProcedureOk>>, m) = <<ProcedureOk, m>>
      BY Ones, Twos
    <3>3. e \in session => Closed(e)'
      BY <1>1, <2>1, <3>2, Closing DEF Closed
    <3>4. SessionAgrees(e)'
      BY <1>1, <1>3, <2>1, <3>3, Closing DEF SessionAgrees, Requests, Exchanging, Fits
    <3> QED
      BY <3>1, <3>4
  <2>2. CASE drv'[e] = "ended" /\ inner'[e] = FreshDriver
    BY <1>1, <1>4, <2>2, Gone
  <2> QED
    BY <1>5, <2>1, <2>2
<1> QED
  BY <1>1, <1>3, <1>5, <1>6, FilesSame, DriverKeeps

-----------------------------------------------------------------------------
(* A step of the program leaves the drivers, except that it may start one.  *)
LEMMA ProgramKeeps ==
  ASSUME FilesInv, SyncInv', UNCHANGED <<inner, file, orphaned, pending>>,
         \A d \in Drivers : drv'[d] = drv[d] \/ (drv[d] = "none" /\ drv'[d] = "init"),
         \A d \in Drivers : SessionAgrees(d)'
  PROVE  FilesInv'
<1>1. ASSUME NEW d \in Drivers PROVE RowsAgree(d)'
  <2>1. RowsAgree(d)
    BY DEF FilesInv
  <2>2. CASE drv'[d] = drv[d]
    BY <2>1, <2>2 DEF RowsAgree, Alive
  <2>3. CASE drv[d] = "none" /\ drv'[d] = "init"
    BY <2>1, <2>3 DEF RowsAgree
  <2> QED
    BY <1>1, <2>2, <2>3
<1> QED
  BY <1>1 DEF FilesInv, Shapes

(* When the program ends it has no session.                                 *)
LEMMA ProgramGone ==
  ASSUME FilesInv, SyncInv', UNCHANGED driverVars, session' = {},
         client'.at \in {"gone", "killed"}, UNCHANGED req
  PROVE  FilesInv'
<1>1. ASSUME NEW d \in Drivers PROVE SessionAgrees(d)'
  BY <1>1 DEF FilesInv, SessionAgrees, Requests, Alive, driverVars
<1> QED
  BY <1>1, ProgramKeeps DEF driverVars

(* Starting drivers, shutting them down, and the end.                       *)
LEMMA OtherFiles ==
  ASSUME FilesInv, SyncInv', NEW e \in Drivers,
         StartDriver(e) \/ Started(e) \/ Shutdown(e) \/ WaitReturns(e) \/ Exit \/ ProgramKilled
  PROVE  FilesInv'
<1>1. \A d \in Drivers : d \in session => handle[d] = "open" /\ ~(client.at = "start" /\ client.d = d)
  BY DEF FilesInv, SessionAgrees
<1>2. CASE StartDriver(e)
  <2>1. /\ client.at = "idle" /\ drv[e] = "none" /\ drv' = [drv EXCEPT ![e] = "init"]
        /\ handle' = [handle EXCEPT ![e] = "open"] /\ client'.at = "start" /\ client'.d = e
        /\ UNCHANGED <<session, req, inner, file, orphaned, pending>>
    BY <1>2 DEF StartDriver, Program
  <2>2. handle[e] = "none" /\ e \notin session /\ DOMAIN handle = Drivers /\ DOMAIN drv = Drivers
    BY <1>1, <2>1 DEF FilesInv, SyncInv
  <2>3. \A d \in Drivers : SessionAgrees(d)'
    <3> SUFFICES ASSUME NEW d \in Drivers PROVE SessionAgrees(d)'
      OBVIOUS
    <3>1. SessionAgrees(d) /\ SyncInv
      BY DEF FilesInv
    <3>2. CASE d = e
      BY <2>1, <2>2, <3>1, <3>2 DEF SessionAgrees, Requests, SyncInv
    <3>3. CASE d # e
      BY <2>1, <2>2, <3>1, <3>3 DEF SessionAgrees, Requests, Closed, Alive
    <3> QED
      BY <3>2, <3>3
  <2>4. \A d \in Drivers : drv'[d] = drv[d] \/ (drv[d] = "none" /\ drv'[d] = "init")
    BY <2>1, <2>2
  <2> QED
    BY <2>1, <2>3, <2>4, ProgramKeeps
<1>3. CASE Started(e) \/ WaitReturns(e)
  <2>1. /\ client.at \in {"start", "wait"} /\ client.d = e /\ client'.at = "idle"
        /\ UNCHANGED <<session, req, drv, inner, file, orphaned, pending>>
        /\ \/ UNCHANGED handle
           \/ client.at = "start" /\ handle' = [handle EXCEPT ![e] = "lost"]
    <3>1. CASE Started(e)
      BY <3>1 DEF Started, Idle, Program, driverVars
    <3>2. CASE WaitReturns(e)
      BY <3>2 DEF WaitReturns, Idle, Program, driverVars
    <3> QED
      BY <1>3, <3>1, <3>2
  <2>2. \A d \in Drivers : SessionAgrees(d)'
    <3> SUFFICES ASSUME NEW d \in Drivers PROVE SessionAgrees(d)'
      OBVIOUS
    <3>1. SessionAgrees(d) /\ DOMAIN handle = Drivers
      BY DEF FilesInv, SyncInv
    <3>2. d \in session => handle'[d] = "open"
      BY <1>1, <2>1, <3>1
    <3> QED
      BY <2>1, <3>1, <3>2 DEF SessionAgrees, Requests, Closed, Alive
  <2> QED
    BY <2>1, <2>2, ProgramKeeps
<1>4. CASE Shutdown(e)
  <2>1. /\ client.at = "idle" /\ client'.at = "wait" /\ session' = session \ {e}
        /\ handle' = [handle EXCEPT ![e] = "closed"]
        /\ UNCHANGED <<req, drv, inner, file, orphaned, pending>>
    BY <1>4 DEF Shutdown, Program, driverVars
  <2>2. \A d \in Drivers : SessionAgrees(d)'
    <3> SUFFICES ASSUME NEW d \in Drivers PROVE SessionAgrees(d)'
      OBVIOUS
    <3>1. SessionAgrees(d) /\ DOMAIN handle = Drivers
      BY DEF FilesInv, SyncInv
    <3>2. d \in session' => handle'[d] = "open"
      BY <1>1, <2>1, <3>1
    <3> QED
      BY <2>1, <3>1, <3>2 DEF SessionAgrees, Requests, Closed, Alive
  <2> QED
    BY <2>1, <2>2, ProgramKeeps
<1>5. CASE Exit \/ ProgramKilled
  BY <1>5, ProgramGone DEF Exit, ProgramKilled, Program, ForgetsAll
<1> QED
  BY <1>2, <1>3, <1>4, <1>5

(* A statement is only sent to a driver that has its database open.         *)
LEMMA CallFiles ==
  ASSUME FilesInv, SyncInv', NEW e \in Drivers, NEW call \in CallsTo(e), Call(e, call)
  PROVE  FilesInv'
<1>1. /\ client.at = "idle" /\ handle[e] = "open" /\ UNCHANGED driverVars /\ UNCHANGED rep
      /\ Send(e, Procnum(call), "procnum", call)
  BY DEF Call
<1>2. CASE Alive(e)
  <2>1. /\ client' = [at |-> "procnum", d |-> e, call |-> call]
        /\ req' = [req EXCEPT ![e] = Append(@, Procnum(call))]
        /\ UNCHANGED <<handle, session, drv, inner>>
    BY <1>1, <1>2 DEF Send, Program, driverVars
  <2>2. SyncInv /\ drv[e] = "listens" /\ req[e] = <<>>
    BY <1>1, <1>2 DEF FilesInv, SyncInv, PipesAgree, Quiet, Exchanging, Alive, Running
  <2>3. /\ \A d \in Drivers : d # e => req'[d] = req[d]
        /\ req'[e] = <<Procnum(call)>>
    BY <2>1, <2>2, Ones DEF SyncInv
  <2>4. ASSUME NEW d \in Drivers, Alive(d), d \in session PROVE inner[d].open
    BY <1>1, <2>4 DEF FilesInv, SessionAgrees, Closed
  <2>5. Fits(call, inner[e].open)
    BY <1>2, <2>4 DEF Fits, CallsTo, OpenDatabase, CloseDatabase, OpenSelect, Fetch, CloseCursor, Execute
  <2>6. client'.at = "procnum" /\ client'.d = e /\ client'.call = call
    BY <2>1
  <2>7. ASSUME NEW d \in Drivers PROVE SessionAgrees(d)'
    <3>1. SessionAgrees(d) /\ (Alive(d)' <=> Alive(d))
      BY <2>1 DEF FilesInv, Alive
    <3>2. Alive(d) => Requests(d)'
      BY <2>1, <2>2, <2>3, <3>1 DEF SessionAgrees, Requests
    <3> QED
      BY <1>1, <2>1, <2>4, <2>5, <2>6, <3>1, <3>2 DEF SessionAgrees
  <2> QED
    BY <1>1, <2>7, ProgramKeeps DEF driverVars
<1>3. CASE ~Alive(e)
  BY <1>1, <1>3, ProgramGone DEF Send, Program, ForgetsAll
<1> QED
  BY <1>2, <1>3

(* The arguments follow the number of their procedure.                      *)
LEMMA ProcedureFiles ==
  ASSUME FilesInv, SyncInv', NEW e \in Drivers, ProcedureStarts(e)
  PROVE  FilesInv'
<1> DEFINE call == client.call
<1>1. /\ client.at = "procnum" /\ client.d = e /\ UNCHANGED driverVars
      /\ \/ /\ rep[e] # <<>> /\ rep' = [rep EXCEPT ![e] = Tail(@)]
            /\ HasArgs(call) /\ Send(e, Args(call), "result", call)
         \/ /\ rep[e] # <<>> /\ rep' = [rep EXCEPT ![e] = Tail(@)] /\ UNCHANGED session
            /\ ~HasArgs(call) /\ Program("result", e, call) /\ UNCHANGED <<req, handle, failed>>
         \/ EndOfReplies(e) /\ CallFails(e) /\ UNCHANGED rep
  BY DEF ProcedureStarts
<1>2. /\ SyncInv /\ PipesAgree(e) /\ UNCHANGED <<drv, inner>>
      /\ \A d \in Drivers : SessionAgrees(d) /\ (Alive(d)' <=> Alive(d))
  BY <1>1 DEF FilesInv, SyncInv, Exchanging, driverVars, Alive
<1>3. Asking(call, drv[e], req[e], rep[e])
  BY <1>1, <1>2 DEF PipesAgree
<1>4. ASSUME NEW d \in Drivers, d # e, Alive(d), d \in session PROVE inner[d].open
  BY <1>1, <1>2, <1>4 DEF SessionAgrees, Closed
<1>5. CASE /\ rep[e] # <<>> /\ rep' = [rep EXCEPT ![e] = Tail(@)]
           /\ HasArgs(call) /\ Send(e, Args(call), "result", call) /\ Alive(e)
  <2>1. /\ client'.at = "result" /\ client'.d = e /\ client'.call = call
        /\ req' = [req EXCEPT ![e] = Append(@, Args(call))] /\ UNCHANGED <<handle, session>>
    BY <1>5 DEF Send, Program
  <2>2. drv[e] = "args" /\ req[e] = <<>> /\ rep[e] = <<ProcedureOk>>
    BY <1>3, <1>5 DEF Asking, Alive, Running
  <2>3. /\ \A d \in Drivers : d # e => req'[d] = req[d] /\ rep'[d] = rep[d]
        /\ req'[e] = <<Args(call)>> /\ rep'[e] = <<>>
    BY <1>2, <1>5, <2>1, <2>2, Ones DEF SyncInv
  <2>4. Fits(call, inner[e].open) /\ (e \in session => inner[e].open)
    BY <1>1, <1>2, <1>5, <2>2 DEF SessionAgrees, Closed
  <2>5. ASSUME NEW d \in Drivers PROVE SessionAgrees(d)'
    <3>1. CASE d = e
      BY <1>2, <2>1, <2>2, <2>3, <2>4, <3>1 DEF SessionAgrees, Requests
    <3>2. CASE d # e
      BY <1>2, <1>4, <2>1, <2>3, <3>2 DEF SessionAgrees, Requests
    <3> QED
      BY <3>1, <3>2
  <2> QED
    BY <1>1, <2>5, ProgramKeeps DEF driverVars
<1>6. CASE HasArgs(call) /\ Send(e, Args(call), "result", call) /\ ~Alive(e)
  BY <1>1, <1>6, ProgramGone DEF Send, Program, ForgetsAll
<1>7. CASE /\ rep[e] # <<>> /\ rep' = [rep EXCEPT ![e] = Tail(@)] /\ UNCHANGED session
           /\ ~HasArgs(call) /\ Program("result", e, call) /\ UNCHANGED <<req, handle, failed>>
  <2>1. /\ client'.at = "result" /\ client'.d = e /\ client'.call = call
        /\ call.proc = "close_database"
    BY <1>7 DEF Program, HasArgs
  <2>2. /\ \A d \in Drivers : d # e => rep'[d] = rep[d]
        /\ rep'[e] = Tail(rep[e])
    BY <1>2, <1>7 DEF SyncInv
  <2>3. Tail(<<ProcedureOk, Result(TRUE, 0)>>) = <<Result(TRUE, 0)>>
    BY Twos
  <2>4. Closed(e) => Closed(e)'
    BY <1>1, <1>2, <2>1, <2>2, <2>3 DEF Closed
  <2>5. ASSUME NEW d \in Drivers PROVE SessionAgrees(d)'
    <3>1. CASE d = e
      BY <1>1, <1>2, <1>7, <2>1, <2>4, <3>1 DEF SessionAgrees, Requests
    <3>2. CASE d # e
      BY <1>2, <1>4, <1>7, <2>1, <2>2, <3>2 DEF SessionAgrees, Requests
    <3> QED
      BY <3>1, <3>2
  <2> QED
    BY <1>1, <2>5, ProgramKeeps DEF driverVars
<1>8. CASE EndOfReplies(e) /\ CallFails(e) /\ UNCHANGED rep
  <2>1. ~Alive(e) /\ client'.at = "idle" /\ UNCHANGED <<handle, session, req, rep>>
    BY <1>8 DEF EndOfReplies, CallFails, Idle, Program
  <2>2. ASSUME NEW d \in Drivers PROVE SessionAgrees(d)'
    BY <1>2, <1>4, <2>1 DEF SessionAgrees, Requests
  <2> QED
    BY <1>1, <2>2, ProgramKeeps DEF driverVars
<1> QED
  BY <1>1, <1>5, <1>6, <1>7, <1>8

(* What the program does of a success agrees with what the driver did.      *)
LEMMA ReturnFiles ==
  ASSUME FilesInv, SyncInv', NEW e \in Drivers, CallReturns(e)
  PROVE  FilesInv'
<1>1. /\ client.at = "result" /\ client.d = e /\ client'.at = "idle" /\ UNCHANGED driverVars
      /\ UNCHANGED <<handle, req>>
      /\ \/ rep[e] # <<>> /\ Head(rep[e]).ok /\ session' = SessionAfter(e, client.call)
         \/ rep[e] # <<>> /\ ~Head(rep[e]).ok /\ UNCHANGED session
         \/ EndOfReplies(e) /\ UNCHANGED session
  BY DEF CallReturns, CallFails, Idle, Program
<1>2. /\ handle[e] = "open" /\ UNCHANGED <<drv, inner>>
      /\ \A d \in Drivers : SessionAgrees(d) /\ (Alive(d)' <=> Alive(d))
  BY <1>1 DEF FilesInv, SyncInv, Exchanging, driverVars, Alive
<1>3. ASSUME NEW d \in Drivers, d # e, Alive(d), d \in session PROVE inner[d].open
  BY <1>1, <1>2, <1>3 DEF SessionAgrees, Closed
<1>4. /\ \A d \in Drivers : d # e => (d \in session' <=> d \in session)
      /\ e \in session' => e \in session \/ client.call.proc = "open_database"
      /\ e \in session' => client.call.proc # "close_database" \/ UNCHANGED session
  BY <1>1 DEF SessionAfter
<1>5. e \in session' /\ Alive(e) => inner[e].open
  <2> SUFFICES ASSUME e \in session', Alive(e) PROVE inner[e].open
    OBVIOUS
  <2>0. rep[e] # <<>>
    BY <1>1 DEF EndOfReplies
  <2>1. CASE rep[e] # <<>> /\ Head(rep[e]).ok /\ session' = SessionAfter(e, client.call)
    <3>1. client.call.proc = "open_database" => inner[e].open
      BY <1>1, <1>2, <2>1 DEF SessionAgrees
    <3>2. client.call.proc # "close_database"
      BY <2>1 DEF SessionAfter
    <3> QED
      BY <1>2, <1>4, <3>1, <3>2 DEF SessionAgrees, Closed
  <2>2. CASE rep[e] # <<>> /\ ~Head(rep[e]).ok /\ UNCHANGED session
    <3>1. Head(<<Result(TRUE, 0)>>) = Result(TRUE, 0) /\ Result(TRUE, 0).ok
      BY Ones, Messages
    <3>2. ~Closed(e)
      BY <1>1, <2>2, <3>1 DEF Closed
    <3> QED
      BY <1>2, <2>2, <3>2 DEF SessionAgrees
  <2> QED
    BY <1>1, <2>0, <2>1, <2>2 DEF EndOfReplies
<1>6. ASSUME NEW d \in Drivers PROVE SessionAgrees(d)'
  BY <1>1, <1>2, <1>3, <1>4, <1>5 DEF SessionAgrees, Requests
<1> QED
  BY <1>1, <1>6, ProgramKeeps DEF driverVars

-----------------------------------------------------------------------------
(* At first there is nothing to keep.                                       *)
LEMMA FilesInit == Init => FilesInv
<1> SUFFICES ASSUME Init PROVE FilesInv
  OBVIOUS
<1>1. SyncInv
  BY SyncInit
<1>2. Shapes
  BY DEF Init, Shapes, Absent, Whole
<1>3. ASSUME NEW d \in Drivers PROVE SessionAgrees(d) /\ RowsAgree(d)
  BY Fresh DEF Init, SessionAgrees, RowsAgree, Alive, Running
<1> QED
  BY <1>1, <1>2, <1>3 DEF FilesInv

(* Every step keeps the sessions and the rows.                              *)
LEMMA FilesNext ==
  ASSUME FilesInv, [Next]_vars PROVE FilesInv'
<1>0. SyncInv'
  BY SyncNext DEF FilesInv
<1>1. CASE UNCHANGED vars
  <2>1. /\ UNCHANGED <<client, handle, session, drv, req, rep>>
        /\ UNCHANGED <<inner, file, orphaned, pending>>
    BY <1>1 DEF vars, programVars, driverVars
  <2>2. ASSUME NEW d \in Drivers PROVE SessionAgrees(d)'
    BY <2>1 DEF FilesInv, SessionAgrees, Requests, Closed, Alive
  <2> QED
    BY <1>0, <2>1, <2>2, ProgramKeeps
<1>2. ASSUME NEW e \in Drivers, ProgramGoesOn(e) PROVE FilesInv'
  BY <1>0, <1>2, OtherFiles, ProcedureFiles, ReturnFiles DEF ProgramGoesOn
<1>3. ASSUME NEW e \in Drivers, Serve(e) \/ Save(e) PROVE FilesInv'
  BY <1>0, <1>3, OpenFiles, SelectFiles, CursorFiles, ExecuteFiles, CloseFiles,
     WriteFiles, RenameFiles, AnswerFiles DEF Serve, Save
<1>4. ASSUME NEW e \in Drivers, DriverGoesOn(e) PROVE FilesInv'
  BY <1>0, <1>3, <1>4, InitFiles, ProcnumFiles, GoneFiles DEF DriverGoesOn
<1>5. ASSUME NEW e \in Drivers, ProgramChooses(e) PROVE FilesInv'
  BY <1>0, <1>5, OtherFiles, CallFiles DEF ProgramChooses
<1>6. ASSUME NEW e \in Drivers, DriverKilled(e) PROVE FilesInv'
  BY <1>0, <1>6, GoneFiles
<1>7. CASE Exit \/ ProgramKilled
  BY <1>0, <1>7, ProgramGone DEF Exit, ProgramKilled, Program, ForgetsAll
<1> QED
  BY <1>1, <1>2, <1>4, <1>5, <1>6, <1>7 DEF Next

(* No file is ever there in part, and when a driver has closed its database *)
(* every row it said was inserted, into a table nobody dropped and that was *)
(* not passed over, is in the file it saved (save_table, the closing of the *)
(* dbf driver, and statements of any number of drivers on the same files).  *)
THEOREM AlwaysFilesKept == Spec => []FilesKept
<1>1. FilesInv => FilesKept
  BY DEF FilesInv, FilesKept, FilesWhole, ClosedIsSaved, Shapes, RowsAgree, Keeps, Alive, Running
<1>2. FilesInv /\ [Next]_vars => FilesInv'
  BY FilesNext
<1> QED
  BY FilesInit, <1>1, <1>2, PTL DEF Spec

-----------------------------------------------------------------------------
(***************************************************************************)
(* The cursors of a program lead to what they were opened on, for any      *)
(* number of drivers, tables, calls and faults.                            *)
(***************************************************************************)

(***************************************************************************)
(* The token table.                                                        *)
(***************************************************************************)
IsTokens(list) == \E S : list \in Seq(S)

(* Token n now leads to x, and all others where they did.                   *)
Leads(list, new, n, x) ==
    /\ IsTokens(new) /\ FindToken(new, n) = x
    /\ \A k : k # n => FindToken(new, k) = FindToken(list, k)

(* A set of numbers has a least one.                                        *)
LEMMA Least ==
  ASSUME NEW T, T \subseteq Nat, T # {} PROVE \E x \in T : \A y \in T : x <= y
<1> DEFINE R == {ss \in Nat \X Nat : ss[1] < ss[2]}
<1>1. IsWellFoundedOn(R, Nat)
  BY NatLessThanWellFounded DEF OpToRel
<1> HIDE DEF R
<1>2. PICK x \in T : \A y \in T : ~(<<y, x>> \in R)
  BY <1>1, WFMin
<1>3. \A y \in T : ~(y < x)
  BY <1>2 DEF R
<1>4. \A y \in T : x <= y
  BY <1>3
<1> QED
  BY <1>4

(* What can be behind a token.                                              *)
LEMMA Objects ==
  /\ NoAddress # OwnCursor /\ NoAddress.kind # "dbCursor" /\ OwnCursor.kind # "dbCursor"
  /\ \A own, mode : /\ DbCursor(own, mode).kind = "dbCursor" /\ DbCursor(own, mode).own = own
                    /\ DbCursor(own, mode).mode = mode
<1>1. NoAddress.kind = "none" /\ OwnCursor.kind = "cursor"
  BY DEF NoAddress, OwnCursor
<1> QED
  BY <1>1 DEF DbCursor

(* A new token is one that led nowhere, and leads to its object.            *)
LEMMA NewTokens ==
  ASSUME NEW list, IsTokens(list), NEW x
  PROVE  /\ FindToken(list, NewToken(list)) = NoAddress
         /\ Leads(list, WithToken(list, x), NewToken(list), x)
         /\ NewToken(list) \in DOMAIN WithToken(list, x)
<1>1. PICK S : list \in Seq(S)
  BY DEF IsTokens
<1>2. CASE FreeTokens(list) = {}
  <2> DEFINE new == Append(list, x)
             n == Len(list) + 1
  <2>1. /\ list \in Seq(S \cup {x}) /\ new \in Seq(S \cup {x}) /\ DOMAIN new = 1 .. n
        /\ new[n] = x /\ \A k \in DOMAIN list : new[k] = list[k]
        /\ DOMAIN list = 1 .. Len(list) /\ Len(list) \in Nat
    BY <1>1
  <2>2. NewToken(list) = n /\ WithToken(list, x) = new
    BY <1>2 DEF NewToken, WithToken
  <2> HIDE DEF new
  <2>3. n \notin DOMAIN list /\ n \in DOMAIN new /\ \A k : k # n => (k \in DOMAIN new <=> k \in DOMAIN list)
    BY <2>1
  <2> HIDE DEF n
  <2>4. IsTokens(new)
    BY <2>1 DEF IsTokens
  <2> QED
    BY <2>1, <2>2, <2>3, <2>4 DEF Leads, FindToken
<1>3. CASE FreeTokens(list) # {}
  <2> DEFINE n == NewToken(list)
             new == [list EXCEPT ![n] = x]
  <2>1. FreeTokens(list) \subseteq Nat
    BY <1>1 DEF FreeTokens
  <2>2. n \in FreeTokens(list)
    <3>1. \E m \in FreeTokens(list) : \A k \in FreeTokens(list) : m <= k
      BY <1>3, <2>1, Least
    <3> QED
      BY <1>3, <3>1 DEF NewToken
  <2>3. WithToken(list, x) = new
    BY <1>3 DEF WithToken
  <2> HIDE DEF n
  <2>4. n \in DOMAIN list /\ list[n] = NoAddress
    BY <2>2 DEF FreeTokens
  <2>5. /\ new \in Seq(S \cup {x}) /\ DOMAIN new = DOMAIN list /\ new[n] = x
        /\ \A k \in DOMAIN list : k # n => new[k] = list[k]
    BY <1>1, <2>4
  <2> HIDE DEF new
  <2>6. IsTokens(new)
    BY <2>5 DEF IsTokens
  <2> QED
    BY <2>3, <2>4, <2>5, <2>6 DEF Leads, FindToken, n
<1> QED
  BY <1>2, <1>3

(* A token that is changed or dropped.                                      *)
LEMMA Changed ==
  ASSUME NEW list, IsTokens(list), NEW n \in DOMAIN list, NEW x
  PROVE  Leads(list, [list EXCEPT ![n] = x], n, x)
<1>1. PICK S : list \in Seq(S)
  BY DEF IsTokens
<1> DEFINE new == [list EXCEPT ![n] = x]
<1>2. /\ new \in Seq(S \cup {x}) /\ DOMAIN new = DOMAIN list /\ new[n] = x
      /\ \A k \in DOMAIN list : k # n => new[k] = list[k]
  BY <1>1
<1> HIDE DEF new
<1>3. IsTokens(new)
  BY <1>2 DEF IsTokens
<1> QED
  BY <1>2, <1>3 DEF Leads, FindToken, new

(* A dropped token leads nowhere.                                           *)
LEMMA Dropped ==
  ASSUME NEW list, IsTokens(list), NEW n
  PROVE  Leads(list, DropToken(list, n), n, NoAddress)
<1>1. CASE n \in DOMAIN list
  BY <1>1, Changed DEF DropToken
<1>2. CASE n \notin DOMAIN list
  <2>1. PICK S : list \in Seq(S)
    BY DEF IsTokens
  <2>2. DropToken(list, n) = list
    BY <1>2, <2>1 DEF DropToken
  <2> QED
    BY <1>2, <2>2 DEF Leads, FindToken
<1> QED
  BY <1>1, <1>2

-----------------------------------------------------------------------------
(***************************************************************************)
(* The dbCursors of a driver, each with a cursor of its own.               *)
(***************************************************************************)
At(tokens, n) == FindToken(tokens, n)
IsCursor(tokens, n) == At(tokens, n).kind = "dbCursor" /\ At(tokens, At(tokens, n).own) = OwnCursor
Managed(tokens, managed) ==
    /\ IsTokens(tokens)
    /\ \A n \in managed : IsCursor(tokens, n)
    /\ \A n, k \in managed : n # k => At(tokens, n).own # At(tokens, k).own

(* Opening a cursor leaves the others, whether or not it succeeds.          *)
LEMMA Selecting ==
  ASSUME NEW tokens, NEW managed, Managed(tokens, managed), NEW mode
  PROVE  /\ NewToken(tokens) \notin managed
         /\ Managed(SelectTokens(tokens, mode), managed)
         /\ \A k \in managed : At(SelectTokens(tokens, mode), k) = At(tokens, k)
         /\ Managed(SelectedTokens(tokens, mode), managed \cup {NewToken(tokens)})
         /\ \A k \in managed : At(SelectedTokens(tokens, mode), k) = At(tokens, k)
         /\ At(SelectedTokens(tokens, mode), NewToken(tokens)).mode = mode
<1> DEFINE n == NewToken(tokens)
           one == WithToken(tokens, DbCursor(0, mode))
           own == NewToken(one)
           no == SelectTokens(tokens, mode)
           yes == SelectedTokens(tokens, mode)
<1>1. /\ At(tokens, n) = NoAddress /\ Leads(tokens, one, n, DbCursor(0, mode)) /\ n \in DOMAIN one
  BY NewTokens DEF Managed, At
<1>2. /\ At(one, own) = NoAddress /\ Leads(one, no, own, OwnCursor)
  <2>1. IsTokens(one)
    BY <1>1 DEF Leads
  <2> HIDE DEF one
  <2> QED
    BY <2>1, NewTokens DEF At, SelectTokens, one
<1>3. At(no, n) = DbCursor(0, mode) /\ own # n
  BY <1>1, <1>2, Objects DEF Leads, At
<1>4. n \in DOMAIN no
  BY <1>3, Objects DEF At, FindToken
<1>5. Leads(no, yes, n, DbCursor(own, mode))
  <2>1. IsTokens(no) /\ yes = [no EXCEPT ![n] = DbCursor(own, mode)]
    BY <1>2 DEF Leads, SelectedTokens
  <2> HIDE DEF no, yes, own, n
  <2> QED
    BY <1>4, <2>1, Changed
<1>6. \A k : At(tokens, k) # NoAddress => At(no, k) = At(tokens, k) /\ At(yes, k) = At(tokens, k) /\ k # n /\ k # own
  BY <1>1, <1>2, <1>3, <1>5 DEF Leads, At
<1>7. At(yes, n) = DbCursor(own, mode) /\ At(yes, own) = OwnCursor
  BY <1>2, <1>3, <1>5 DEF Leads, At
<1>8. IsTokens(no) /\ IsTokens(yes)
  BY <1>2, <1>5 DEF Leads
<1>9. \A k \in managed : /\ At(tokens, k) # NoAddress /\ At(tokens, At(tokens, k).own) # NoAddress
                         /\ IsCursor(tokens, k)
  BY Objects DEF Managed, IsCursor
<1> HIDE DEF n, one, own, no, yes
<1>10. \A k \in managed : /\ At(no, k) = At(tokens, k) /\ At(yes, k) = At(tokens, k)
                          /\ IsCursor(no, k) /\ IsCursor(yes, k) /\ At(yes, k).own # own /\ k # n
  BY <1>6, <1>9 DEF IsCursor
<1>11. Managed(no, managed)
  BY <1>8, <1>10 DEF Managed
<1>12. /\ At(yes, n).kind = "dbCursor" /\ At(yes, n).own = own /\ At(yes, n).mode = mode
  BY <1>7, Objects
<1>13. Managed(yes, managed \cup {n})
  BY <1>7, <1>8, <1>10, <1>12 DEF Managed, IsCursor
<1> QED
  BY <1>10, <1>11, <1>12, <1>13 DEF n, no, yes

(* Closing one as well.                                                     *)
LEMMA Closes ==
  ASSUME NEW tokens, NEW managed, Managed(tokens, managed), NEW n \in managed
  PROVE  LET new == ClosedTokens(tokens, n) IN
         /\ Managed(new, managed \ {n}) /\ \A k \in managed \ {n} : At(new, k) = At(tokens, k)
<1> DEFINE own == At(tokens, n).own
           one == DropToken(tokens, own)
           new == ClosedTokens(tokens, n)
<1>1. Leads(tokens, one, own, NoAddress)
  BY Dropped DEF Managed
<1>2. Leads(one, new, n, NoAddress)
  <2>1. IsTokens(one)
    BY <1>1 DEF Leads
  <2> HIDE DEF one
  <2> QED
    BY <2>1, Dropped DEF ClosedTokens, At, one
<1>3. IsTokens(new) /\ \A k : k # n /\ k # own => At(new, k) = At(tokens, k)
  BY <1>1, <1>2 DEF Leads, At
<1>4. IsCursor(tokens, n) /\ At(tokens, own) = OwnCursor
  BY DEF Managed, IsCursor
<1> HIDE DEF own, one, new
<1>5. ASSUME NEW k \in managed \ {n} PROVE At(new, k) = At(tokens, k) /\ IsCursor(new, k)
  <2>1. /\ IsCursor(tokens, k) /\ At(tokens, k).own # own
    BY <1>5 DEF Managed, own
  <2>2. k # own /\ At(tokens, k).own # n
    BY <1>4, <2>1, Objects DEF IsCursor
  <2> QED
    BY <1>3, <1>5, <2>1, <2>2 DEF IsCursor
<1>6. Managed(new, managed \ {n})
  BY <1>3, <1>5 DEF Managed
<1> QED
  BY <1>5, <1>6 DEF new

-----------------------------------------------------------------------------
(***************************************************************************)
(* What a program has open is what the driver manages, but for what the    *)
(* driver has done and the program not yet read.                           *)
(***************************************************************************)
Returning(d, proc) ==
    /\ client.at = "result" /\ client.d = d /\ client.call.proc = proc
    /\ rep[d] # <<>> /\ Head(rep[d]).ok

Given(state, c) == c.token \in state.managed /\ At(state.tokens, c.token).mode = c.mode
Kept(d, c) == Given(inner[d], c) \/ (Returning(d, "close_cursor") /\ c.token = client.call.token)

CursorsAgree(d) ==
    /\ Managed(inner[d].tokens, inner[d].managed)
    /\ \A c, k \in cursors[d] : c # k => c.token # k.token
    /\ drv[d] # "saves" /\ ~Closed(d) => \A c \in cursors[d] : Kept(d, c)
    /\ Returning(d, "open_select_cursor") =>
         LET c == [token |-> Head(rep[d]).token, mode |-> client.call.mode]
         IN  Given(inner[d], c) /\ \A k \in cursors[d] : k.token # c.token

CallAgrees(d) ==
    client.at \in {"procnum", "result"} /\ client.d = d =>
        /\ client.call.proc \in {"open_select_cursor", "close_cursor"} => d \in session
        /\ client.call.proc = "close_cursor" => \E c \in cursors[d] : c.token = client.call.token

CursorsInv ==
    /\ FilesInv /\ DOMAIN cursors = Drivers
    /\ \A d \in Drivers :
        /\ drv[d] = "none" => inner[d] = FreshDriver
        /\ cursors[d] # {} => d \in session
        /\ CallAgrees(d)
        /\ handle[d] = "open" /\ Alive(d) => CursorsAgree(d)

(* A driver that begins has no cursors.                                     *)
LEMMA FreshCursors == Managed(FreshDriver.tokens, FreshDriver.managed)
<1>1. FreshDriver.tokens = <<>> /\ FreshDriver.managed = {}
  BY DEF FreshDriver
<1>2. IsTokens(<<>>)
  BY DEF IsTokens
<1> QED
  BY <1>1, <1>2 DEF Managed

(* No call to driver d is under way.                                        *)
Apart(d) == client.d # d \/ client.at \notin {"procnum", "result"}

(* A step of a driver.                                                      *)
LEMMA DriverCursors ==
  ASSUME CursorsInv, FilesInv', NEW e \in Drivers, Alive(e),
         UNCHANGED <<client, handle, session, cursors>>,
         OnlyAt(e, drv, drv'), OnlyAt(e, rep, rep'), OnlyAt(e, inner, inner'),
         handle[e] = "open" /\ Alive(e)' => CursorsAgree(e)'
  PROVE  CursorsInv'
<1>1. drv'[e] # "none"
  BY DEF CursorsInv, FilesInv, SyncInv, Alive, Running
<1>2. ASSUME NEW d \in Drivers
      PROVE  /\ drv'[d] = "none" => inner'[d] = FreshDriver
             /\ cursors'[d] # {} => d \in session'
             /\ CallAgrees(d)'
             /\ handle'[d] = "open" /\ Alive(d)' => CursorsAgree(d)'
  <2>1. CallAgrees(d)'
    BY DEF CursorsInv, CallAgrees
  <2>2. CASE d = e
    BY <1>1, <2>1, <2>2 DEF CursorsInv
  <2>3. CASE d # e
    <3>1. drv'[d] = drv[d] /\ rep'[d] = rep[d] /\ inner'[d] = inner[d]
      BY <2>3 DEF OnlyAt
    <3>2. CursorsAgree(d) => CursorsAgree(d)'
      BY <3>1 DEF CursorsAgree, Kept, Returning, Closed
    <3> QED
      BY <2>1, <3>1, <3>2 DEF CursorsInv, Alive
  <2> QED
    BY <2>2, <2>3
<1> QED
  BY <1>2 DEF CursorsInv

(* A step of the program for driver e.                                      *)
LEMMA ProgramCursors ==
  ASSUME CursorsInv, FilesInv', NEW e \in Drivers, UNCHANGED inner,
         OnlyAt(e, drv, drv'), OnlyAt(e, handle, handle'), OnlyAt(e, rep, rep'), OnlyAt(e, cursors, cursors'),
         \A d \in Drivers : d # e => Apart(d) /\ Apart(d)' /\ (d \in session <=> d \in session'),
         drv'[e] = "none" => inner[e] = FreshDriver, cursors'[e] # {} => e \in session', CallAgrees(e)',
         handle'[e] = "open" /\ Alive(e)' => CursorsAgree(e)'
  PROVE  CursorsInv'
<1>1. ASSUME NEW d \in Drivers
      PROVE  /\ drv'[d] = "none" => inner'[d] = FreshDriver
             /\ cursors'[d] # {} => d \in session'
             /\ CallAgrees(d)'
             /\ handle'[d] = "open" /\ Alive(d)' => CursorsAgree(d)'
  <2>2. CASE d = e
    BY <2>2
  <2>3. CASE d # e
    <3>1. /\ drv'[d] = drv[d] /\ rep'[d] = rep[d] /\ inner'[d] = inner[d] /\ cursors'[d] = cursors[d]
          /\ handle'[d] = handle[d] /\ Apart(d) /\ Apart(d)' /\ (d \in session <=> d \in session')
      BY <2>3 DEF OnlyAt
    <3>2. ~Closed(d) /\ \A p : ~Returning(d, p) /\ ~Returning(d, p)'
      BY <3>1 DEF Closed, Returning, Apart
    <3>3. CursorsAgree(d) => CursorsAgree(d)'
      BY <3>1, <3>2 DEF CursorsAgree, Kept
    <3>4. CallAgrees(d)'
      BY <3>1 DEF CallAgrees, Apart
    <3> QED
      BY <3>1, <3>3, <3>4 DEF CursorsInv, Alive
  <2> QED
    BY <2>2, <2>3
<1>2. DOMAIN cursors' = Drivers
  BY DEF OnlyAt
<1> QED
  BY <1>1, <1>2 DEF CursorsInv

(* A program that ends has no cursors.                                      *)
LEMMA CursorsGone ==
  ASSUME CursorsInv, FilesInv', UNCHANGED <<drv, inner>>, client'.at \in {"gone", "killed"},
         EndsHandles, ForgetsAll
  PROVE  CursorsInv'
  BY DEF CursorsInv, EndsHandles, ForgetsAll, CallAgrees, Held

-----------------------------------------------------------------------------
(***************************************************************************)
(* The steps of a driver.                                                  *)
(***************************************************************************)
(* It goes on with the cursors it has.                                      *)
LEMMA SameCursors ==
  ASSUME CursorsInv, NEW e \in Drivers, Alive(e), drv[e] # "saves", ~Closed(e),
         \A p : ~Returning(e, p), UNCHANGED <<client, cursors>>, handle[e] = "open",
         inner'[e].tokens = inner[e].tokens, inner'[e].managed = inner[e].managed,
         ~Returning(e, "open_select_cursor")'
  PROVE  CursorsAgree(e)'
<1>1. CursorsAgree(e)
  BY DEF CursorsInv
<1>2. \A c \in cursors[e] : Given(inner[e], c)
  BY <1>1 DEF CursorsAgree, Kept
<1> QED
  BY <1>1, <1>2 DEF CursorsAgree, Kept, Given

(* A driver that begins, that takes a request, that ends.                   *)
LEMMA InitCursors ==
  ASSUME CursorsInv, FilesInv', NEW e \in Drivers, DriverInit(e)
  PROVE  CursorsInv'
<1>1. /\ Alive(e) /\ drv[e] = "init" /\ UNCHANGED <<client, handle, session, cursors>>
      /\ \/ Answer(e, Result(TRUE, 0), "listens", inner[e])
         \/ Answer(e, Result(FALSE, 0), "ended", inner[e])
  BY DEF DriverInit, Alive, Running, programVars
<1>2. /\ OnlyAt(e, drv, drv') /\ OnlyAt(e, rep, rep') /\ OnlyAt(e, inner, inner')
      /\ \/ drv'[e] = "listens" /\ inner'[e] = inner[e]
         \/ ~Alive(e)'
  BY <1>1 DEF CursorsInv, FilesInv, SyncInv, Shapes, Answer, Becomes, OnlyAt, Alive, Running
<1>3. ASSUME handle[e] = "open" PROVE client.at = "start" /\ client.d = e
  BY <1>1, <1>3 DEF CursorsInv, FilesInv, SyncInv, Exchanging, PipesAgree, Asking, Awaiting, Quiet
<1>4. ASSUME handle[e] = "open", Alive(e)' PROVE CursorsAgree(e)'
  <2>1. ~Closed(e) /\ \A p : ~Returning(e, p) /\ ~Returning(e, p)'
    BY <1>1, <1>3, <1>4 DEF Closed, Returning
  <2> QED
    BY <1>1, <1>2, <1>4, <2>1, SameCursors
<1> QED
  BY <1>1, <1>2, <1>4, DriverCursors

(* The number of a procedure.                                               *)
LEMMA ProcnumCursors ==
  ASSUME CursorsInv, FilesInv', NEW e \in Drivers, ReceiveProcnum(e)
  PROVE  CursorsInv'
<1> DEFINE next == IF HasArgs(Head(req[e]).call) THEN "args" ELSE "serves"
<1>1. /\ Alive(e) /\ drv[e] = "listens" /\ req[e] # <<>> /\ UNCHANGED <<client, handle, session, cursors>>
      /\ Answer(e, ProcedureOk, next, inner[e])
  BY DEF ReceiveProcnum, Alive, Running, programVars
<1>2. next \in {"listens", "args", "serves"}
  OBVIOUS
<1> HIDE DEF next
<1>3. /\ OnlyAt(e, drv, drv') /\ OnlyAt(e, rep, rep') /\ OnlyAt(e, inner, inner')
      /\ \/ inner'[e] = inner[e]
         \/ drv'[e] = "ended"
  BY <1>1, <1>2, AnswerState DEF CursorsInv
<1>4. ASSUME handle[e] = "open" PROVE client.at = "procnum" /\ client.d = e /\ rep[e] = <<>>
  BY <1>1, <1>4 DEF CursorsInv, FilesInv, SyncInv, Exchanging, PipesAgree, Starting, Asking, Awaiting, Quiet
<1>5. ASSUME handle[e] = "open", Alive(e)' PROVE CursorsAgree(e)'
  <2>1. ~Closed(e) /\ \A p : ~Returning(e, p) /\ ~Returning(e, p)'
    <3>1. \A m, n : <<m, n>> # <<>>
      BY Twos
    <3> QED
      BY <1>1, <1>4, <1>5, <3>1 DEF Closed, Returning
  <2> QED
    BY <1>1, <1>3, <1>5, <2>1, SameCursors DEF Alive, Running
<1> QED
  BY <1>1, <1>3, <1>5, DriverCursors

(* The end.                                                                 *)
LEMMA EndCursors ==
  ASSUME CursorsInv, FilesInv', NEW e \in Drivers, EndOfRequests(e) \/ DriverKilled(e)
  PROVE  CursorsInv'
<1>1. /\ Alive(e) /\ UNCHANGED <<client, handle, session, cursors, rep>>
      /\ drv'[e] \in {"ended", "killed"}
      /\ OnlyAt(e, drv, drv') /\ OnlyAt(e, rep, rep') /\ OnlyAt(e, inner, inner')
  BY DEF EndOfRequests, DriverKilled, Becomes, Alive, Running, programVars, OnlyAt,
         CursorsInv, FilesInv, SyncInv, Shapes
<1> QED
  BY <1>1, DriverCursors DEF Alive, Running

(* What is known of a call that is served with its arguments.               *)
LEMMA ServedCall ==
  ASSUME CursorsInv, NEW e \in Drivers, drv[e] = "args", req[e] # <<>>, handle[e] = "open"
  PROVE  /\ client.d = e /\ client.at = "result" /\ Head(req[e]).call = client.call /\ rep[e] = <<>>
         /\ CursorsAgree(e) /\ \A c \in cursors[e] : Given(inner[e], c)
<1>1. PipesAgree(e) /\ Alive(e) /\ CursorsAgree(e)
  BY DEF CursorsInv, FilesInv, SyncInv, Alive, Running
<1>2. client.d = e /\ client.at = "result" /\ req[e] = <<Args(client.call)>> /\ rep[e] = <<>>
  BY <1>1 DEF PipesAgree, Exchanging, Quiet, Starting, Asking, Awaiting
<1>3. Head(req[e]).call = client.call
  BY <1>2, Ones, Messages
<1>4. ~Closed(e) /\ \A p : ~Returning(e, p)
  <2>1. \A m : <<m>> # <<>>
    BY Ones
  <2> QED
    BY <1>2, <2>1 DEF Closed, Returning
<1> QED
  BY <1>1, <1>2, <1>3, <1>4 DEF CursorsAgree, Kept

(* An answer after which the cursors agree.                                 *)
LEMMA AnswerCursors ==
  ASSUME CursorsInv, FilesInv', NEW e \in Drivers, Alive(e), NEW ok, NEW token, NEW state,
         UNCHANGED <<client, handle, session, cursors>>, Replies(e, ok, token, state),
         handle[e] = "open" /\ drv'[e] = "listens" /\ inner'[e] = state
            /\ rep'[e] = Append(rep[e], Result(ok, token)) => CursorsAgree(e)'
  PROVE  CursorsInv'
<1> DEFINE m == Result(ok, token)
<1>1. Answer(e, m, "listens", state)
  BY DEF Replies
<1>2. rep'[e] = Append(rep[e], m) => rep'[e] = Append(rep[e], Result(ok, token))
  OBVIOUS
<1> HIDE DEF m
<1>3. /\ OnlyAt(e, drv, drv') /\ OnlyAt(e, rep, rep') /\ OnlyAt(e, inner, inner')
      /\ \/ drv'[e] = "listens" /\ inner'[e] = state /\ rep'[e] = Append(rep[e], m)
         \/ drv'[e] = "ended" /\ inner'[e] = FreshDriver
  BY <1>1, AnswerState DEF CursorsInv
<1> QED
  BY <1>2, <1>3, DriverCursors DEF Alive, Running

(* Opening a database, statements and fetches leave the cursors.            *)
LEMMA StatementCursors ==
  ASSUME CursorsInv, FilesInv', NEW e \in Drivers,
         ServeOpenDatabase(e) \/ ServeExecute(e) \/ ServeFetch(e)
  PROVE  CursorsInv'
<1>1. /\ drv[e] = "args" /\ req[e] # <<>> /\ UNCHANGED <<client, handle, session, cursors>> /\ Alive(e)
      /\ Head(req[e]).call.proc \in {"open_database", "execute_immediate", "fetch"}
  BY DEF ServeOpenDatabase, ServeExecute, ServeFetch, Serving, programVars, Alive, Running
<1>2. IsDriver(inner[e])
  BY DEF CursorsInv, FilesInv, RowsAgree
<1>3. ASSUME handle[e] = "open", drv'[e] = "listens",
             inner'[e].tokens = inner[e].tokens, inner'[e].managed = inner[e].managed
      PROVE  CursorsAgree(e)'
  <2>1. /\ client.d = e /\ client.at = "result" /\ rep[e] = <<>>
        /\ client.call.proc \in {"open_database", "execute_immediate", "fetch"}
    BY <1>1, <1>3, ServedCall
  <2>2. ~Closed(e) /\ (\A p : ~Returning(e, p)) /\ ~Returning(e, "open_select_cursor")'
    BY <1>1, <2>1 DEF Closed, Returning
  <2> QED
    BY <1>1, <1>3, <2>2, SameCursors
<1>4. CASE \E ok, state : /\ Replies(e, ok, 0, state)
                         /\ state.tokens = inner[e].tokens /\ state.managed = inner[e].managed
  BY <1>1, <1>3, <1>4, AnswerCursors
<1>5. CASE Answer(e, Result(FALSE, 0), "ended", inner[e])
  <2>1. /\ OnlyAt(e, drv, drv') /\ OnlyAt(e, rep, rep') /\ OnlyAt(e, inner, inner')
        /\ drv'[e] = "ended"
    BY <1>5 DEF CursorsInv, FilesInv, SyncInv, Shapes, Answer, Becomes, OnlyAt, Running
  <2> QED
    BY <1>1, <2>1, DriverCursors DEF Alive, Running
<1>6. CASE ServeOpenDatabase(e)
  <2> DEFINE state == [inner[e] EXCEPT !.open = TRUE, !.tables = OpenedTables(file)]
  <2>1. state.tokens = inner[e].tokens /\ state.managed = inner[e].managed
    BY <1>2 DEF IsDriver, HasFields
  <2>2. Replies(e, FALSE, 0, inner[e]) \/ Replies(e, TRUE, 0, state)
    BY <1>6 DEF ServeOpenDatabase
  <2> HIDE DEF state
  <2> QED
    BY <1>4, <2>1, <2>2
<1>7. CASE ServeExecute(e)
  <2> DEFINE st == Head(req[e]).call.statement
             ok == Succeeds(inner[e].tables, file, st)
             state == [inner[e] EXCEPT !.tables = TablesAfter(@, file, st)]
  <2>1. state.tokens = inner[e].tokens /\ state.managed = inner[e].managed
    BY <1>2 DEF IsDriver, HasFields
  <2>2. Replies(e, ok, 0, state)
    BY <1>7 DEF ServeExecute
  <2> HIDE DEF state, ok
  <2> QED
    BY <1>4, <2>1, <2>2
<1>8. CASE ServeFetch(e)
  <2>1. \/ \E ok : Replies(e, ok, 0, inner[e])
        \/ Answer(e, Result(FALSE, 0), "ended", inner[e])
    BY <1>8 DEF ServeFetch
  <2> QED
    BY <1>4, <1>5, <2>1
<1> QED
  BY <1>6, <1>7, <1>8

(* A select gives the program a cursor it did not have.                     *)
LEMMA SelectCursors ==
  ASSUME CursorsInv, FilesInv', NEW e \in Drivers, ServeOpenSelect(e)
  PROVE  CursorsInv'
<1> DEFINE call == Head(req[e]).call
           st == [op |-> "select", table |-> call.table]
           after == [inner[e] EXCEPT !.tables = TablesAfter(@, file, st)]
           token == NewToken(inner[e].tokens)
           yes == [after EXCEPT !.tokens = SelectedTokens(@, call.mode), !.managed = @ \cup {token}]
           no == [after EXCEPT !.tokens = SelectTokens(@, call.mode)]
<1>1. /\ drv[e] = "args" /\ req[e] # <<>> /\ UNCHANGED <<client, handle, session, cursors>> /\ Alive(e)
      /\ call.proc = "open_select_cursor"
      /\ Replies(e, TRUE, token, yes) \/ Replies(e, FALSE, 0, no)
  BY DEF ServeOpenSelect, Serving, programVars, Alive, Running
<1>2. HasFields(inner[e], {"open", "managed", "tokens", "tables", "todo", "saving"})
  BY DEF CursorsInv, FilesInv, RowsAgree, IsDriver
<1>3. /\ HasFields(after, {"open", "managed", "tokens", "tables", "todo", "saving"})
      /\ after.tokens = inner[e].tokens /\ after.managed = inner[e].managed
  BY <1>2 DEF HasFields
<1> HIDE DEF after
<1>4. /\ yes.tokens = SelectedTokens(inner[e].tokens, call.mode)
      /\ yes.managed = inner[e].managed \cup {token}
      /\ no.tokens = SelectTokens(inner[e].tokens, call.mode) /\ no.managed = inner[e].managed
  BY <1>3 DEF HasFields
<1> HIDE DEF yes, no
<1>5. ASSUME handle[e] = "open"
      PROVE  /\ client.d = e /\ client.at = "result" /\ call = client.call /\ rep[e] = <<>>
             /\ CursorsAgree(e) /\ \A c \in cursors[e] : Given(inner[e], c)
  BY <1>1, <1>5, ServedCall
<1>6. ASSUME handle[e] = "open"
      PROVE  /\ token \notin inner[e].managed
             /\ Managed(no.tokens, no.managed)
             /\ \A k \in inner[e].managed : At(no.tokens, k) = At(inner[e].tokens, k)
             /\ Managed(yes.tokens, yes.managed)
             /\ \A k \in inner[e].managed : At(yes.tokens, k) = At(inner[e].tokens, k)
             /\ At(yes.tokens, token).mode = call.mode
  <2> DEFINE old == inner[e].tokens
             managed == inner[e].managed
             mode == call.mode
  <2>1. Managed(old, managed)
    BY <1>5, <1>6 DEF CursorsAgree
  <2> HIDE DEF old, managed, mode
  <2>2. /\ NewToken(old) \notin managed
        /\ Managed(SelectTokens(old, mode), managed)
        /\ \A k \in managed : At(SelectTokens(old, mode), k) = At(old, k)
        /\ Managed(SelectedTokens(old, mode), managed \cup {NewToken(old)})
        /\ \A k \in managed : At(SelectedTokens(old, mode), k) = At(old, k)
        /\ At(SelectedTokens(old, mode), NewToken(old)).mode = mode
    BY <2>1, Selecting
  <2> QED
    BY <1>4, <2>2 DEF old, managed, mode
<1> HIDE DEF token, call
<1>7. ASSUME Replies(e, TRUE, token, yes), handle[e] = "open", drv'[e] = "listens", inner'[e] = yes,
             rep'[e] = Append(rep[e], Result(TRUE, token))
      PROVE  CursorsAgree(e)'
  <2>1. rep'[e] = <<Result(TRUE, token)>> /\ Head(rep'[e]) = Result(TRUE, token)
    BY <1>5, <1>7, Ones
  <2>2. Head(rep'[e]).token = token
    BY <2>1 DEF Result
  <2>3. \A c \in cursors[e] : Given(yes, c)
    BY <1>4, <1>5, <1>6, <1>7 DEF Given
  <2>4. \A c : c.token = token /\ c.mode = client.call.mode => Given(yes, c)
    BY <1>4, <1>5, <1>6, <1>7 DEF Given
  <2>5. \A k \in cursors[e] : k.token # token
    BY <1>5, <1>6, <1>7 DEF Given
  <2>6. \A c, k \in cursors[e] : c # k => c.token # k.token
    BY <1>5, <1>7 DEF CursorsAgree
  <2> DEFINE c0 == [token |-> Head(rep'[e]).token, mode |-> client'.call.mode]
  <2>7. Given(yes, c0) /\ \A k \in cursors[e] : k.token # c0.token
    <3>1. c0.token = token /\ c0.mode = client.call.mode
      BY <1>1, <2>2
    <3> HIDE DEF c0
    <3> QED
      BY <2>4, <2>5, <3>1
  <2>8. Given(inner'[e], c0) /\ \A k \in cursors'[e] : k.token # c0.token
    BY <1>1, <1>7, <2>7
  <2>10. \A k \in cursors'[e] : Kept(e, k)'
    BY <1>1, <1>7, <2>3 DEF Given, Kept
  <2>9. Managed(inner'[e].tokens, inner'[e].managed)
    BY <1>6, <1>7
  <2> QED
    BY <1>1, <2>6, <2>8, <2>9, <2>10 DEF CursorsAgree, Given
<1>8. ASSUME Replies(e, FALSE, 0, no), handle[e] = "open", drv'[e] = "listens", inner'[e] = no,
             rep'[e] = Append(rep[e], Result(FALSE, 0))
      PROVE  CursorsAgree(e)'
  <2>1. Head(rep'[e]) = Result(FALSE, 0)
    BY <1>5, <1>8, Ones
  <2>2. ~Returning(e, "open_select_cursor")'
    BY <2>1, Messages DEF Returning
  <2>3. \A c \in cursors[e] : Given(no, c)
    BY <1>4, <1>5, <1>6, <1>8 DEF Given
  <2>4. \A c, k \in cursors[e] : c # k => c.token # k.token
    BY <1>5, <1>8 DEF CursorsAgree
  <2> QED
    BY <1>1, <1>6, <1>8, <2>2, <2>3, <2>4 DEF CursorsAgree, Kept
<1> QED
  BY <1>1, <1>7, <1>8, AnswerCursors

(* Closing one takes it away, and the program is told so.                   *)
LEMMA CloseCursors ==
  ASSUME CursorsInv, FilesInv', NEW e \in Drivers, ServeCloseCursor(e)
  PROVE  CursorsInv'
<1> DEFINE token == Head(req[e]).call.token
           c0 == FindToken(inner[e].tokens, token)
           ok == FindToken(inner[e].tokens, c0.own) = OwnCursor
           state == [inner[e] EXCEPT !.tokens = ClosedTokens(@, token), !.managed = @ \ {token}]
<1>1. /\ drv[e] = "args" /\ req[e] # <<>> /\ UNCHANGED <<client, handle, session, cursors>> /\ Alive(e)
      /\ Head(req[e]).call.proc = "close_cursor"
      /\ \/ Replies(e, ok, 0, state)
         \/ Becomes(e, "ended", inner[e]) /\ UNCHANGED rep
  BY DEF ServeCloseCursor, Serving, programVars, Alive, Running
<1>2. state.tokens = ClosedTokens(inner[e].tokens, token) /\ state.managed = inner[e].managed \ {token}
  <2>1. HasFields(inner[e], {"open", "managed", "tokens", "tables", "todo", "saving"})
    BY DEF CursorsInv, FilesInv, RowsAgree, IsDriver
  <2> QED
    BY <2>1 DEF HasFields
<1>3. ASSUME handle[e] = "open"
      PROVE  /\ client.d = e /\ client.at = "result" /\ client.call.proc = "close_cursor"
             /\ client.call.token = token /\ rep[e] = <<>>
             /\ CursorsAgree(e) /\ \A c \in cursors[e] : Given(inner[e], c)
  BY <1>1, <1>3, ServedCall
<1>4. ASSUME handle[e] = "open"
      PROVE  token \in inner[e].managed /\ ok
  <2>1. token \in inner[e].managed
    BY <1>3, <1>4 DEF CursorsInv, CallAgrees, Given
  <2>2. Managed(inner[e].tokens, inner[e].managed)
    BY <1>3, <1>4 DEF CursorsAgree
  <2> QED
    BY <2>1, <2>2 DEF Managed, IsCursor, At
<1> HIDE DEF state, ok, token
<1>5. ASSUME Replies(e, ok, 0, state), handle[e] = "open", drv'[e] = "listens", inner'[e] = state,
             rep'[e] = Append(rep[e], Result(ok, 0))
      PROVE  CursorsAgree(e)'
  <2>1. rep'[e] = <<Result(TRUE, 0)>>
    BY <1>3, <1>4, <1>5, Ones DEF ok
  <2>2. Returning(e, "close_cursor")' /\ ~Returning(e, "open_select_cursor")'
    <3>1. Head(rep'[e]) = Result(TRUE, 0) /\ rep'[e] # <<>>
      BY <2>1, Ones
    <3>2. Head(rep'[e]).ok
      BY <3>1, Messages
    <3> QED
      BY <1>1, <1>3, <1>5, <3>1, <3>2 DEF Returning
  <2>3. /\ Managed(state.tokens, state.managed)
        /\ \A k \in state.managed : At(state.tokens, k) = At(inner[e].tokens, k)
    <3> DEFINE old == inner[e].tokens
               managed == inner[e].managed
    <3>1. Managed(old, managed) /\ token \in managed
      BY <1>3, <1>4, <1>5 DEF CursorsAgree
    <3> HIDE DEF old, managed
    <3>2. /\ Managed(ClosedTokens(old, token), managed \ {token})
          /\ \A k \in managed \ {token} : At(ClosedTokens(old, token), k) = At(old, k)
      BY <3>1, Closes
    <3> QED
      BY <1>2, <3>2 DEF old, managed
  <2>4. \A c \in cursors[e] : c.token # token => Given(state, c)
    BY <1>2, <1>3, <1>5, <2>3 DEF Given
  <2>5. \A c, k \in cursors[e] : c # k => c.token # k.token
    BY <1>3, <1>5 DEF CursorsAgree
  <2> QED
    BY <1>1, <1>3, <1>5, <2>2, <2>3, <2>4, <2>5 DEF CursorsAgree, Kept
<1>6. CASE Becomes(e, "ended", inner[e]) /\ UNCHANGED rep
  <2>1. /\ OnlyAt(e, drv, drv') /\ OnlyAt(e, rep, rep') /\ OnlyAt(e, inner, inner')
        /\ drv'[e] = "ended"
    BY <1>6 DEF CursorsInv, FilesInv, SyncInv, Shapes, Becomes, OnlyAt, Running
  <2> QED
    BY <1>1, <2>1, DriverCursors DEF Alive, Running
<1> QED
  BY <1>1, <1>5, <1>6, AnswerCursors

(* A driver that closes its database: all its cursors are gone, and the     *)
(* program is told at the end of the saving.                                *)
LEMMA CloseDatabaseCursors ==
  ASSUME CursorsInv, FilesInv', NEW e \in Drivers, ServeCloseDatabase(e)
  PROVE  CursorsInv'
<1> DEFINE state == [inner[e] EXCEPT !.tokens = AllClosed(inner[e]), !.managed = {},
                                     !.todo = ToSave(inner[e].tables)]
<1>1. /\ drv[e] = "serves" /\ Alive(e) /\ UNCHANGED <<client, handle, session, cursors>>
      /\ \/ Becomes(e, "saves", state) /\ UNCHANGED rep
         \/ Replies(e, FALSE, 0, inner[e])
  BY DEF ServeCloseDatabase, programVars, Alive, Running
<1>2. state.tokens = AllClosed(inner[e]) /\ state.managed = {}
  <2>1. HasFields(inner[e], {"open", "managed", "tokens", "tables", "todo", "saving"})
    BY DEF CursorsInv, FilesInv, RowsAgree, IsDriver
  <2> QED
    BY <2>1 DEF HasFields
<1>3. ASSUME handle[e] = "open"
      PROVE  /\ CursorsAgree(e) /\ ~Closed(e) /\ (\A p : ~Returning(e, p))
             /\ ~(client.at = "result" /\ client.d = e /\ client.call.proc = "open_select_cursor")
  <2>1. CursorsAgree(e) /\ PipesAgree(e)
    BY <1>1, <1>3 DEF CursorsInv, FilesInv, SyncInv
  <2>2. ~(client.at = "result" /\ client.d = e) \/ (rep[e] = <<>> /\ ~HasArgs(client.call))
    BY <1>1, <2>1 DEF PipesAgree, Exchanging, Awaiting
  <2> QED
    BY <1>1, <2>1, <2>2 DEF Closed, Returning, HasArgs
<1> HIDE DEF state
<1>4. CASE Becomes(e, "saves", state) /\ UNCHANGED rep
  <2>1. /\ OnlyAt(e, drv, drv') /\ OnlyAt(e, rep, rep') /\ OnlyAt(e, inner, inner')
        /\ drv'[e] = "saves" /\ inner'[e] = state
    BY <1>4 DEF CursorsInv, FilesInv, SyncInv, Shapes, Becomes, OnlyAt, Running
  <2>2. ASSUME handle[e] = "open" PROVE CursorsAgree(e)'
    <3>1. PICK S : inner[e].tokens \in Seq(S)
      BY <1>3, <2>2 DEF CursorsAgree, Managed, IsTokens
    <3>2. AllClosed(inner[e]) \in Seq(S \cup {NoAddress})
      <4> DEFINE own == {FindToken(inner[e].tokens, n).own : n \in inner[e].managed}
      <4>1. AllClosed(inner[e]) = [n \in DOMAIN inner[e].tokens |-> IF n \in own THEN NoAddress ELSE inner[e].tokens[n]]
        BY DEF AllClosed
      <4> HIDE DEF own
      <4> QED
        BY <3>1, <4>1
    <3>3. Managed(inner'[e].tokens, inner'[e].managed)
      BY <1>2, <2>1, <3>2 DEF Managed, IsTokens
    <3>4. ~Returning(e, "open_select_cursor")'
      BY <1>1, <1>3, <2>2 DEF Returning
    <3> QED
      BY <1>1, <1>3, <2>1, <2>2, <3>3, <3>4 DEF CursorsAgree
  <2> QED
    BY <1>1, <2>1, <2>2, DriverCursors
<1>5. CASE Replies(e, FALSE, 0, inner[e])
  <2>1. ASSUME handle[e] = "open", inner'[e] = inner[e] PROVE CursorsAgree(e)'
    <3>1. ~Returning(e, "open_select_cursor")'
      BY <1>1, <1>3, <2>1 DEF Returning
    <3> QED
      BY <1>1, <1>3, <2>1, <3>1, SameCursors
  <2> QED
    BY <1>1, <1>5, <2>1, AnswerCursors
<1> QED
  BY <1>1, <1>4, <1>5

(* The saving.                                                              *)
LEMMA SaveCursors ==
  ASSUME CursorsInv, FilesInv', NEW e \in Drivers, SaveWrites(e) \/ SaveRenames(e)
  PROVE  CursorsInv'
<1>1. IsDriver(inner[e])
  BY DEF CursorsInv, FilesInv, RowsAgree
<1>2. PICK state : /\ Becomes(e, "saves", state)
                   /\ state.tokens = inner[e].tokens /\ state.managed = inner[e].managed
  <2>1. ASSUME NEW t, NEW x, NEW y
        PROVE  /\ [inner[e] EXCEPT !.saving = x].tokens = inner[e].tokens
               /\ [inner[e] EXCEPT !.saving = x].managed = inner[e].managed
               /\ [inner[e] EXCEPT !.todo = @ \ {t}, !.saving = y].tokens = inner[e].tokens
               /\ [inner[e] EXCEPT !.todo = @ \ {t}, !.saving = y].managed = inner[e].managed
    BY <1>1 DEF IsDriver, HasFields
  <2>2. \/ \E x : Becomes(e, "saves", [inner[e] EXCEPT !.saving = x])
        \/ \E t, y : Becomes(e, "saves", [inner[e] EXCEPT !.todo = @ \ {t}, !.saving = y])
    <3>1. ASSUME NEW t, PassedOver(e, t)
          PROVE  Becomes(e, "saves", [inner[e] EXCEPT !.todo = @ \ {t}, !.saving = NotSaving])
      BY <3>1 DEF PassedOver
    <3>2. CASE SaveWrites(e)
      BY <3>1, <3>2 DEF SaveWrites
    <3>3. CASE SaveRenames(e)
      BY <3>1, <3>3 DEF SaveRenames
    <3> QED
      BY <3>2, <3>3
  <2>3. CASE \E x : Becomes(e, "saves", [inner[e] EXCEPT !.saving = x])
    <3>1. PICK x : Becomes(e, "saves", [inner[e] EXCEPT !.saving = x])
      BY <2>3
    <3> DEFINE s == [inner[e] EXCEPT !.saving = x]
    <3>2. s.tokens = inner[e].tokens /\ s.managed = inner[e].managed
      BY <2>1
    <3> HIDE DEF s
    <3>3. Becomes(e, "saves", s)
      BY <3>1 DEF s
    <3> QED
      BY <3>2, <3>3
  <2>4. CASE \E t, y : Becomes(e, "saves", [inner[e] EXCEPT !.todo = @ \ {t}, !.saving = y])
    <3>1. PICK t, y : Becomes(e, "saves", [inner[e] EXCEPT !.todo = @ \ {t}, !.saving = y])
      BY <2>4
    <3> DEFINE s == [inner[e] EXCEPT !.todo = @ \ {t}, !.saving = y]
    <3>2. s.tokens = inner[e].tokens /\ s.managed = inner[e].managed
      BY <2>1
    <3> HIDE DEF s
    <3>3. Becomes(e, "saves", s)
      BY <3>1 DEF s
    <3> QED
      BY <3>2, <3>3
  <2> QED
    BY <2>2, <2>3, <2>4
<1>3. /\ drv[e] = "saves" /\ Alive(e) /\ UNCHANGED <<client, handle, session, cursors, rep>>
      /\ OnlyAt(e, drv, drv') /\ OnlyAt(e, rep, rep') /\ OnlyAt(e, inner, inner')
      /\ drv'[e] = "saves" /\ inner'[e] = state
  BY <1>2 DEF SaveWrites, SaveRenames, programVars, Alive, Running, CursorsInv, FilesInv, SyncInv,
              Shapes, Becomes, OnlyAt
<1>4. ASSUME handle[e] = "open" PROVE CursorsAgree(e)'
  <2>1. CursorsAgree(e)
    BY <1>3, <1>4 DEF CursorsInv
  <2> QED
    BY <1>2, <1>3, <1>4, <2>1 DEF CursorsAgree, Returning, Given
<1> QED
  BY <1>3, <1>4, DriverCursors

(* Its end.                                                                 *)
LEMMA SavedCursors ==
  ASSUME CursorsInv, FilesInv', NEW e \in Drivers, CloseReplies(e)
  PROVE  CursorsInv'
<1> DEFINE state == [FreshDriver EXCEPT !.tokens = inner[e].tokens]
<1>1. /\ drv[e] = "saves" /\ Alive(e) /\ UNCHANGED <<client, handle, session, cursors>>
      /\ Replies(e, TRUE, 0, state)
  BY DEF CloseReplies, programVars, Alive, Running
<1>2. state.tokens = inner[e].tokens /\ state.managed = {}
  BY DEF FreshDriver
<1> HIDE DEF state
<1>3. ASSUME handle[e] = "open", drv'[e] = "listens", inner'[e] = state,
             rep'[e] = Append(rep[e], Result(TRUE, 0))
      PROVE  CursorsAgree(e)'
  <2>1. CursorsAgree(e) /\ PipesAgree(e)
    BY <1>1, <1>3 DEF CursorsInv, FilesInv, SyncInv
  <2>2. Managed(state.tokens, state.managed)
    BY <1>2, <2>1 DEF CursorsAgree, Managed
  <2>3. CASE e \in session
    <3>1. /\ client.d = e /\ client.call.proc = "close_database"
          /\ \/ client.at = "procnum" /\ rep[e] = <<ProcedureOk>>
             \/ client.at = "result" /\ rep[e] = <<>>
      BY <1>1, <2>3, Closing DEF CursorsInv
    <3>2. \/ client.at = "procnum" /\ rep'[e] = <<ProcedureOk, Result(TRUE, 0)>>
          \/ client.at = "result" /\ rep'[e] = <<Result(TRUE, 0)>>
      <4> DEFINE m == Result(TRUE, 0)
                 p == ProcedureOk
      <4>1. rep'[e] = Append(rep[e], m) /\ (rep[e] = <<p>> \/ rep[e] = <<>>)
        BY <1>3, <3>1
      <4> HIDE DEF m, p
      <4>2. Append(<<p>>, m) = <<p, m>> /\ Append(<<>>, m) = <<m>>
        BY Ones, Twos
      <4> QED
        BY <3>1, <4>1, <4>2 DEF m, p
    <3>3. Closed(e)' /\ ~Returning(e, "open_select_cursor")'
      BY <1>1, <1>3, <3>1, <3>2 DEF Closed, Returning
    <3> QED
      BY <1>1, <1>3, <2>1, <2>2, <3>3 DEF CursorsAgree
  <2>4. CASE e \notin session
    <3>1. cursors[e] = {}
      BY <2>4 DEF CursorsInv
    <3>2. ~Returning(e, "open_select_cursor")'
      BY <1>1, <2>4 DEF Returning, CursorsInv, CallAgrees
    <3> QED
      BY <1>1, <1>3, <2>2, <3>1, <3>2 DEF CursorsAgree
  <2> QED
    BY <2>3, <2>4
<1> QED
  BY <1>1, <1>3, AnswerCursors

-----------------------------------------------------------------------------
(***************************************************************************)
(* The steps of the program.                                               *)
(***************************************************************************)
(* A driver that is started.                                                *)
LEMMA StartCursors ==
  ASSUME CursorsInv, FilesInv', NEW e \in Drivers, StartDriver(e)
  PROVE  CursorsInv'
<1>1. /\ client.at = "idle" /\ drv[e] = "none" /\ UNCHANGED <<session, cursors, rep, inner>>
      /\ drv' = [drv EXCEPT ![e] = "init"] /\ handle' = [handle EXCEPT ![e] = "open"]
      /\ client'.at = "start" /\ client'.d = e
  BY DEF StartDriver, Program
<1>2. /\ OnlyAt(e, drv, drv') /\ OnlyAt(e, handle, handle') /\ OnlyAt(e, rep, rep')
      /\ OnlyAt(e, cursors, cursors') /\ drv'[e] = "init"
  BY <1>1 DEF OnlyAt, CursorsInv, FilesInv, SyncInv
<1>3. cursors[e] = {} /\ inner[e] = FreshDriver
  BY <1>1 DEF CursorsInv, FilesInv, SyncInv, SessionAgrees
<1>4. CursorsAgree(e)'
  BY <1>1, <1>3, FreshCursors DEF CursorsAgree, Returning
<1> QED
  BY <1>1, <1>2, <1>3, <1>4, ProgramCursors DEF Apart, CallAgrees

(* Its return code, and the end of a wait.                                  *)
LEMMA StartedCursors ==
  ASSUME CursorsInv, FilesInv', NEW e \in Drivers, Started(e) \/ WaitReturns(e)
  PROVE  CursorsInv'
<1>1. /\ client.at \in {"start", "wait"} /\ client'.at = "idle" /\ UNCHANGED <<session, cursors, drv, inner>>
      /\ rep' = [rep EXCEPT ![e] = Tail(@)] \/ UNCHANGED rep
      /\ handle' = [handle EXCEPT ![e] = "lost"] \/ UNCHANGED handle
      /\ client.d = e
  <2>1. CASE Started(e)
    BY <2>1 DEF Started, Idle, Program, driverVars
  <2>2. CASE WaitReturns(e)
    <3>1. client.at = "wait" /\ client.d = e /\ client'.at = "idle"
      BY <2>2 DEF WaitReturns, Idle, Program
    <3>2. UNCHANGED <<session, cursors, drv, inner, rep, handle>>
      BY <2>2 DEF WaitReturns, driverVars
    <3> QED
      BY <3>1, <3>2
  <2> QED
    BY <2>1, <2>2
<1>2. /\ OnlyAt(e, drv, drv') /\ OnlyAt(e, handle, handle') /\ OnlyAt(e, rep, rep')
      /\ OnlyAt(e, cursors, cursors') /\ (handle'[e] = "open" => handle[e] = "open")
  BY <1>1 DEF OnlyAt, CursorsInv, FilesInv, SyncInv
<1>3. ~Closed(e) /\ \A p : ~Returning(e, p) /\ ~Returning(e, p)'
  BY <1>1 DEF Closed, Returning
<1>4. ASSUME handle'[e] = "open", Alive(e)' PROVE CursorsAgree(e)'
  <2>1. CursorsAgree(e)
    BY <1>1, <1>2, <1>4 DEF CursorsInv, Alive
  <2> QED
    BY <1>1, <1>3, <2>1 DEF CursorsAgree, Kept
<1> QED
  BY <1>1, <1>2, <1>4, ProgramCursors DEF Apart, CallAgrees, CursorsInv

(* A call is made with a cursor the program has, in a session.              *)
LEMMA CallCursors ==
  ASSUME CursorsInv, FilesInv', NEW e \in Drivers, NEW call \in CallsTo(e), Call(e, call)
  PROVE  CursorsInv'
<1>1. /\ client.at = "idle" /\ handle[e] = "open" /\ UNCHANGED <<drv, inner, rep>>
      /\ \/ client' = [at |-> "procnum", d |-> e, call |-> call] /\ UNCHANGED <<handle, session, cursors>>
         \/ client' = [at |-> "killed", d |-> 0, call |-> NoCall] /\ EndsHandles /\ ForgetsAll
  BY DEF Call, Send, Program, driverVars
<1>2. CASE client' = [at |-> "killed", d |-> 0, call |-> NoCall] /\ EndsHandles /\ ForgetsAll
  BY <1>1, <1>2, CursorsGone
<1>3. CASE client' = [at |-> "procnum", d |-> e, call |-> call] /\ UNCHANGED <<handle, session, cursors>>
  <2>1. /\ call.proc \in {"open_select_cursor", "close_cursor"} => e \in session
        /\ call.proc = "close_cursor" => \E c \in cursors[e] : c.token = call.token
    BY DEF CallsTo, OpenDatabase, CloseDatabase, OpenSelect, Fetch, CloseCursor, Execute
  <2>2. client'.at = "procnum" /\ client'.d = e /\ client'.call = call
    BY <1>3
  <2>3. CallAgrees(e)'
    BY <1>3, <2>1, <2>2 DEF CallAgrees
  <2>4. /\ OnlyAt(e, drv, drv') /\ OnlyAt(e, handle, handle') /\ OnlyAt(e, rep, rep')
        /\ OnlyAt(e, cursors, cursors')
    BY <1>1, <1>3 DEF OnlyAt, CursorsInv, FilesInv, SyncInv
  <2>5. ~Closed(e) /\ \A p : ~Returning(e, p) /\ ~Returning(e, p)'
    BY <1>1, <2>2 DEF Closed, Returning
  <2>6. Alive(e) => CursorsAgree(e)'
    BY <1>1, <1>3, <2>5 DEF CursorsInv, CursorsAgree, Kept
  <2> QED
    BY <1>1, <1>3, <2>2, <2>3, <2>4, <2>6, ProgramCursors DEF Apart, CursorsInv, Alive
<1> QED
  BY <1>1, <1>2, <1>3

(* The number of a procedure has come back.                                 *)
LEMMA ProcedureCursors ==
  ASSUME CursorsInv, FilesInv', NEW e \in Drivers, ProcedureStarts(e)
  PROVE  CursorsInv'
<1>1. /\ client.at = "procnum" /\ client.d = e /\ UNCHANGED <<drv, inner>>
      /\ \/ /\ rep[e] # <<>> /\ rep' = [rep EXCEPT ![e] = Tail(@)]
            /\ client' = [at |-> "result", d |-> e, call |-> client.call]
            /\ UNCHANGED <<handle, session, cursors>>
         \/ client' = [at |-> "killed", d |-> 0, call |-> NoCall] /\ EndsHandles /\ ForgetsAll
         \/ /\ ~Alive(e) /\ client'.at = "idle" /\ UNCHANGED <<rep, handle, session, cursors>>
  BY DEF ProcedureStarts, Send, Program, driverVars, EndOfReplies, CallFails, Idle
<1>2. CASE client' = [at |-> "killed", d |-> 0, call |-> NoCall] /\ EndsHandles /\ ForgetsAll
  BY <1>1, <1>2, CursorsGone
<1>3. CASE ~Alive(e) /\ client'.at = "idle" /\ UNCHANGED <<rep, handle, session, cursors>>
  <2>1. /\ OnlyAt(e, drv, drv') /\ OnlyAt(e, handle, handle') /\ OnlyAt(e, rep, rep')
        /\ OnlyAt(e, cursors, cursors')
    BY <1>1, <1>3 DEF OnlyAt, CursorsInv, FilesInv, SyncInv
  <2> QED
    BY <1>1, <1>3, <2>1, ProgramCursors DEF Apart, CallAgrees, CursorsInv, Alive
<1>4. CASE /\ rep[e] # <<>> /\ rep' = [rep EXCEPT ![e] = Tail(@)]
           /\ client' = [at |-> "result", d |-> e, call |-> client.call]
           /\ UNCHANGED <<handle, session, cursors>>
  <2>1. /\ OnlyAt(e, drv, drv') /\ OnlyAt(e, handle, handle') /\ OnlyAt(e, rep, rep')
        /\ OnlyAt(e, cursors, cursors') /\ rep'[e] = Tail(rep[e])
        /\ client'.at = "result" /\ client'.d = e /\ client'.call = client.call
    BY <1>1, <1>4 DEF OnlyAt, CursorsInv, FilesInv, SyncInv
  <2>2. CallAgrees(e)'
    BY <1>1, <1>4, <2>1 DEF CallAgrees, CursorsInv
  <2>3. ASSUME handle[e] = "open", Alive(e) PROVE CursorsAgree(e)'
    <3>1. CursorsAgree(e) /\ Asking(client.call, drv[e], req[e], rep[e])
      BY <1>1, <2>3 DEF CursorsInv, FilesInv, SyncInv, PipesAgree
    <3>2. rep'[e] = <<>> \/ ~HasArgs(client.call)
      <4>1. Tail(<<ProcedureOk>>) = <<>>
        BY Ones
      <4> QED
        BY <1>4, <2>1, <3>1, <4>1 DEF Asking
    <3>3. ~Returning(e, "open_select_cursor")'
      BY <2>1, <3>2 DEF Returning, HasArgs
    <3>4. Closed(e) => Closed(e)'
      <4>1. Tail(<<ProcedureOk, Result(TRUE, 0)>>) = <<Result(TRUE, 0)>>
        BY Twos
      <4> QED
        BY <1>1, <2>1, <4>1 DEF Closed
    <3>5. \A p : ~Returning(e, p)
      BY <1>1 DEF Returning
    <3> QED
      BY <1>1, <1>4, <3>1, <3>3, <3>4, <3>5 DEF CursorsAgree, Kept
  <2> QED
    BY <1>1, <1>4, <2>1, <2>2, <2>3, ProgramCursors DEF Apart, CursorsInv, Alive
<1> QED
  BY <1>1, <1>2, <1>3, <1>4

(* A result: what was opened is added, what was closed is taken away.       *)
LEMMA ReturnCursors ==
  ASSUME CursorsInv, FilesInv', NEW e \in Drivers, CallReturns(e)
  PROVE  CursorsInv'
<1> DEFINE call == client.call
<1>1. /\ client.at = "result" /\ client.d = e /\ client'.at = "idle" /\ UNCHANGED <<drv, inner, handle>>
      /\ \/ /\ rep[e] # <<>> /\ Head(rep[e]).ok /\ rep' = [rep EXCEPT ![e] = Tail(@)]
            /\ cursors' = [cursors EXCEPT ![e] = CursorsAfter(e, call, Head(rep[e]).token)]
            /\ session' = SessionAfter(e, call)
         \/ /\ rep[e] # <<>> /\ ~Head(rep[e]).ok /\ rep' = [rep EXCEPT ![e] = Tail(@)]
            /\ UNCHANGED <<session, cursors>>
         \/ ~Alive(e) /\ UNCHANGED <<rep, session, cursors>>
  BY DEF CallReturns, EndOfReplies, CallFails, Idle, Program, driverVars
<1>2. /\ OnlyAt(e, drv, drv') /\ OnlyAt(e, handle, handle') /\ OnlyAt(e, rep, rep')
      /\ OnlyAt(e, cursors, cursors') /\ \A d \in Drivers : d # e => (d \in session <=> d \in session')
  BY <1>1 DEF OnlyAt, CursorsInv, FilesInv, SyncInv, SessionAfter
<1>3. CallAgrees(e)' /\ ~Closed(e)' /\ \A p : ~Returning(e, p)'
  BY <1>1 DEF CallAgrees, Closed, Returning
<1>4. drv[e] = "none" => inner[e] = FreshDriver
  BY DEF CursorsInv
<1> HIDE DEF call
<1>5. ASSUME cursors'[e] # {} => e \in session',
             handle[e] = "open" /\ Alive(e) => CursorsAgree(e)'
      PROVE  CursorsInv'
  BY <1>1, <1>2, <1>3, <1>4, <1>5, ProgramCursors DEF Apart, Alive
<1>6. CASE ~Alive(e) /\ UNCHANGED <<rep, session, cursors>>
  BY <1>5, <1>6 DEF CursorsInv
<1>7. CASE rep[e] # <<>> /\ ~Head(rep[e]).ok /\ UNCHANGED <<session, cursors>>
  <2>1. Head(<<Result(TRUE, 0)>>) = Result(TRUE, 0) /\ Result(TRUE, 0).ok
    BY Ones, Messages
  <2>2. ~Closed(e) /\ \A p : ~Returning(e, p)
    BY <1>1, <1>7, <2>1 DEF Closed, Returning
  <2>3. handle[e] = "open" /\ Alive(e) => CursorsAgree(e)'
    BY <1>1, <1>3, <1>7, <2>2 DEF CursorsInv, CursorsAgree, Kept
  <2> QED
    BY <1>5, <1>7, <2>3 DEF CursorsInv
<1>8. CASE /\ rep[e] # <<>> /\ Head(rep[e]).ok
           /\ cursors' = [cursors EXCEPT ![e] = CursorsAfter(e, call, Head(rep[e]).token)]
           /\ session' = SessionAfter(e, call)
  <2>1. cursors'[e] = CursorsAfter(e, call, Head(rep[e]).token)
    BY <1>8 DEF CursorsInv
  <2>2. CASE call.proc = "close_database"
    <3>1. cursors'[e] = {}
      BY <2>1, <2>2 DEF CursorsAfter
    <3>2. handle[e] = "open" /\ Alive(e) => CursorsAgree(e)'
      BY <1>1, <1>3, <3>1 DEF CursorsInv, CursorsAgree
    <3> QED
      BY <1>5, <3>1, <3>2
  <2>3. CASE call.proc # "close_database"
    <3>1. /\ session \subseteq session'
          /\ call.proc \in {"open_select_cursor", "close_cursor"} => e \in session
      BY <1>1, <1>8, <2>3 DEF SessionAfter, CursorsInv, CallAgrees, call
    <3>2. ASSUME handle[e] = "open", Alive(e)
          PROVE  /\ CursorsAgree(e) /\ drv[e] # "saves" /\ ~Closed(e)
                 /\ \A c \in cursors[e] : \/ Given(inner[e], c)
                                          \/ call.proc = "close_cursor" /\ c.token = call.token
      <4>1. CursorsAgree(e) /\ Awaiting(client.call, drv[e], req[e], rep[e])
        BY <1>1, <3>2 DEF CursorsInv, FilesInv, SyncInv, PipesAgree
      <4>2. drv[e] # "saves" /\ ~Closed(e)
        BY <1>8, <2>3, <4>1 DEF Awaiting, Closed, call
      <4> QED
        BY <4>1, <4>2 DEF CursorsAgree, Kept, Returning, call
    <3>3. CASE call.proc = "open_select_cursor"
      <4> DEFINE c0 == [token |-> Head(rep[e]).token, mode |-> call.mode]
      <4>1. cursors'[e] = cursors[e] \cup {c0}
        BY <2>1, <3>3 DEF CursorsAfter
      <4>2. ASSUME handle[e] = "open", Alive(e) PROVE CursorsAgree(e)'
        <5>1. Given(inner[e], c0) /\ \A k \in cursors[e] : k.token # c0.token
          BY <1>1, <1>8, <3>2, <3>3, <4>2 DEF CursorsAgree, Returning, call
        <5> HIDE DEF c0
        <5> QED
          BY <1>1, <1>3, <3>2, <3>3, <4>1, <4>2, <5>1 DEF CursorsAgree, Kept
      <4> QED
        BY <1>5, <3>1, <3>3, <4>2
    <3>4. CASE call.proc = "close_cursor"
      <4>1. cursors'[e] = {c \in cursors[e] : c.token # call.token}
        BY <2>1, <3>4 DEF CursorsAfter
      <4>2. ASSUME handle[e] = "open", Alive(e) PROVE CursorsAgree(e)'
        BY <1>1, <1>3, <3>2, <4>1, <4>2 DEF CursorsAgree, Kept
      <4> QED
        BY <1>5, <3>1, <3>4, <4>2
    <3>5. CASE call.proc \notin {"open_select_cursor", "close_cursor"}
      <4>1. cursors'[e] = cursors[e]
        BY <2>1, <2>3, <3>5 DEF CursorsAfter
      <4>2. ASSUME handle[e] = "open", Alive(e) PROVE CursorsAgree(e)'
        BY <1>1, <1>3, <3>2, <3>5, <4>1, <4>2 DEF CursorsAgree, Kept
      <4> QED
        BY <1>5, <3>1, <4>1, <4>2 DEF CursorsInv
    <3> QED
      BY <3>3, <3>4, <3>5
  <2> QED
    BY <2>2, <2>3
<1> QED
  BY <1>1, <1>6, <1>7, <1>8

(* A driver that is shut down.                                              *)
LEMMA ShutdownCursors ==
  ASSUME CursorsInv, FilesInv', NEW e \in Drivers, Shutdown(e)
  PROVE  CursorsInv'
<1>1. /\ client.at = "idle" /\ client'.at = "wait" /\ UNCHANGED <<drv, inner, rep>>
      /\ handle' = [handle EXCEPT ![e] = "closed"] /\ session' = session \ {e}
      /\ cursors' = [cursors EXCEPT ![e] = {}]
  BY DEF Shutdown, Program, driverVars
<1>2. /\ OnlyAt(e, drv, drv') /\ OnlyAt(e, handle, handle') /\ OnlyAt(e, rep, rep')
      /\ OnlyAt(e, cursors, cursors') /\ handle'[e] = "closed" /\ cursors'[e] = {}
  BY <1>1 DEF OnlyAt, CursorsInv, FilesInv, SyncInv
<1> QED
  BY <1>1, <1>2, ProgramCursors DEF Apart, CallAgrees, CursorsInv

-----------------------------------------------------------------------------
(* At first there are no cursors.                                           *)
LEMMA CursorsInit == Init => CursorsInv
<1> SUFFICES ASSUME Init PROVE CursorsInv
  OBVIOUS
<1>1. FilesInv
  BY FilesInit
<1> QED
  BY <1>1 DEF Init, CursorsInv, CallAgrees

(* Every step keeps them.                                                   *)
LEMMA CursorsNext ==
  ASSUME CursorsInv, [Next]_vars PROVE CursorsInv'
<1>0. FilesInv'
  BY FilesNext DEF CursorsInv
<1>1. CASE UNCHANGED vars
  <2>1. UNCHANGED <<client, handle, session, cursors, drv, inner, rep>>
    BY <1>1 DEF vars, programVars, driverVars
  <2>3. ASSUME NEW d \in Drivers
        PROVE  /\ drv'[d] = "none" => inner'[d] = FreshDriver
               /\ cursors'[d] # {} => d \in session'
               /\ CallAgrees(d)'
               /\ handle'[d] = "open" /\ Alive(d)' => CursorsAgree(d)'
    <3>1. /\ drv[d] = "none" => inner[d] = FreshDriver
          /\ cursors[d] # {} => d \in session
          /\ CallAgrees(d)
          /\ handle[d] = "open" /\ Alive(d) => CursorsAgree(d)
      BY DEF CursorsInv
    <3>2. CallAgrees(d)'
      BY <2>1, <3>1 DEF CallAgrees
    <3>3. CursorsAgree(d) => CursorsAgree(d)'
      BY <2>1 DEF CursorsAgree, Kept, Returning, Closed
    <3>4. Alive(d)' <=> Alive(d)
      BY <2>1 DEF Alive
    <3> QED
      BY <2>1, <3>1, <3>2, <3>3, <3>4
  <2>4. DOMAIN cursors' = Drivers
    BY <2>1 DEF CursorsInv
  <2> QED
    BY <1>0, <2>3, <2>4 DEF CursorsInv
<1>2. ASSUME NEW e \in Drivers, ProgramGoesOn(e) PROVE CursorsInv'
  BY <1>0, <1>2, StartedCursors, ProcedureCursors, ReturnCursors DEF ProgramGoesOn
<1>3. ASSUME NEW e \in Drivers, DriverGoesOn(e) PROVE CursorsInv'
  <2>1. CASE Serve(e)
    BY <1>0, <2>1, StatementCursors, SelectCursors, CloseCursors, CloseDatabaseCursors DEF Serve
  <2>2. CASE Save(e)
    BY <1>0, <2>2, SaveCursors, SavedCursors DEF Save
  <2> QED
    BY <1>0, <1>3, <2>1, <2>2, InitCursors, ProcnumCursors, EndCursors DEF DriverGoesOn
<1>4. ASSUME NEW e \in Drivers, ProgramChooses(e) PROVE CursorsInv'
  BY <1>0, <1>4, StartCursors, CallCursors, ShutdownCursors DEF ProgramChooses
<1>5. ASSUME NEW e \in Drivers, DriverKilled(e) PROVE CursorsInv'
  BY <1>0, <1>5, EndCursors
<1>6. CASE Exit \/ ProgramKilled
  <2>1. UNCHANGED <<drv, inner>> /\ client'.at \in {"gone", "killed"} /\ EndsHandles /\ ForgetsAll
    BY <1>6 DEF Exit, ProgramKilled, Program, driverVars
  <2> QED
    BY <1>0, <2>1, CursorsGone
<1> QED
  BY <1>1, <1>2, <1>3, <1>4, <1>5, <1>6 DEF Next

(* Between two calls, every cursor a program has open leads in its driver   *)
(* to a dbCursor in the mode it was opened with, and that to a cursor of    *)
(* the dbf driver that no other cursor leads to (db_new_token and           *)
(* db_drop_token, which use places again, and db_d_open_select_cursor,      *)
(* db_d_close_cursor, db__close_all_cursors), whatever was opened, closed   *)
(* and failed before, with any number of drivers and cursors.               *)
THEOREM AlwaysCursorsFound == Spec => []CursorsFound
<1>1. CursorsInv => CursorsFound
  <2> SUFFICES ASSUME CursorsInv, client.at = "idle", NEW d \in Drivers, Alive(d), NEW c \in cursors[d]
               PROVE  /\ At(inner[d].tokens, c.token).kind = "dbCursor"
                      /\ At(inner[d].tokens, c.token).mode = c.mode
                      /\ c.token \in inner[d].managed
                      /\ At(inner[d].tokens, At(inner[d].tokens, c.token).own) = OwnCursor
                      /\ \A e \in cursors[d] \ {c} :
                           /\ e.token # c.token
                           /\ At(inner[d].tokens, e.token).own # At(inner[d].tokens, c.token).own
    BY DEF CursorsFound, At
  <2>1. d \in session /\ handle[d] = "open"
    BY DEF CursorsInv, FilesInv, SessionAgrees
  <2>2. CursorsAgree(d) /\ drv[d] # "saves" /\ ~Closed(d) /\ \A p : ~Returning(d, p)
    BY <2>1 DEF CursorsInv, FilesInv, SyncInv, PipesAgree, Exchanging, Quiet, Closed, Returning
  <2>3. \A e \in cursors[d] : Given(inner[d], e)
    BY <2>2 DEF CursorsAgree, Kept
  <2> QED
    BY <2>2, <2>3 DEF CursorsAgree, Given, Managed, IsCursor
<1>2. CursorsInv /\ [Next]_vars => CursorsInv'
  BY CursorsNext
<1> QED
  BY CursorsInit, <1>1, <1>2, PTL DEF Spec

-----------------------------------------------------------------------------
(***************************************************************************)
(* Every variable has its type, for any number of drivers, tables, rows,   *)
(* calls and faults.                                                       *)
(***************************************************************************)
TablesTyped(tables) == DOMAIN tables \subseteq Tables /\ \A t \in DOMAIN tables : tables[t] \in Table

(* A driver has tables, tokens for the cursors it manages, and saves tables *)
(* it has.                                                                  *)
DriverTyped(is, state) ==
    /\ IsDriver(state) /\ TablesTyped(state.tables)
    /\ IsTokens(state.tokens) /\ state.managed \subseteq DOMAIN state.tokens
    /\ IF is = "saves" THEN /\ state.todo \subseteq DOMAIN state.tables
                            /\ state.saving # NotSaving => state.saving.table \in DOMAIN state.tables
       ELSE state.saving = NotSaving
ReplyMessages == {ProcedureOk} \cup {Result(ok, t) : ok \in BOOLEAN, t \in Nat}

TypeInv ==
    /\ CursorsInv /\ TypeOK
    /\ \A d \in Drivers : DriverTyped(drv[d], inner[d]) /\ rep[d] \in Seq(ReplyMessages)

LEMMA FreshTyped == \A is : is # "saves" => DriverTyped(is, FreshDriver)
<1>1. IsDriver(FreshDriver) /\ DOMAIN FreshDriver.tables = {}
  BY Fresh
<1>2. FreshDriver.tokens = <<>> /\ FreshDriver.managed = {} /\ FreshDriver.saving = NotSaving
  BY DEF FreshDriver
<1>3. IsTokens(FreshDriver.tokens)
  BY <1>2 DEF IsTokens
<1> QED
  BY <1>1, <1>2, <1>3 DEF DriverTyped, TablesTyped

(* Changing a table keeps its type.                                         *)
LEMMA TableTypes ==
  ASSUME NEW tables, TablesTyped(tables), NEW t \in DOMAIN tables, NEW x \in Table,
         NEW new, new = [tables EXCEPT ![t] = x]
  PROVE  TablesTyped(new) /\ t \in DOMAIN new
BY DEF TablesTyped

LEMMA LoadedTypes ==
  ASSUME NEW tables, TablesTyped(tables), NEW files \in [Tables -> File], NEW t \in DOMAIN tables
  PROVE  /\ TablesTyped(Described(tables, t)) /\ t \in DOMAIN Described(tables, t)
         /\ TablesTyped(Loaded(tables, files, t)) /\ t \in DOMAIN Loaded(tables, files, t)
<1>1. tables[t] \in Table /\ t \in Tables
  BY DEF TablesTyped
<1>2. TablesTyped(Described(tables, t)) /\ t \in DOMAIN Described(tables, t)
  <2> DEFINE x == [tables[t] EXCEPT !.described = TRUE]
  <2>1. x \in Table
    BY <1>1 DEF Table
  <2>2. Described(tables, t) = [tables EXCEPT ![t] = x]
    BY DEF Described
  <2> HIDE DEF x
  <2> QED
    BY <2>1, <2>2, TableTypes
<1>3. CASE tables[t].loaded \/ ~Readable(files, t)
  BY <1>2, <1>3 DEF Loaded
<1>4. CASE ~(tables[t].loaded \/ ~Readable(files, t))
  <2> DEFINE x == [tables[t] EXCEPT !.described = TRUE, !.loaded = TRUE, !.rows = files[t].rows]
  <2>0. files[t].rows \subseteq Rows
    <3>1. files[t] \in File
      BY <1>1
    <3> QED
      BY <3>1 DEF File, Absent, Part
  <2>1. x \in Table
    BY <1>1, <2>0 DEF Table
  <2>2. Loaded(tables, files, t) = [tables EXCEPT ![t] = x]
    BY <1>4 DEF Loaded
  <2> HIDE DEF x
  <2> QED
    BY <1>2, <2>1, <2>2, TableTypes
<1> QED
  BY <1>2, <1>3, <1>4

(* So does a statement.                                                     *)
LEMMA StatementTypes ==
  ASSUME NEW tables, TablesTyped(tables), NEW files \in [Tables -> File], NEW st, st.op \in Ops,
         st.op = "create" => st.table \in Tables, st.op = "insert" => st.row \in Rows
  PROVE  TablesTyped(TablesAfter(tables, files, st))
<1> DEFINE t == st.table
           new == TablesAfter(tables, files, st)
           ok == Succeeds(tables, files, st)
<1>1. CASE st.op = "describe" \/ ~ok
  <2>1. HeadLoads(tables, files, t) => t \in DOMAIN tables
    BY DEF HeadLoads, Known
  <2> QED
    BY <1>1, <2>1, LoadedTypes DEF TablesAfter
<1>2. CASE ok /\ st.op = "create"
  <2>1. new = WithCreated(tables, t)
    BY <1>2 DEF TablesAfter
  <2>2. Created \in Table /\ t \in Tables
    BY <1>2 DEF Created, Table
  <2> QED
    BY <2>1, <2>2 DEF TablesTyped, WithCreated
<1>3. CASE ok /\ st.op \in {"drop", "select", "delete", "insert"}
  <2>1. t \in DOMAIN tables
    BY <1>3 DEF Succeeds, HeadLoads, Known
  <2>2. CASE st.op = "drop"
    <3> DEFINE l == Described(tables, t)
               x == [l[t] EXCEPT !.alive = FALSE]
    <3>1. new = [l EXCEPT ![t] = x]
      BY <1>3, <2>2 DEF TablesAfter
    <3>2. TablesTyped(l) /\ t \in DOMAIN l /\ l[t] \in Table
      BY <2>1, LoadedTypes DEF TablesTyped
    <3> HIDE DEF l
    <3>3. x \in Table
      BY <3>2 DEF Table
    <3> HIDE DEF x, new
    <3> QED
      BY <3>1, <3>2, <3>3, TableTypes DEF new
  <2>3. CASE st.op = "select"
    BY <1>3, <2>1, <2>3, LoadedTypes DEF TablesAfter
  <2>4. CASE st.op \in {"delete", "insert"}
    <3> DEFINE l == Loaded(tables, files, t)
               x == [l[t] EXCEPT !.rows = {}, !.updated = @ \/ l[t].rows # {}]
               z == [l[t] EXCEPT !.rows = @ \cup {st.row}, !.updated = TRUE]
    <3>1. (st.op = "delete" => new = [l EXCEPT ![t] = x]) /\ (st.op = "insert" => new = [l EXCEPT ![t] = z])
      BY <1>3 DEF TablesAfter, Emptied, Inserted
    <3>2. TablesTyped(l) /\ t \in DOMAIN l /\ l[t] \in Table
      BY <2>1, LoadedTypes DEF TablesTyped
    <3> HIDE DEF l
    <3>3. x \in Table
      BY <3>2 DEF Table
    <3>4. st.op = "insert" => z \in Table
      BY <3>2 DEF Table
    <3> HIDE DEF x, z, new
    <3> QED
      BY <2>4, <3>1, <3>2, <3>3, <3>4, TableTypes DEF new
  <2> QED
    BY <1>3, <2>2, <2>3, <2>4
<1> QED
  BY <1>1, <1>2, <1>3 DEF Ops

(* The token table only grows.                                              *)
LEMMA TokenTypes ==
  ASSUME NEW list, IsTokens(list), NEW x, NEW n
  PROVE  /\ IsTokens(WithToken(list, x)) /\ DOMAIN list \subseteq DOMAIN WithToken(list, x)
         /\ NewToken(list) \in DOMAIN WithToken(list, x) /\ NewToken(list) \in Nat
         /\ IsTokens(DropToken(list, n)) /\ DOMAIN DropToken(list, n) = DOMAIN list
<1>1. PICK S : list \in Seq(S)
  BY DEF IsTokens
<1>2. IsTokens(WithToken(list, x)) /\ NewToken(list) \in DOMAIN WithToken(list, x)
  BY NewTokens DEF Leads
<1>3. DOMAIN list \subseteq DOMAIN WithToken(list, x)
  <2>1. list \in Seq(S \cup {x}) /\ Append(list, x) \in Seq(S \cup {x})
    BY <1>1
  <2>2. DOMAIN list \subseteq DOMAIN Append(list, x)
    BY <2>1
  <2> QED
    BY <2>2 DEF WithToken
<1>4. NewToken(list) \in Nat
  <2>1. PICK T : WithToken(list, x) \in Seq(T)
    BY <1>2 DEF IsTokens
  <2> QED
    BY <1>2, <2>1
<1>5. IsTokens(DropToken(list, n)) /\ DOMAIN DropToken(list, n) = DOMAIN list
  BY Dropped DEF Leads, DropToken
<1> QED
  BY <1>2, <1>3, <1>4, <1>5

LEMMA CursorTypes ==
  ASSUME NEW tokens, IsTokens(tokens), NEW mode, NEW n
  PROVE  /\ IsTokens(SelectTokens(tokens, mode)) /\ DOMAIN tokens \subseteq DOMAIN SelectTokens(tokens, mode)
         /\ IsTokens(SelectedTokens(tokens, mode))
         /\ DOMAIN tokens \cup {NewToken(tokens)} \subseteq DOMAIN SelectedTokens(tokens, mode)
         /\ NewToken(tokens) \in Nat
         /\ IsTokens(ClosedTokens(tokens, n)) /\ DOMAIN ClosedTokens(tokens, n) = DOMAIN tokens
<1> DEFINE one == WithToken(tokens, DbCursor(0, mode))
           two == SelectTokens(tokens, mode)
           m == NewToken(tokens)
<1>1. IsTokens(one) /\ DOMAIN tokens \subseteq DOMAIN one /\ m \in DOMAIN one /\ m \in Nat
  BY TokenTypes
<1>2. IsTokens(two) /\ DOMAIN one \subseteq DOMAIN two
  <2> HIDE DEF one
  <2> QED
    BY <1>1, TokenTypes DEF SelectTokens, one
<1> HIDE DEF one, two, m
<1>3. IsTokens(SelectedTokens(tokens, mode)) /\ DOMAIN SelectedTokens(tokens, mode) = DOMAIN two
  <2>1. m \in DOMAIN two
    BY <1>1, <1>2
  <2>2. SelectedTokens(tokens, mode) = [two EXCEPT ![m] = DbCursor(NewToken(one), mode)]
    BY DEF SelectedTokens, one, two, m
  <2>3. Leads(two, [two EXCEPT ![m] = DbCursor(NewToken(one), mode)], m, DbCursor(NewToken(one), mode))
    BY <1>2, <2>1, Changed
  <2> QED
    BY <2>2, <2>3 DEF Leads
<1>4. IsTokens(ClosedTokens(tokens, n)) /\ DOMAIN ClosedTokens(tokens, n) = DOMAIN tokens
  <2> DEFINE less == DropToken(tokens, FindToken(tokens, n).own)
  <2>1. IsTokens(less) /\ DOMAIN less = DOMAIN tokens
    BY TokenTypes
  <2>2. ClosedTokens(tokens, n) = DropToken(less, n)
    BY DEF ClosedTokens
  <2> HIDE DEF less
  <2> QED
    BY <2>1, <2>2, TokenTypes
<1> QED
  BY <1>1, <1>2, <1>3, <1>4 DEF two, m

-----------------------------------------------------------------------------
(* What changes together.                                                   *)
ProgramTyped ==
    /\ client.at \in {"idle", "start", "procnum", "result", "wait", "gone", "killed"}
    /\ client.d \in 0 .. MaxDrivers /\ client.call \in Calls \cup {NoCall}
    /\ handle \in [Drivers -> {"none", "open", "lost", "closed"}]
    /\ session \subseteq Drivers /\ failed \subseteq Drivers
    /\ \A d \in Drivers : cursors[d] \subseteq Cursor
FilesTyped ==
    /\ file \in [Tables -> File]
    /\ orphaned \in [Drivers -> SUBSET Tables]
    /\ pending \in [Drivers -> [Tables -> SUBSET Rows]]
RepliesTyped == \A d \in Drivers : rep[d] \in Seq(ReplyMessages)

LEMMA TypesOf ==
  TypeOK <=> /\ ProgramTyped /\ FilesTyped /\ heirs \in [Drivers -> SUBSET Drivers]
             /\ drv \in [Drivers -> Running \cup {"none", "ended", "killed"}]
             /\ \A d \in Drivers :
                  /\ inner[d].managed \subseteq DOMAIN inner[d].tokens
                  /\ TablesTyped(inner[d].tables)
BY DEF TypeOK, ProgramTyped, FilesTyped, TablesTyped

(* A step of a driver, that may answer.                                     *)
LEMMA DriverTypes ==
  ASSUME TypeInv, CursorsInv', NEW e \in Drivers, NEW next \in Running \cup {"ended", "killed"},
         NEW state, Becomes(e, next, state), next \in Running => DriverTyped(next, state),
         UNCHANGED <<client, handle, session, cursors, failed, heirs>>, FilesTyped', RepliesTyped'
  PROVE  TypeInv'
<1>1. /\ drv' = [drv EXCEPT ![e] = next]
      /\ inner' = [inner EXCEPT ![e] = IF next \in Running THEN state ELSE FreshDriver]
  BY DEF Becomes
<1>2. DOMAIN inner = Drivers /\ drv \in [Drivers -> Running \cup {"none", "ended", "killed"}]
  BY TypesOf DEF TypeInv, CursorsInv, FilesInv, Shapes
<1>3. drv' \in [Drivers -> Running \cup {"none", "ended", "killed"}]
  BY <1>1, <1>2
<1>4. ASSUME NEW d \in Drivers PROVE DriverTyped(drv'[d], inner'[d])
  <2>1. CASE d # e
    <3>1. drv'[d] = drv[d] /\ inner'[d] = inner[d]
      BY <1>1, <1>2, <2>1
    <3> QED
      BY <3>1 DEF TypeInv
  <2>2. CASE d = e /\ next \in Running
    <3>1. drv'[d] = next /\ inner'[d] = state
      BY <1>1, <1>2, <2>2
    <3> QED
      BY <2>2, <3>1
  <2>3. CASE d = e /\ next \notin Running
    <3>1. drv'[d] = next /\ inner'[d] = FreshDriver /\ next # "saves"
      BY <1>1, <1>2, <2>3 DEF Running
    <3> QED
      BY <3>1, FreshTyped
  <2> QED
    BY <2>1, <2>2, <2>3
<1>5. ProgramTyped'
  BY TypesOf DEF TypeInv, ProgramTyped
<1>6. TypeOK'
  BY <1>3, <1>4, <1>5, TypesOf DEF TypeInv, DriverTyped, TypeOK, ProgramTyped, FilesTyped, TablesTyped
<1> QED
  BY <1>4, <1>6 DEF TypeInv, RepliesTyped

LEMMA AnswerTypes ==
  ASSUME TypeInv, CursorsInv', NEW e \in Drivers, NEW m \in ReplyMessages,
         NEW next \in Running \cup {"ended"}, NEW state, Answer(e, m, next, state),
         next \in Running => DriverTyped(next, state),
         UNCHANGED <<client, handle, session, cursors, failed, heirs>>, FilesTyped'
  PROVE  TypeInv'
<1>0. DOMAIN rep = Drivers
  BY DEF TypeInv, CursorsInv, FilesInv, SyncInv
<1>1. CASE rep' = [rep EXCEPT ![e] = Append(@, m)] /\ Becomes(e, next, state)
  <2>1. RepliesTyped'
    BY <1>0, <1>1 DEF TypeInv, RepliesTyped
  <2> QED
    BY <1>1, <2>1, DriverTypes
<1>2. CASE UNCHANGED rep /\ Becomes(e, "ended", state)
  <2>1. RepliesTyped' /\ "ended" \notin Running
    BY <1>2 DEF TypeInv, RepliesTyped, Running
  <2> QED
    BY <1>2, <2>1, DriverTypes
<1> QED
  BY <1>1, <1>2 DEF Answer

(* A step of the program.                                                   *)
LEMMA ProgramTypes ==
  ASSUME TypeInv, CursorsInv', ProgramTyped', UNCHANGED <<drv, inner, file, orphaned, pending, heirs>>,
         RepliesTyped'
  PROVE  TypeInv'
<1>1. FilesTyped' /\ drv' \in [Drivers -> Running \cup {"none", "ended", "killed"}]
  BY TypesOf DEF TypeInv, FilesTyped
<1>2. \A d \in Drivers : DriverTyped(drv'[d], inner'[d])
  BY DEF TypeInv
<1>3. TypeOK'
  BY <1>1, <1>2, TypesOf DEF TypeInv, DriverTyped, TypeOK, ProgramTyped, FilesTyped, TablesTyped
<1> QED
  BY <1>2, <1>3 DEF TypeInv, RepliesTyped

(* What can be sent.                                                        *)
LEMMA Sendable ==
  /\ ProcedureOk \in ReplyMessages
  /\ \A ok \in BOOLEAN, t \in Nat : Result(ok, t) \in ReplyMessages
  /\ \A m \in ReplyMessages : m.part = "result" => m.token \in Nat
<1>1. \A ok, t : Result(ok, t).token = t
  BY DEF Result
<1>2. ProcedureOk.part # "result"
  BY DEF ProcedureOk
<1> QED
  BY <1>1, <1>2 DEF ReplyMessages

(* The files are left alone.                                                *)
LEMMA FilesStay ==
  ASSUME TypeInv, UNCHANGED <<file, orphaned, pending>> PROVE FilesTyped'
BY TypesOf DEF TypeInv, FilesTyped

-----------------------------------------------------------------------------
(* The steps of a driver.                                                   *)
LEMMA StateTyped ==
  ASSUME TypeInv, NEW e \in Drivers, drv[e] # "saves", NEW is, is # "saves"
  PROVE  DriverTyped(is, inner[e])
BY DEF TypeInv, DriverTyped

LEMMA PlainTypes ==
  ASSUME TypeInv, CursorsInv', NEW e \in Drivers,
         DriverInit(e) \/ ReceiveProcnum(e) \/ EndOfRequests(e) \/ ServeFetch(e) \/ DriverKilled(e)
  PROVE  TypeInv'
<1>1. /\ UNCHANGED <<client, handle, session, cursors, failed, heirs, file, orphaned, pending>>
      /\ FilesTyped'
  BY FilesStay DEF DriverInit, ReceiveProcnum, EndOfRequests, ServeFetch, Serving, DriverKilled, programVars
<1>2. \A next \in {"listens", "args", "serves"} : next \in Running /\ next # "saves"
  BY DEF Running
<1>3. "ended" \notin Running /\ "killed" \notin Running
  BY DEF Running
<1>4. 0 \in Nat /\ TRUE \in BOOLEAN /\ FALSE \in BOOLEAN
  OBVIOUS
<1>5. CASE DriverInit(e)
  <2>1. drv[e] # "saves"
    BY <1>5 DEF DriverInit
  <2>2. DriverTyped("listens", inner[e])
    BY <2>1, StateTyped
  <2> QED
    BY <1>1, <1>2, <1>3, <1>4, <1>5, <2>2, Sendable, AnswerTypes DEF DriverInit
<1>6. CASE ReceiveProcnum(e)
  <2>1. PICK next \in {"args", "serves"} : drv[e] # "saves" /\ Answer(e, ProcedureOk, next, inner[e])
    BY <1>6 DEF ReceiveProcnum
  <2>2. DriverTyped(next, inner[e])
    BY <2>1, StateTyped
  <2> QED
    BY <1>1, <1>2, <2>1, <2>2, Sendable, AnswerTypes
<1>7. CASE EndOfRequests(e) \/ DriverKilled(e)
  <2>1. PICK next \in {"ended", "killed"} : Becomes(e, next, inner[e])
    BY <1>7 DEF EndOfRequests, DriverKilled
  <2>2. RepliesTyped'
    BY <1>7 DEF EndOfRequests, DriverKilled, TypeInv, RepliesTyped
  <2> QED
    BY <1>1, <1>3, <2>1, <2>2, DriverTypes
<1>8. CASE ServeFetch(e)
  <2>1. drv[e] # "saves"
    BY <1>8 DEF ServeFetch, Serving
  <2>2. \/ \E ok \in BOOLEAN : Answer(e, Result(ok, 0), "listens", inner[e])
        \/ Answer(e, Result(FALSE, 0), "ended", inner[e])
    BY <1>8 DEF ServeFetch, Replies
  <2>3. DriverTyped("listens", inner[e])
    BY <2>1, StateTyped
  <2> QED
    BY <1>1, <1>2, <1>3, <1>4, <2>2, <2>3, Sendable, AnswerTypes
<1> QED
  BY <1>5, <1>6, <1>7, <1>8

LEMMA OpenTypes ==
  ASSUME TypeInv, CursorsInv', NEW e \in Drivers, ServeOpenDatabase(e)
  PROVE  TypeInv'
<1> DEFINE state == [inner[e] EXCEPT !.open = TRUE, !.tables = OpenedTables(file)]
<1>1. /\ drv[e] # "saves" /\ UNCHANGED <<client, handle, session, cursors, failed, heirs, file, pending>>
      /\ \/ Answer(e, Result(FALSE, 0), "listens", inner[e]) /\ UNCHANGED orphaned
         \/ Answer(e, Result(TRUE, 0), "listens", state) /\ orphaned' = [orphaned EXCEPT ![e] = {}]
  BY DEF ServeOpenDatabase, Serving, Replies, programVars
<1>2. DriverTyped("listens", inner[e])
  BY <1>1, StateTyped
<1>3. DriverTyped("listens", state)
  <2>1. TablesTyped(OpenedTables(file)) /\ IsTables(OpenedTables(file))
    BY DEF TablesTyped, IsTables, IsTable, HasFields, OpenedTables, Listed, Table
  <2>2. /\ HasFields(state, {"open", "managed", "tokens", "tables", "todo", "saving"})
        /\ state.tables = OpenedTables(file) /\ state.tokens = inner[e].tokens
        /\ state.managed = inner[e].managed /\ state.saving = inner[e].saving
    BY <1>2 DEF DriverTyped, IsDriver, HasFields
  <2> HIDE DEF state
  <2> QED
    BY <1>2, <2>1, <2>2 DEF DriverTyped, IsDriver
<1>4. FilesTyped'
  BY <1>1, TypesOf DEF TypeInv, FilesTyped
<1>5. /\ Result(FALSE, 0) \in ReplyMessages /\ Result(TRUE, 0) \in ReplyMessages
      /\ "listens" \in Running
  BY Sendable DEF Running
<1> HIDE DEF state
<1> QED
  BY <1>1, <1>2, <1>3, <1>4, <1>5, AnswerTypes

LEMMA SelectTypes ==
  ASSUME TypeInv, CursorsInv', NEW e \in Drivers, ServeOpenSelect(e)
  PROVE  TypeInv'
<1> DEFINE call == Head(req[e]).call
           st == [op |-> "select", table |-> call.table]
           after == [inner[e] EXCEPT !.tables = TablesAfter(@, file, st)]
           token == NewToken(inner[e].tokens)
           yes == [after EXCEPT !.tokens = SelectedTokens(@, call.mode), !.managed = @ \cup {token}]
           no == [after EXCEPT !.tokens = SelectTokens(@, call.mode)]
<1>1. /\ drv[e] # "saves" /\ UNCHANGED <<client, handle, session, cursors, failed, heirs, file, orphaned, pending>>
      /\ \/ Answer(e, Result(TRUE, token), "listens", yes)
         \/ Answer(e, Result(FALSE, 0), "listens", no)
  BY DEF ServeOpenSelect, Serving, Replies, programVars
<1>2. DriverTyped("listens", inner[e])
  BY <1>1, StateTyped
<1>3. st.op \in Ops /\ st.op # "create" /\ st.op # "insert" /\ file \in [Tables -> File]
  BY TypesOf DEF Ops, TypeInv, FilesTyped
<1> HIDE DEF st
<1>4. /\ TablesTyped(TablesAfter(inner[e].tables, file, st)) /\ IsTables(TablesAfter(inner[e].tables, file, st))
  BY <1>2, <1>3, StatementTypes, StatementOnTables DEF DriverTyped, IsDriver
<1>5. /\ HasFields(after, {"open", "managed", "tokens", "tables", "todo", "saving"})
      /\ after.tables = TablesAfter(inner[e].tables, file, st) /\ after.tokens = inner[e].tokens
      /\ after.managed = inner[e].managed /\ after.saving = inner[e].saving
  BY <1>2 DEF DriverTyped, IsDriver, HasFields
<1> HIDE DEF after
<1>6. /\ HasFields(yes, {"open", "managed", "tokens", "tables", "todo", "saving"})
      /\ yes.tables = after.tables /\ yes.tokens = SelectedTokens(after.tokens, call.mode)
      /\ yes.managed = after.managed \cup {token} /\ yes.saving = after.saving
      /\ HasFields(no, {"open", "managed", "tokens", "tables", "todo", "saving"})
      /\ no.tables = after.tables /\ no.tokens = SelectTokens(after.tokens, call.mode)
      /\ no.managed = after.managed /\ no.saving = after.saving
  BY <1>5 DEF HasFields
<1> HIDE DEF yes, no
<1>7. DriverTyped("listens", yes) /\ DriverTyped("listens", no) /\ token \in Nat
  BY <1>2, <1>4, <1>5, <1>6, CursorTypes DEF DriverTyped, IsDriver
<1>8. /\ Result(TRUE, token) \in ReplyMessages /\ Result(FALSE, 0) \in ReplyMessages /\ "listens" \in Running
  BY <1>7, Sendable DEF Running
<1>9. FilesTyped'
  BY <1>1, FilesStay
<1> HIDE DEF token
<1> QED
  BY <1>1, <1>7, <1>8, <1>9, AnswerTypes

LEMMA CloseCursorTypes ==
  ASSUME TypeInv, CursorsInv', NEW e \in Drivers, ServeCloseCursor(e)
  PROVE  TypeInv'
<1> DEFINE token == Head(req[e]).call.token
           state == [inner[e] EXCEPT !.tokens = ClosedTokens(@, token), !.managed = @ \ {token}]
<1>1. /\ drv[e] # "saves" /\ UNCHANGED <<client, handle, session, cursors, failed, heirs, file, orphaned, pending>>
      /\ \/ \E ok \in BOOLEAN : Answer(e, Result(ok, 0), "listens", state)
         \/ Becomes(e, "ended", inner[e]) /\ UNCHANGED rep
  BY DEF ServeCloseCursor, Serving, Replies, programVars
<1>2. DriverTyped("listens", inner[e])
  BY <1>1, StateTyped
<1>3. /\ HasFields(state, {"open", "managed", "tokens", "tables", "todo", "saving"})
      /\ state.tables = inner[e].tables /\ state.tokens = ClosedTokens(inner[e].tokens, token)
      /\ state.managed = inner[e].managed \ {token} /\ state.saving = inner[e].saving
  BY <1>2 DEF DriverTyped, IsDriver, HasFields
<1> HIDE DEF state, token
<1>4. DriverTyped("listens", state)
  BY <1>2, <1>3, CursorTypes DEF DriverTyped, IsDriver
<1>5. FilesTyped'
  BY <1>1, FilesStay
<1>6. "listens" \in Running /\ "ended" \notin Running /\ 0 \in Nat
  BY DEF Running
<1>7. CASE \E ok \in BOOLEAN : Answer(e, Result(ok, 0), "listens", state)
  BY <1>1, <1>4, <1>5, <1>6, <1>7, Sendable, AnswerTypes
<1>8. CASE Becomes(e, "ended", inner[e]) /\ UNCHANGED rep
  <2>1. RepliesTyped'
    BY <1>8 DEF TypeInv, RepliesTyped
  <2> QED
    BY <1>1, <1>5, <1>6, <1>8, <2>1, DriverTypes
<1> QED
  BY <1>1, <1>7, <1>8

LEMMA ExecuteTypes ==
  ASSUME TypeInv, CursorsInv', NEW e \in Drivers, ServeExecute(e)
  PROVE  TypeInv'
<1> DEFINE st == Head(req[e]).call.statement
           ok == Succeeds(inner[e].tables, file, st)
           state == [inner[e] EXCEPT !.tables = TablesAfter(@, file, st)]
<1>1. /\ drv[e] = "args" /\ req[e] # <<>> /\ Head(req[e]).call.proc = "execute_immediate"
      /\ UNCHANGED <<client, handle, session, cursors, failed, heirs>>
      /\ Answer(e, Result(ok, 0), "listens", state)
      /\ file' = FilesAfter(inner[e].tables, file, st)
      /\ pending' = IF ok THEN PendingAfter(e, st) ELSE pending
      /\ orphaned' = IF ok THEN OrphanedAfter(st) ELSE orphaned
  BY DEF ServeExecute, Serving, Replies, programVars
<1>2. DriverTyped("listens", inner[e])
  BY <1>1, StateTyped
<1>3. st \in Statements
  BY <1>1, Served DEF Fits, TypeInv, CursorsInv
<1>4. st.op \in Ops /\ st.table \in Tables /\ (st.op = "insert" => st.row \in Rows)
  BY <1>3 DEF Statements, Ops
<1>5. FilesTyped
  BY TypesOf DEF TypeInv
<1>6. ok \in BOOLEAN
  <2> DEFINE heads == HeadLoads(inner[e].tables, file, st.table)
             rows == RowsLoad(inner[e].tables, file, st.table)
             known == Known(inner[e].tables, st.table)
  <2>1. heads \in BOOLEAN /\ (heads /\ rows) \in BOOLEAN /\ (~known) \in BOOLEAN /\ known \in BOOLEAN
    BY DEF HeadLoads, RowsLoad, Known
  <2>2. ok = CASE st.op = "create" -> ~known
               [] st.op = "describe" -> known
               [] st.op \in {"drop", "insert"} -> heads
               [] OTHER -> heads /\ rows
    BY DEF Succeeds
  <2> HIDE DEF heads, rows, known, ok, st
  <2> QED
    BY <2>1, <2>2
<1> HIDE DEF st, ok
<1>7. TablesTyped(TablesAfter(inner[e].tables, file, st)) /\ IsTables(TablesAfter(inner[e].tables, file, st))
  BY <1>2, <1>4, <1>5, StatementTypes, StatementOnTables DEF DriverTyped, IsDriver, FilesTyped
<1>8. DriverTyped("listens", state)
  <2>1. /\ HasFields(state, {"open", "managed", "tokens", "tables", "todo", "saving"})
        /\ state.tables = TablesAfter(inner[e].tables, file, st) /\ state.tokens = inner[e].tokens
        /\ state.managed = inner[e].managed /\ state.saving = inner[e].saving
    BY <1>2 DEF DriverTyped, IsDriver, HasFields
  <2> HIDE DEF state
  <2> QED
    BY <1>2, <1>7, <2>1 DEF DriverTyped, IsDriver
<1>9. FilesTyped'
  <2>1. file' \in [Tables -> File]
    BY <1>1, <1>5 DEF FilesAfter, FilesTyped, File
  <2>2. orphaned' \in [Drivers -> SUBSET Tables]
    BY <1>1, <1>4, <1>5 DEF OrphanedAfter, FilesTyped
  <2>3. PendingAfter(e, st) \in [Drivers -> [Tables -> SUBSET Rows]]
    <3>0. pending \in [Drivers -> [Tables -> SUBSET Rows]]
      BY <1>5 DEF FilesTyped
    <3>1. CASE st.op = "insert" /\ st.table \notin orphaned[e]
      BY <1>4, <3>0, <3>1 DEF PendingAfter
    <3>2. CASE st.op = "delete"
      BY <1>4, <3>0, <3>2 DEF PendingAfter
    <3>3. CASE st.op = "drop"
      BY <1>4, <3>0, <3>3 DEF PendingAfter
    <3>4. CASE ~(st.op = "insert" /\ st.table \notin orphaned[e]) /\ st.op \notin {"delete", "drop"}
      BY <3>0, <3>4 DEF PendingAfter
    <3> QED
      BY <3>1, <3>2, <3>3, <3>4
  <2> QED
    BY <1>1, <1>5, <2>1, <2>2, <2>3 DEF FilesTyped
<1>10. Result(ok, 0) \in ReplyMessages /\ "listens" \in Running
  BY <1>6, Sendable DEF Running
<1> HIDE DEF state
<1> QED
  BY <1>1, <1>8, <1>9, <1>10, AnswerTypes

LEMMA CloseTypes ==
  ASSUME TypeInv, CursorsInv', NEW e \in Drivers, ServeCloseDatabase(e)
  PROVE  TypeInv'
<1> DEFINE state == [inner[e] EXCEPT !.tokens = AllClosed(inner[e]), !.managed = {},
                                     !.todo = ToSave(inner[e].tables)]
<1>1. /\ drv[e] # "saves" /\ UNCHANGED <<client, handle, session, cursors, failed, heirs, file, orphaned, pending>>
      /\ \/ Becomes(e, "saves", state) /\ UNCHANGED rep
         \/ Answer(e, Result(FALSE, 0), "listens", inner[e])
  BY DEF ServeCloseDatabase, Replies, programVars
<1>2. DriverTyped("listens", inner[e])
  BY <1>1, StateTyped
<1>3. /\ HasFields(state, {"open", "managed", "tokens", "tables", "todo", "saving"})
      /\ state.tables = inner[e].tables /\ state.tokens = AllClosed(inner[e])
      /\ state.managed = {} /\ state.saving = inner[e].saving /\ state.todo = ToSave(inner[e].tables)
  BY <1>2 DEF DriverTyped, IsDriver, HasFields
<1> HIDE DEF state
<1>4. IsTokens(AllClosed(inner[e]))
  <2>1. PICK S : inner[e].tokens \in Seq(S)
    BY <1>2 DEF DriverTyped, IsTokens
  <2> DEFINE own == {FindToken(inner[e].tokens, n).own : n \in inner[e].managed}
  <2>2. AllClosed(inner[e]) = [n \in DOMAIN inner[e].tokens |-> IF n \in own THEN NoAddress ELSE inner[e].tokens[n]]
    BY DEF AllClosed
  <2> HIDE DEF own
  <2>3. AllClosed(inner[e]) \in Seq(S \cup {NoAddress})
    BY <2>1, <2>2
  <2> QED
    BY <2>3 DEF IsTokens
<1>5. DriverTyped("saves", state)
  BY <1>2, <1>3, <1>4 DEF DriverTyped, IsDriver, ToSave
<1>6. FilesTyped' /\ "saves" \in Running /\ "listens" \in Running /\ Result(FALSE, 0) \in ReplyMessages
  BY <1>1, FilesStay, Sendable DEF Running
<1>7. CASE Becomes(e, "saves", state) /\ UNCHANGED rep
  <2>1. RepliesTyped'
    BY <1>7 DEF TypeInv, RepliesTyped
  <2> QED
    BY <1>1, <1>5, <1>6, <1>7, <2>1, DriverTypes
<1> QED
  BY <1>1, <1>2, <1>6, <1>7, AnswerTypes

(* While it saves, it works off its tables.                                 *)
LEMMA SavingTypes ==
  ASSUME TypeInv, CursorsInv', NEW e \in Drivers, drv[e] = "saves",
         NEW todo \in SUBSET inner[e].todo, NEW saving,
         saving = NotSaving \/ saving.table \in inner[e].todo,
         Becomes(e, "saves", [inner[e] EXCEPT !.todo = todo, !.saving = saving]),
         UNCHANGED <<client, handle, session, cursors, failed, heirs, rep, orphaned>>,
         file' \in [Tables -> File], pending' \in [Drivers -> [Tables -> SUBSET Rows]]
  PROVE  TypeInv'
<1> DEFINE state == [inner[e] EXCEPT !.todo = todo, !.saving = saving]
<1>1. DriverTyped("saves", inner[e])
  BY DEF TypeInv
<1>2. /\ HasFields(state, {"open", "managed", "tokens", "tables", "todo", "saving"})
      /\ state.tables = inner[e].tables /\ state.tokens = inner[e].tokens
      /\ state.managed = inner[e].managed /\ state.saving = saving /\ state.todo = todo
  BY <1>1 DEF DriverTyped, IsDriver, HasFields
<1>3. Becomes(e, "saves", state)
  OBVIOUS
<1> HIDE DEF state
<1>4. DriverTyped("saves", state) /\ "saves" \in Running
  BY <1>1, <1>2 DEF DriverTyped, IsDriver, Running
<1>5. FilesTyped' /\ RepliesTyped'
  BY TypesOf DEF TypeInv, FilesTyped, RepliesTyped
<1> QED
  BY <1>3, <1>4, <1>5, DriverTypes

LEMMA SaveTypes ==
  ASSUME TypeInv, CursorsInv', NEW e \in Drivers, SaveWrites(e) \/ SaveRenames(e)
  PROVE  TypeInv'
<1> DEFINE kept(t) == inner[e].todo \ {t}
<1>1. /\ drv[e] = "saves" /\ UNCHANGED <<client, handle, session, cursors, failed, heirs, rep, orphaned>>
  BY DEF SaveWrites, SaveRenames, programVars
<1>2. /\ file \in [Tables -> File] /\ pending \in [Drivers -> [Tables -> SUBSET Rows]]
      /\ DriverTyped("saves", inner[e])
  BY <1>1, TypesOf DEF TypeInv, FilesTyped
<1>3. ASSUME NEW t \in DOMAIN inner[e].tables
      PROVE  t \in Tables /\ inner[e].tables[t].rows \subseteq Rows
  BY <1>2 DEF DriverTyped, TablesTyped, Table
<1>4. ASSUME NEW t, PassedOver(e, t) PROVE TypeInv'
  <2>1. /\ Becomes(e, "saves", [inner[e] EXCEPT !.todo = kept(t), !.saving = NotSaving])
        /\ file' = file /\ pending' = [pending EXCEPT ![e][t] = {}]
    BY <1>4 DEF PassedOver
  <2>2. pending' \in [Drivers -> [Tables -> SUBSET Rows]]
    BY <1>2, <2>1
  <2>3. kept(t) \in SUBSET inner[e].todo
    OBVIOUS
  <2> HIDE DEF kept
  <2> QED
    BY <1>1, <1>2, <2>1, <2>2, <2>3, SavingTypes
<1>5. CASE SaveWrites(e)
  <2>1. PICK t \in inner[e].todo :
             \/ /\ Becomes(e, "saves", [inner[e] EXCEPT !.saving = [is |-> "temp", table |-> t]])
                /\ file' = file /\ pending' = pending
             \/ PassedOver(e, t)
    BY <1>5 DEF SaveWrites, FilesDuringSave
  <2>2. CASE /\ Becomes(e, "saves", [inner[e] EXCEPT !.saving = [is |-> "temp", table |-> t]])
             /\ file' = file /\ pending' = pending
    <3> DEFINE saving == [is |-> "temp", table |-> t]
    <3>1. saving.table \in inner[e].todo
      OBVIOUS
    <3>2. [inner[e] EXCEPT !.saving = saving] = [inner[e] EXCEPT !.todo = inner[e].todo, !.saving = saving]
      BY <1>2 DEF DriverTyped, IsDriver, HasFields
    <3>3. Becomes(e, "saves", [inner[e] EXCEPT !.todo = inner[e].todo, !.saving = saving])
      BY <2>2, <3>2
    <3> HIDE DEF saving
    <3> QED
      BY <1>1, <1>2, <2>2, <3>1, <3>3, SavingTypes
  <2> QED
    BY <1>4, <2>1, <2>2
<1>6. CASE SaveRenames(e)
  <2> DEFINE t == inner[e].saving.table
  <2>1. \/ /\ Becomes(e, "saves", [inner[e] EXCEPT !.todo = kept(t), !.saving = NotSaving])
           /\ file' = [file EXCEPT ![t] = Whole(inner[e].tables[t].rows)]
           /\ pending' = [pending EXCEPT ![e][t] = @ \ file'[t].rows]
        \/ PassedOver(e, t)
    BY <1>6 DEF SaveRenames, FilesSaved
  <2>2. t \in DOMAIN inner[e].tables
    BY <1>2, <1>6 DEF SaveRenames, DriverTyped
  <2> HIDE DEF t
  <2>3. CASE /\ Becomes(e, "saves", [inner[e] EXCEPT !.todo = kept(t), !.saving = NotSaving])
             /\ file' = [file EXCEPT ![t] = Whole(inner[e].tables[t].rows)]
             /\ pending' = [pending EXCEPT ![e][t] = @ \ file'[t].rows]
    <3>1. Whole(inner[e].tables[t].rows) \in File
      BY <1>3, <2>2 DEF Whole, File
    <3>2. file' \in [Tables -> File]
      BY <1>2, <2>3, <3>1
    <3>3. pending' \in [Drivers -> [Tables -> SUBSET Rows]]
      BY <1>2, <2>3
    <3>4. kept(t) \in SUBSET inner[e].todo
      OBVIOUS
    <3> HIDE DEF kept
    <3> QED
      BY <1>1, <2>3, <3>2, <3>3, <3>4, SavingTypes
  <2> QED
    BY <1>4, <2>1, <2>3
<1> QED
  BY <1>5, <1>6

LEMMA SavedTypes ==
  ASSUME TypeInv, CursorsInv', NEW e \in Drivers, CloseReplies(e)
  PROVE  TypeInv'
<1> DEFINE state == [FreshDriver EXCEPT !.tokens = inner[e].tokens]
<1>1. /\ UNCHANGED <<client, handle, session, cursors, failed, heirs, file, orphaned, pending>>
      /\ Answer(e, Result(TRUE, 0), "listens", state)
  BY DEF CloseReplies, Replies, programVars
<1>2. IsTokens(inner[e].tokens) /\ DriverTyped("listens", FreshDriver)
  <2>1. "listens" # "saves"
    OBVIOUS
  <2>2. DriverTyped("listens", FreshDriver)
    BY <2>1, FreshTyped
  <2> QED
    BY <2>2 DEF TypeInv, DriverTyped
<1>3. /\ HasFields(state, {"open", "managed", "tokens", "tables", "todo", "saving"})
      /\ state.tables = FreshDriver.tables /\ state.tokens = inner[e].tokens
      /\ state.managed = {} /\ state.saving = FreshDriver.saving
  BY <1>2 DEF HasFields, FreshDriver
<1> HIDE DEF state
<1>4. DriverTyped("listens", state)
  BY <1>2, <1>3 DEF DriverTyped, IsDriver
<1>5. FilesTyped' /\ "listens" \in Running /\ Result(TRUE, 0) \in ReplyMessages
  BY <1>1, FilesStay, Sendable DEF Running
<1> QED
  BY <1>1, <1>4, <1>5, AnswerTypes

-----------------------------------------------------------------------------
(* The steps of the program.                                                *)
LEMMA SendTypes ==
  ASSUME ProgramTyped, NEW d \in Drivers, NEW m, NEW at \in {"procnum", "result"},
         NEW call \in Calls \cup {NoCall}, Send(d, m, at, call)
  PROVE  ProgramTyped'
<1>1. d \in 0 .. MaxDrivers /\ 0 \in 0 .. MaxDrivers
  BY DbDriverAssumption DEF Drivers
<1>2. CASE Program(at, d, call) /\ UNCHANGED <<handle, session, cursors, failed>>
  BY <1>1, <1>2 DEF Program, ProgramTyped
<1>3. CASE Program("killed", 0, NoCall) /\ EndsHandles /\ ForgetsAll
  BY <1>1, <1>3 DEF Program, EndsHandles, ForgetsAll, ProgramTyped
<1> QED
  BY <1>2, <1>3 DEF Send

(* A program that ends or has nothing to do.                                *)
LEMMA EndTypes ==
  ASSUME TypeInv, CursorsInv', Exit \/ ProgramKilled
  PROVE  TypeInv'
<1>1. ProgramTyped /\ 0 \in 0 .. MaxDrivers
  BY TypesOf, DbDriverAssumption DEF TypeInv
<1>2. ProgramTyped'
  BY <1>1 DEF Exit, ProgramKilled, Program, EndsHandles, ForgetsAll, ProgramTyped
<1>3. RepliesTyped' /\ UNCHANGED <<drv, inner, file, orphaned, pending, heirs>>
  BY DEF Exit, ProgramKilled, driverVars, TypeInv, RepliesTyped
<1> QED
  BY <1>2, <1>3, ProgramTypes

(* The replies after one was read.                                          *)
LEMMA ReadTypes ==
  ASSUME TypeInv, NEW d \in Drivers
  PROVE  /\ UNCHANGED rep => RepliesTyped'
         /\ rep[d] # <<>> => /\ Head(rep[d]) \in ReplyMessages
                             /\ rep' = [rep EXCEPT ![d] = Tail(@)] => RepliesTyped'
<1>1. DOMAIN rep = Drivers /\ \A e \in Drivers : rep[e] \in Seq(ReplyMessages)
  BY DEF TypeInv, CursorsInv, FilesInv, SyncInv
<1>2. rep[d] # <<>> => Head(rep[d]) \in ReplyMessages /\ Tail(rep[d]) \in Seq(ReplyMessages)
  BY <1>1
<1> QED
  BY <1>1, <1>2 DEF RepliesTyped

LEMMA StartTypes ==
  ASSUME TypeInv, CursorsInv', NEW d \in Drivers, StartDriver(d)
  PROVE  TypeInv'
<1>1. /\ drv[d] = "none" /\ drv' = [drv EXCEPT ![d] = "init"] /\ heirs' = Inherited(d)
      /\ handle' = [handle EXCEPT ![d] = "open"] /\ client' = [at |-> "start", d |-> d, call |-> NoCall]
      /\ UNCHANGED <<session, cursors, failed, rep, inner, file, orphaned, pending>>
  BY DEF StartDriver, Program
<1>2. ProgramTyped /\ heirs \in [Drivers -> SUBSET Drivers] /\ d \in 0 .. MaxDrivers
      /\ drv \in [Drivers -> Running \cup {"none", "ended", "killed"}]
  BY TypesOf, DbDriverAssumption DEF TypeInv, Drivers
<1>3. ProgramTyped'
  BY <1>1, <1>2 DEF ProgramTyped
<1>4. heirs' \in [Drivers -> SUBSET Drivers] /\ drv' \in [Drivers -> Running \cup {"none", "ended", "killed"}]
  BY <1>1, <1>2 DEF Inherited, Running
<1>5. FilesTyped' /\ RepliesTyped'
  BY <1>1, FilesStay, ReadTypes
<1>6. ASSUME NEW e \in Drivers PROVE DriverTyped(drv'[e], inner'[e])
  <2>1. DriverTyped(drv[e], inner[e]) /\ inner'[e] = inner[e]
    BY <1>1 DEF TypeInv
  <2>2. CASE e = d
    BY <1>1, <1>2, <2>1, <2>2 DEF DriverTyped
  <2>3. CASE e # d
    BY <1>1, <1>2, <2>1, <2>3
  <2> QED
    BY <2>2, <2>3
<1>7. TypeOK'
  BY <1>3, <1>4, <1>5, <1>6, TypesOf DEF DriverTyped, TypeOK, ProgramTyped, FilesTyped, TablesTyped
<1> QED
  BY <1>5, <1>6, <1>7 DEF TypeInv, RepliesTyped

LEMMA OtherTypes ==
  ASSUME TypeInv, CursorsInv', NEW d \in Drivers, Started(d) \/ Shutdown(d) \/ WaitReturns(d)
  PROVE  TypeInv'
<1>1. ProgramTyped /\ d \in 0 .. MaxDrivers /\ 0 \in 0 .. MaxDrivers
  BY TypesOf, DbDriverAssumption DEF TypeInv, Drivers
<1>2. UNCHANGED <<drv, inner, file, orphaned, pending, heirs>>
  BY DEF Started, Shutdown, WaitReturns, driverVars
<1>3. RepliesTyped'
  BY ReadTypes DEF Started, Shutdown, WaitReturns
<1>4. ProgramTyped'
  <2>1. CASE Started(d)
    <3>1. /\ client' = [at |-> "idle", d |-> 0, call |-> NoCall] /\ UNCHANGED <<session, cursors, failed>>
          /\ UNCHANGED handle \/ handle' = [handle EXCEPT ![d] = "lost"]
      BY <2>1 DEF Started, Idle, Program
    <3> QED
      BY <1>1, <3>1 DEF ProgramTyped
  <2>2. CASE Shutdown(d)
    <3>1. /\ client' = [at |-> "wait", d |-> d, call |-> NoCall] /\ session' = session \ {d}
          /\ cursors' = [cursors EXCEPT ![d] = {}] /\ failed' = failed \ {d}
          /\ handle' = [handle EXCEPT ![d] = "closed"]
      BY <2>2 DEF Shutdown, Program
    <3>2. DOMAIN cursors = Drivers
      BY DEF TypeInv, CursorsInv
    <3> QED
      BY <1>1, <3>1, <3>2 DEF ProgramTyped
  <2>3. CASE WaitReturns(d)
    BY <1>1, <2>3 DEF WaitReturns, Idle, Program, ProgramTyped
  <2> QED
    BY <2>1, <2>2, <2>3
<1> QED
  BY <1>2, <1>3, <1>4, ProgramTypes

LEMMA CallTypes ==
  ASSUME TypeInv, CursorsInv', NEW d \in Drivers, NEW call \in CallsTo(d), Call(d, call)
  PROVE  TypeInv'
<1>1. ProgramTyped
  BY TypesOf DEF TypeInv
<1>2. call \in Calls
  <2>1. CASE call \in {OpenDatabase, CloseDatabase} \cup {OpenSelect(t, m) : t \in Tables, m \in Modes}
                      \cup {Execute(st) : st \in Statements}
    BY <2>1 DEF Calls
  <2>2. ASSUME NEW c \in cursors[d], NEW p \in Positions
        PROVE  Fetch(c, p) \in Calls /\ CloseCursor(c) \in Calls
    <3>1. c.token \in Nat
      BY <1>1 DEF ProgramTyped, Cursor
    <3>2. Fetch(c, p) \in [proc : {"fetch"}, token : Nat, position : Positions]
      BY <3>1 DEF Fetch
    <3>3. CloseCursor(c) \in [proc : {"close_cursor"}, token : Nat]
      BY <3>1 DEF CloseCursor
    <3> QED
      BY <3>2, <3>3 DEF Calls
  <2>3. \/ call \in {OpenDatabase, CloseDatabase} \cup {OpenSelect(t, m) : t \in Tables, m \in Modes}
                    \cup {Execute(st) : st \in Statements}
        \/ \E c \in cursors[d], p \in Positions : call = Fetch(c, p)
        \/ \E c \in cursors[d] : call = CloseCursor(c)
    BY DEF CallsTo
  <2>4. "next" \in Positions
    BY DEF Positions
  <2> QED
    BY <2>1, <2>2, <2>3, <2>4
<1>3. ProgramTyped'
  BY <1>1, <1>2, SendTypes DEF Call
<1>4. RepliesTyped' /\ UNCHANGED <<drv, inner, file, orphaned, pending, heirs>>
  BY ReadTypes DEF Call, driverVars
<1> QED
  BY <1>3, <1>4, ProgramTypes

(* A program with nothing to do, after a call to d.                         *)
LEMMA IdleTypes ==
  ASSUME ProgramTyped, NEW d \in Drivers, Idle, UNCHANGED handle, session' \subseteq session \cup {d},
         failed' \subseteq failed \cup {d}, \A e \in Drivers : cursors'[e] \subseteq Cursor
  PROVE  ProgramTyped'
<1>1. 0 \in 0 .. MaxDrivers
  BY DbDriverAssumption
<1> QED
  BY <1>1 DEF ProgramTyped, Idle, Program

LEMMA ProcedureTypes ==
  ASSUME TypeInv, CursorsInv', NEW d \in Drivers, ProcedureStarts(d)
  PROVE  TypeInv'
<1>1. ProgramTyped /\ d \in 0 .. MaxDrivers
  BY TypesOf, DbDriverAssumption DEF TypeInv, Drivers
<1>2. RepliesTyped' /\ UNCHANGED <<drv, inner, file, orphaned, pending, heirs>>
  BY ReadTypes DEF ProcedureStarts, driverVars
<1>3. ProgramTyped'
  <2>1. CASE Send(d, Args(client.call), "result", client.call)
    <3>1. client.call \in Calls \cup {NoCall}
      BY <1>1 DEF ProgramTyped
    <3> QED
      BY <1>1, <2>1, <3>1, SendTypes
  <2>2. CASE Program("result", d, client.call) /\ UNCHANGED <<req, handle, session, cursors, failed>>
    BY <1>1, <2>2 DEF Program, ProgramTyped
  <2>3. CASE CallFails(d)
    BY <1>1, <2>3, IdleTypes DEF CallFails, ProgramTyped
  <2> QED
    BY <2>1, <2>2, <2>3 DEF ProcedureStarts
<1> QED
  BY <1>2, <1>3, ProgramTypes

(* A cursor that a driver has opened has the token of its reply.            *)
LEMMA ReturnTypes ==
  ASSUME TypeInv, CursorsInv', NEW d \in Drivers, CallReturns(d)
  PROVE  TypeInv'
<1>1. ProgramTyped /\ DOMAIN cursors = Drivers
  BY TypesOf DEF TypeInv, CursorsInv
<1>2. RepliesTyped' /\ UNCHANGED <<drv, inner, file, orphaned, pending, heirs>>
  BY ReadTypes DEF CallReturns, driverVars
<1>3. CASE CallFails(d)
  <2>1. ProgramTyped'
    BY <1>1, <1>3, IdleTypes DEF CallFails, ProgramTyped
  <2> QED
    BY <1>2, <2>1, ProgramTypes
<1>4. CASE /\ rep[d] # <<>> /\ Head(rep[d]).part = "result" /\ Idle /\ UNCHANGED handle
           /\ cursors' = [cursors EXCEPT ![d] = CursorsAfter(d, client.call, Head(rep[d]).token)]
           /\ session' = SessionAfter(d, client.call) /\ failed' = failed \ {d}
  <2>1. Head(rep[d]).token \in Nat
    BY <1>4, ReadTypes, Sendable
  <2>2. client.call.proc = "open_select_cursor" => client.call.mode \in Modes
    <3>1. client.call \in Calls \cup {NoCall}
      BY <1>1 DEF ProgramTyped
    <3> QED
      BY <3>1 DEF Calls, NoCall, OpenDatabase, CloseDatabase, OpenSelect, Execute
  <2>3. CursorsAfter(d, client.call, Head(rep[d]).token) \subseteq Cursor
    <3> DEFINE token == Head(rep[d]).token
               call == client.call
    <3>0. cursors[d] \subseteq Cursor
      BY <1>1 DEF ProgramTyped
    <3>1. call.proc = "open_select_cursor" => [token |-> token, mode |-> call.mode] \in Cursor
      BY <2>1, <2>2 DEF Cursor
    <3> HIDE DEF token, call
    <3> QED
      BY <3>0, <3>1 DEF CursorsAfter, token, call
  <2>4. session' \subseteq session \cup {d}
    BY <1>4 DEF SessionAfter
  <2>5. ProgramTyped'
    BY <1>1, <1>4, <2>3, <2>4, IdleTypes DEF ProgramTyped
  <2> QED
    BY <1>2, <2>5, ProgramTypes
<1> QED
  BY <1>3, <1>4 DEF CallReturns

-----------------------------------------------------------------------------
(* At first every variable has its type.                                    *)
LEMMA TypeInit == Init => TypeInv
<1> SUFFICES ASSUME Init PROVE TypeInv
  OBVIOUS
<1>1. CursorsInv
  BY CursorsInit
<1>2. ProgramTyped
  <2>1. 0 \in 0 .. MaxDrivers
    BY DbDriverAssumption
  <2> QED
    BY <2>1 DEF Init, ProgramTyped
<1>3. FilesTyped
  BY DEF Init, FilesTyped, File, Whole
<1>4. heirs \in [Drivers -> SUBSET Drivers] /\ drv \in [Drivers -> Running \cup {"none", "ended", "killed"}]
  BY DEF Init
<1>5. ASSUME NEW d \in Drivers PROVE DriverTyped(drv[d], inner[d]) /\ rep[d] \in Seq(ReplyMessages)
  <2>1. drv[d] = "none" /\ inner[d] = FreshDriver /\ rep[d] = <<>>
    BY DEF Init
  <2>2. "none" # "saves"
    OBVIOUS
  <2>3. DriverTyped("none", FreshDriver)
    BY <2>2, FreshTyped
  <2> QED
    BY <2>1, <2>3
<1>6. TypeOK
  BY <1>2, <1>3, <1>4, <1>5, TypesOf DEF DriverTyped
<1> QED
  BY <1>1, <1>5, <1>6 DEF TypeInv

(* Every step keeps it.                                                     *)
LEMMA TypeNext ==
  ASSUME TypeInv, [Next]_vars PROVE TypeInv'
<1>0. CursorsInv'
  BY CursorsNext DEF TypeInv
<1>1. CASE UNCHANGED vars
  <2>1. UNCHANGED <<client, handle, session, cursors, failed, drv, heirs, rep, inner, file, orphaned, pending>>
    BY <1>1 DEF vars, programVars, driverVars
  <2>2. ProgramTyped' /\ RepliesTyped'
    BY <2>1, TypesOf DEF TypeInv, ProgramTyped, RepliesTyped
  <2> QED
    BY <1>0, <2>1, <2>2, ProgramTypes
<1>2. ASSUME NEW e \in Drivers, ProgramGoesOn(e) PROVE TypeInv'
  BY <1>0, <1>2, OtherTypes, ProcedureTypes, ReturnTypes DEF ProgramGoesOn
<1>3. ASSUME NEW e \in Drivers, DriverGoesOn(e) PROVE TypeInv'
  <2>1. CASE Serve(e)
    BY <1>0, <2>1, OpenTypes, SelectTypes, CloseCursorTypes, ExecuteTypes, CloseTypes, PlainTypes DEF Serve
  <2>2. CASE Save(e)
    BY <1>0, <2>2, SaveTypes, SavedTypes DEF Save
  <2> QED
    BY <1>0, <1>3, <2>1, <2>2, PlainTypes DEF DriverGoesOn
<1>4. ASSUME NEW e \in Drivers, ProgramChooses(e) PROVE TypeInv'
  BY <1>0, <1>4, StartTypes, CallTypes, OtherTypes DEF ProgramChooses
<1>5. ASSUME NEW e \in Drivers, DriverKilled(e) PROVE TypeInv'
  BY <1>0, <1>5, PlainTypes
<1>6. CASE Exit \/ ProgramKilled
  BY <1>0, <1>6, EndTypes
<1> QED
  BY <1>1, <1>2, <1>3, <1>4, <1>5, <1>6 DEF Next

(* Every variable of the program and of its drivers has its type: a call    *)
(* under way is one that the program could make, the tables of a driver     *)
(* (find_table, add_table, load_table) are tables of the database with rows *)
(* of a row's type, the files are absent, whole or in part, and what        *)
(* db_d_open_select_cursor keeps as its dbCursors are tokens of the table   *)
(* that db_new_token gave out.                                              *)
THEOREM DriverTypesOK == Spec => []TypeOK
<1>1. TypeInv => TypeOK
  BY DEF TypeInv
<1>2. TypeInv /\ [Next]_vars => TypeInv'
  BY TypeNext
<1> QED
  BY TypeInit, <1>1, <1>2, PTL DEF Spec
=============================================================================

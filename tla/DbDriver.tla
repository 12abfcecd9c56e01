------------------------------ MODULE DbDriver ------------------------------
(***************************************************************************)
(* A program that works with attribute tables (lib/db/dbmi_client), and    *)
(* the database drivers it starts (lib/db/dbmi_driver with db/drivers/dbf).*)
(* The program and each driver are joined by two pipes, one for requests   *)
(* and one for replies.  A call sends the number of the procedure, reads   *)
(* it back, sends the arguments and reads the result.  A driver ends when  *)
(* it reads the end of its pipe, that is when nobody holds the other end:  *)
(* and a driver started later has inherited the ends of those that the     *)
(* program had open then.                                                  *)
(*                                                                         *)
(* The program makes any calls in any order, but uses only cursors it has  *)
(* opened and not closed, and statements and cursors only while it has a   *)
(* database open.  Drivers are numbered in the order they are started.     *)
(***************************************************************************)
EXTENDS DbTokens, DbfTables, FiniteSets

CONSTANTS MaxDrivers,   \* drivers the program starts
          MaxCalls,     \* calls it makes
          MaxFaults     \* faults: a process killed, a table that cannot be saved

ASSUME DbDriverAssumption == MaxDrivers \in Nat /\ MaxCalls \in Nat /\ MaxFaults \in Nat

Drivers == 1 .. MaxDrivers
Modes == {"sequential", "scroll"}
Positions == {"next", "first"}

VARIABLES client,    \* where the program is: the driver it calls and the call
          handle,    \* what it has of each driver: its dbDriver and pipe ends
          session,   \* the drivers with which it has a database open
          cursors,   \* the cursors it has open, by driver
          failed,    \* the drivers whose last call failed
          calls,     \* calls made
          drv,       \* where each driver is
          heirs,     \* the drivers that inherited the program's ends of a driver
          req, rep,  \* the pipes
          inner,     \* the state of each driver
          file,      \* the files of the database directory
          faults,    \* faults so far
          orphaned,  \* ghost: tables dropped by anyone since the driver opened
          pending    \* ghost: rows it said are inserted that are in no file yet

programVars == <<client, handle, session, cursors, failed, calls>>
driverVars == <<drv, inner, file, orphaned, pending>>
vars == <<programVars, driverVars, heirs, req, rep, faults>>

\* What a cursor of the program is: the token of its dbCursor, and its mode.
Cursor == [token : Nat, mode : Modes]
NoCall == [proc |-> "none"]
OpenDatabase  == [proc |-> "open_database"]
CloseDatabase == [proc |-> "close_database"]
OpenSelect(t, m) == [proc |-> "open_select_cursor", table |-> t, mode |-> m]
Fetch(c, p) == [proc |-> "fetch", token |-> c.token, position |-> p]
CloseCursor(c) == [proc |-> "close_cursor", token |-> c.token]
Execute(st) == [proc |-> "execute_immediate", statement |-> st]
HasArgs(call) == call.proc # "close_database"

\* Messages: the number of a procedure and its arguments, the number again
\* and the result.  A result has the token of the cursor when it opens one.
Procnum(call) == [part |-> "procnum", call |-> call]
Args(call) == [part |-> "args", call |-> call]
ProcedureOk == [part |-> "procnum"]
Result(ok, token) == [part |-> "result", ok |-> ok, token |-> token]

\* The objects behind the tokens: a dbCursor of the driver library, which has
\* the token of the dbf driver's own cursor, and that cursor.
DbCursor(own, mode) == [kind |-> "dbCursor", own |-> own, mode |-> mode]
OwnCursor == [kind |-> "cursor"]

\* A driver: whether a database is open, the dbCursors in its state, the
\* token table, the tables, those still to be saved, and the one being saved.
NotSaving == [is |-> "no"]
FreshDriver == [open |-> FALSE, managed |-> {}, tokens |-> <<>>, tables |-> <<>>,
                todo |-> {}, saving |-> NotSaving]

Running == {"init", "listens", "args", "serves", "saves"}
Alive(d) == drv[d] \in Running
Held(d) == handle[d] \in {"open", "lost"}
\* Somebody holds the other end of the pipes of d.
Joined(d) == Held(d) \/ \E e \in heirs[d] : Alive(e)
Live == client.at \notin {"gone", "killed"}

Init ==
    /\ client = [at |-> "idle", d |-> 0, call |-> NoCall]
    /\ handle = [d \in Drivers |-> "none"]
    /\ session = {} /\ failed = {} /\ calls = 0
    /\ cursors = [d \in Drivers |-> {}]
    /\ drv = [d \in Drivers |-> "none"]
    /\ heirs = [d \in Drivers |-> {}]
    /\ req = [d \in Drivers |-> <<>>] /\ rep = [d \in Drivers |-> <<>>]
    /\ inner = [d \in Drivers |-> FreshDriver]
    /\ file \in [Tables -> {Absent, Whole({})}]
    /\ faults = 0
    /\ orphaned = [d \in Drivers |-> {}]
    /\ pending = [d \in Drivers |-> [t \in Tables |-> {}]]

(***************************************************************************)
(* The program: lib/db/dbmi_client.                                        *)
(***************************************************************************)
Program(at, d, call) == client' = [at |-> at, d |-> d, call |-> call]
Idle == Program("idle", 0, NoCall)
\* The end of a program, in whatever way, closes its pipe ends.
EndsHandles == handle' = [d \in Drivers |-> IF Held(d) THEN "closed" ELSE handle[d]]
ForgetsAll == session' = {} /\ cursors' = [d \in Drivers |-> {}] /\ failed' = {}

\* A write to a driver that has ended kills the program (SIGPIPE).
Send(d, m, at, call) ==
    IF Alive(d)
    THEN /\ req' = [req EXCEPT ![d] = Append(@, m)]
         /\ Program(at, d, call)
         /\ UNCHANGED <<handle, session, cursors, failed>>
    ELSE /\ Program("killed", 0, NoCall) /\ EndsHandles /\ ForgetsAll
         /\ UNCHANGED req

\* A mistake: the child does not close the program's ends of its own pipes.
InheritedOwn(d) == [e \in Drivers |-> IF Held(e) \/ e = d THEN heirs[e] \cup {d} ELSE heirs[e]]

\* Who gets the ends of the other drivers when d is started.
Inherited(d) == [e \in Drivers |-> IF Held(e) THEN heirs[e] \cup {d} ELSE heirs[e]]

\* db_start_driver: the pipes, the child, and then its return code.
StartDriver(d) ==
    /\ client.at = "idle" /\ drv[d] = "none"
    /\ \A e \in 1 .. d - 1 : drv[e] # "none"
    /\ drv' = [drv EXCEPT ![d] = "init"]
    /\ heirs' = Inherited(d)
    /\ handle' = [handle EXCEPT ![d] = "open"]
    /\ Program("start", d, NoCall)
    /\ UNCHANGED <<session, cursors, failed, calls, req, rep, inner, file, faults, orphaned, pending>>

\* The pipe has nothing and nobody to write it.
EndOfReplies(d) == rep[d] = <<>> /\ ~Alive(d)

\* Without a success the handle is lost: its ends stay open in the program.
Started(d) ==
    /\ client.at = "start" /\ client.d = d
    /\ \/ /\ rep[d] # <<>> /\ Head(rep[d]) = Result(TRUE, 0)
          /\ rep' = [rep EXCEPT ![d] = Tail(@)]
          /\ UNCHANGED handle
       \/ /\ rep[d] # <<>> /\ Head(rep[d]) = Result(FALSE, 0)
          /\ rep' = [rep EXCEPT ![d] = Tail(@)]
          /\ handle' = [handle EXCEPT ![d] = "lost"]
       \/ /\ EndOfReplies(d)
          /\ handle' = [handle EXCEPT ![d] = "lost"]
          /\ UNCHANGED rep
    /\ Idle
    /\ UNCHANGED <<session, cursors, failed, calls, driverVars, heirs, req, faults>>

\* What the program may call.
CallsTo(d) ==
    {OpenDatabase, CloseDatabase}
    \cup (IF d \in session
          THEN {OpenSelect(t, m) : t \in Tables, m \in Modes}
               \cup {Fetch(c, p) : c \in cursors[d], p \in Positions}
               \cup {CloseCursor(c) : c \in cursors[d]}
               \cup {Execute(st) : st \in {s \in Statements : s.op # "select"}}
          ELSE {})

Call(d, call) ==
    /\ client.at = "idle" /\ handle[d] = "open" /\ calls < MaxCalls
    /\ calls' = calls + 1
    /\ Send(d, Procnum(call), "procnum", call)
    /\ UNCHANGED <<driverVars, heirs, rep, faults>>

\* A call fails when the pipe ends or the reply is not the one expected.
CallFails(d) ==
    /\ failed' = failed \cup {d}
    /\ Idle
    /\ UNCHANGED <<handle, session, cursors, req>>

\* db__start_procedure_call, and the arguments after it
ProcedureStarts(d) ==
    /\ client.at = "procnum" /\ client.d = d
    /\ \/ /\ rep[d] # <<>> /\ Head(rep[d]) = ProcedureOk
          /\ rep' = [rep EXCEPT ![d] = Tail(@)]
          /\ IF HasArgs(client.call)
             THEN Send(d, Args(client.call), "result", client.call)
             ELSE Program("result", d, client.call)
                  /\ UNCHANGED <<req, handle, session, cursors, failed>>
       \/ EndOfReplies(d) /\ CallFails(d) /\ UNCHANGED rep
    /\ UNCHANGED <<calls, driverVars, heirs, faults>>

\* What a program does of a success: its cursors go with its database.
CursorsAfter(d, call, token) ==
    CASE call.proc = "close_database" -> {}
      [] call.proc = "open_select_cursor" -> cursors[d] \cup {[token |-> token, mode |-> call.mode]}
      [] call.proc = "close_cursor" -> {c \in cursors[d] : c.token # call.token}
      [] OTHER -> cursors[d]
SessionAfter(d, call) ==
    CASE call.proc = "open_database" -> session \cup {d}
      [] call.proc = "close_database" -> session \ {d}
      [] OTHER -> session

\* db__recv_return_code and the results
CallReturns(d) ==
    /\ client.at = "result" /\ client.d = d
    /\ \/ /\ rep[d] # <<>> /\ Head(rep[d]).part = "result" /\ Head(rep[d]).ok
          /\ rep' = [rep EXCEPT ![d] = Tail(@)]
          /\ cursors' = [cursors EXCEPT ![d] = CursorsAfter(d, client.call, Head(rep[d]).token)]
          /\ session' = SessionAfter(d, client.call)
          /\ failed' = failed \ {d}
          /\ Idle
          /\ UNCHANGED <<handle, req>>
       \/ /\ rep[d] # <<>> /\ Head(rep[d]).part = "result" /\ ~Head(rep[d]).ok
          /\ rep' = [rep EXCEPT ![d] = Tail(@)]
          /\ CallFails(d)
       \/ EndOfReplies(d) /\ CallFails(d) /\ UNCHANGED rep
    /\ UNCHANGED <<calls, driverVars, heirs, faults>>

\* db_shutdown_driver closes both ends and waits for the driver.
Shutdown(d) ==
    /\ client.at = "idle" /\ handle[d] = "open"
    /\ handle' = [handle EXCEPT ![d] = "closed"]
    /\ session' = session \ {d} /\ failed' = failed \ {d}
    /\ cursors' = [cursors EXCEPT ![d] = {}]
    /\ Program("wait", d, NoCall)
    /\ UNCHANGED <<calls, driverVars, heirs, req, rep, faults>>
WaitReturns(d) ==
    /\ client.at = "wait" /\ client.d = d /\ ~Alive(d)
    /\ Idle
    /\ UNCHANGED <<handle, session, cursors, failed, calls, driverVars, heirs, req, rep, faults>>

\* The program ends without shutting down its drivers (G_fatal_error).
Exit ==
    /\ client.at = "idle"
    /\ Program("gone", 0, NoCall) /\ EndsHandles /\ ForgetsAll
    /\ UNCHANGED <<calls, driverVars, heirs, req, rep, faults>>

(***************************************************************************)
(* A driver: lib/db/dbmi_driver with db/drivers/dbf.                       *)
(***************************************************************************)
\* Goes on at next, or ends.
Becomes(d, next, state) ==
    /\ drv' = [drv EXCEPT ![d] = next]
    /\ inner' = [inner EXCEPT ![d] = IF next \in Running THEN state ELSE FreshDriver]

\* A write when nobody can read any more kills the driver (SIGPIPE).
Answer(d, m, next, state) ==
    IF Joined(d) THEN rep' = [rep EXCEPT ![d] = Append(@, m)] /\ Becomes(d, next, state)
    ELSE UNCHANGED rep /\ Becomes(d, "ended", state)

Replies(d, ok, token, state) == Answer(d, Result(ok, token), "listens", state)

\* db_driver: the return code of db_driver_init
DriverInit(d) ==
    /\ drv[d] = "init"
    /\ \/ Answer(d, Result(TRUE, 0), "listens", inner[d]) /\ UNCHANGED faults
       \/ /\ faults < MaxFaults /\ faults' = faults + 1
          /\ Answer(d, Result(FALSE, 0), "ended", inner[d])
    /\ UNCHANGED <<programVars, heirs, req, file, orphaned, pending>>

\* The loop of db_driver: the number of a procedure, which is sent back.
ReceiveProcnum(d) ==
    /\ drv[d] = "listens" /\ req[d] # <<>> /\ Head(req[d]).part = "procnum"
    /\ req' = [req EXCEPT ![d] = Tail(@)]
    /\ Answer(d, ProcedureOk, IF HasArgs(Head(req[d]).call) THEN "args" ELSE "serves", inner[d])
    /\ UNCHANGED <<programVars, heirs, file, faults, orphaned, pending>>

EndOfRequests(d) ==
    /\ drv[d] \in {"listens", "args"} /\ req[d] = <<>> /\ ~Joined(d)
    /\ Becomes(d, "ended", inner[d])
    /\ UNCHANGED <<programVars, heirs, req, rep, file, faults, orphaned, pending>>

\* A routine with its arguments.
Serving(d, proc) ==
    /\ drv[d] = "args" /\ req[d] # <<>>
    /\ Head(req[d]).part = "args" /\ Head(req[d]).call.proc = proc
    /\ req' = [req EXCEPT ![d] = Tail(@)]
    /\ UNCHANGED <<programVars, heirs, faults>>

\* A mistake: no failure is sent when a database is open already.
ServeOpenDatabaseSilent(d) ==
    /\ Serving(d, "open_database")
    /\ IF inner[d].open
       THEN UNCHANGED <<rep, orphaned>> /\ Becomes(d, "listens", inner[d])
       ELSE /\ Replies(d, TRUE, 0, [inner[d] EXCEPT !.open = TRUE, !.tables = OpenedTables(file)])
            /\ orphaned' = [orphaned EXCEPT ![d] = {}]
    /\ UNCHANGED <<file, pending>>

\* db_d_open_database
ServeOpenDatabase(d) ==
    /\ Serving(d, "open_database")
    /\ IF inner[d].open
       THEN Replies(d, FALSE, 0, inner[d]) /\ UNCHANGED orphaned
       ELSE /\ Replies(d, TRUE, 0, [inner[d] EXCEPT !.open = TRUE, !.tables = OpenedTables(file)])
            /\ orphaned' = [orphaned EXCEPT ![d] = {}]
    /\ UNCHANGED <<file, pending>>

\* db_d_open_select_cursor: the token of the dbCursor is taken first, then that
\* of the driver's own cursor; a select that fails keeps both.
SelectTokens(tokens, mode) ==
    WithToken(WithToken(tokens, DbCursor(0, mode)), OwnCursor)
SelectedTokens(tokens, mode) ==
    [SelectTokens(tokens, mode) EXCEPT ![NewToken(tokens)] =
        DbCursor(NewToken(WithToken(tokens, DbCursor(0, mode))), mode)]
ServeOpenSelect(d) ==
    /\ Serving(d, "open_select_cursor")
    /\ LET call == Head(req[d]).call
           st == [op |-> "select", table |-> call.table]
           after == [inner[d] EXCEPT !.tables = TablesAfter(@, file, st)]
           token == NewToken(inner[d].tokens)
       IN  IF Succeeds(inner[d].tables, file, st)
           THEN Replies(d, TRUE, token,
                    [after EXCEPT !.tokens = SelectedTokens(@, call.mode), !.managed = @ \cup {token}])
           ELSE Replies(d, FALSE, 0, [after EXCEPT !.tokens = SelectTokens(@, call.mode)])
    /\ UNCHANGED <<file, orphaned, pending>>

ValidCursor(c, position) == c.kind = "dbCursor" /\ (position = "next" \/ c.mode = "scroll")

\* A mistake: the return code is sent before the cursor is looked at.
ServeFetchUnchecked(d) ==
    /\ Serving(d, "fetch")
    /\ LET call == Head(req[d]).call
           c == FindToken(inner[d].tokens, call.token)
       IN  Answer(d, Result(TRUE, 0), IF ValidCursor(c, call.position) THEN "listens" ELSE "ended", inner[d])
    /\ UNCHANGED <<file, orphaned, pending>>

\* db_d_fetch: the driver ends after a fetch from an invalid cursor.
ServeFetch(d) ==
    /\ Serving(d, "fetch")
    /\ LET call == Head(req[d]).call
           c == FindToken(inner[d].tokens, call.token)
       IN  IF ValidCursor(c, call.position)
           THEN Replies(d, FindToken(inner[d].tokens, c.own) = OwnCursor, 0, inner[d])
           ELSE Answer(d, Result(FALSE, 0), "ended", inner[d])
    /\ UNCHANGED <<file, orphaned, pending>>

\* db_d_close_cursor: for an invalid cursor the driver ends without a reply.
ClosedTokens(tokens, token) == DropToken(DropToken(tokens, FindToken(tokens, token).own), token)
ServeCloseCursor(d) ==
    /\ Serving(d, "close_cursor")
    /\ LET token == Head(req[d]).call.token
           c == FindToken(inner[d].tokens, token)
       IN  IF c.kind = "dbCursor"
           THEN Replies(d, FindToken(inner[d].tokens, c.own) = OwnCursor, 0,
                    [inner[d] EXCEPT !.tokens = ClosedTokens(@, token), !.managed = @ \ {token}])
           ELSE Becomes(d, "ended", inner[d]) /\ UNCHANGED rep
    /\ UNCHANGED <<file, orphaned, pending>>

\* What the program may rely on after a statement: a row that was inserted,
\* unless somebody dropped the table; and what drops a table drops its rows.
PendingAfter(d, st) ==
    CASE st.op = "insert" /\ st.table \notin orphaned[d] ->
             [pending EXCEPT ![d][st.table] = @ \cup {st.row}]
      [] st.op = "delete" -> [pending EXCEPT ![d][st.table] = {}]
      [] st.op = "drop" -> [e \in Drivers |-> [pending[e] EXCEPT ![st.table] = {}]]
      [] OTHER -> pending
OrphanedAfter(st) ==
    IF st.op = "drop" THEN [e \in Drivers |-> orphaned[e] \cup {st.table}] ELSE orphaned

\* db_d_execute_immediate and db_d_describe_table
ServeExecute(d) ==
    /\ Serving(d, "execute_immediate")
    /\ LET st == Head(req[d]).call.statement
           ok == Succeeds(inner[d].tables, file, st)
       IN  /\ Replies(d, ok, 0, [inner[d] EXCEPT !.tables = TablesAfter(@, file, st)])
           /\ file' = FilesAfter(inner[d].tables, file, st)
           /\ pending' = IF ok THEN PendingAfter(d, st) ELSE pending
           /\ orphaned' = IF ok THEN OrphanedAfter(st) ELSE orphaned

\* db_d_close_database: db__close_all_cursors closes the driver's own cursors,
\* and leaves the tokens of the dbCursors.
AllClosed(state) ==
    LET own == {FindToken(state.tokens, n).own : n \in state.managed}
    IN  [n \in DOMAIN state.tokens |-> IF n \in own THEN NoAddress ELSE state.tokens[n]]
ServeCloseDatabase(d) ==
    /\ drv[d] = "serves"
    /\ IF inner[d].open
       THEN /\ Becomes(d, "saves", [inner[d] EXCEPT !.tokens = AllClosed(inner[d]), !.managed = {},
                                                    !.todo = ToSave(inner[d].tables)])
            /\ UNCHANGED rep
       ELSE Replies(d, FALSE, 0, inner[d])
    /\ UNCHANGED <<programVars, heirs, req, file, faults, orphaned, pending>>

\* A table that cannot be saved is passed over: its result is ignored.
PassedOver(d, t) ==
    /\ faults < MaxFaults /\ faults' = faults + 1
    /\ Becomes(d, "saves", [inner[d] EXCEPT !.todo = @ \ {t}, !.saving = NotSaving])
    /\ pending' = [pending EXCEPT ![d][t] = {}]
    /\ UNCHANGED file

\* save_table: the temporary file, and its renaming when it is whole
SaveWrites(d) ==
    /\ drv[d] = "saves" /\ inner[d].saving = NotSaving
    /\ \E t \in inner[d].todo :
        \/ /\ Becomes(d, "saves", [inner[d] EXCEPT !.saving = [is |-> "temp", table |-> t]])
           /\ file' = FilesDuringSave(file, t)
           /\ UNCHANGED <<faults, pending>>
        \/ PassedOver(d, t)
    /\ UNCHANGED <<programVars, heirs, req, rep, orphaned>>
SaveRenames(d) ==
    /\ drv[d] = "saves" /\ inner[d].saving # NotSaving
    /\ LET t == inner[d].saving.table IN
        \/ /\ file' = FilesSaved(file, inner[d].tables, t)
           /\ Becomes(d, "saves", [inner[d] EXCEPT !.todo = @ \ {t}, !.saving = NotSaving])
           /\ pending' = [pending EXCEPT ![d][t] = @ \ file'[t].rows]
           /\ UNCHANGED faults
        \/ PassedOver(d, t)
    /\ UNCHANGED <<programVars, heirs, req, rep, orphaned>>
CloseReplies(d) ==
    /\ drv[d] = "saves" /\ inner[d].todo = {}
    /\ Replies(d, TRUE, 0, [FreshDriver EXCEPT !.tokens = inner[d].tokens])
    /\ UNCHANGED <<programVars, heirs, req, file, faults, orphaned, pending>>

(***************************************************************************)
(* Processes are killed at any point.                                      *)
(***************************************************************************)
DriverKilled(d) ==
    /\ Alive(d) /\ faults < MaxFaults /\ faults' = faults + 1
    /\ Becomes(d, "killed", inner[d])
    /\ req' = [req EXCEPT ![d] = <<>>]
    /\ UNCHANGED <<programVars, heirs, rep, file, orphaned, pending>>
ProgramKilled ==
    /\ Live /\ faults < MaxFaults /\ faults' = faults + 1
    /\ Program("killed", 0, NoCall) /\ EndsHandles /\ ForgetsAll
    /\ UNCHANGED <<calls, driverVars, heirs, req, rep>>

(***************************************************************************)
(* The system.  A process goes on when it can; what the program calls is   *)
(* its own choice, and so is its end.                                      *)
(***************************************************************************)
ProgramGoesOn(d) == Started(d) \/ ProcedureStarts(d) \/ CallReturns(d) \/ WaitReturns(d)
Serve(d) == \/ ServeOpenDatabase(d) \/ ServeOpenSelect(d) \/ ServeFetch(d) \/ ServeCloseCursor(d)
            \/ ServeExecute(d) \/ ServeCloseDatabase(d)
Save(d) == SaveWrites(d) \/ SaveRenames(d) \/ CloseReplies(d)
DriverGoesOn(d) == DriverInit(d) \/ ReceiveProcnum(d) \/ EndOfRequests(d) \/ Serve(d) \/ Save(d)
ProgramChooses(d) == StartDriver(d) \/ (\E call \in CallsTo(d) : Call(d, call)) \/ Shutdown(d)

Next == \/ \E d \in Drivers : ProgramGoesOn(d) \/ DriverGoesOn(d) \/ ProgramChooses(d) \/ DriverKilled(d)
        \/ Exit \/ ProgramKilled

Spec == Init /\ [][Next]_vars
FairSpec == /\ Spec
            /\ WF_vars(\E d \in Drivers : ProgramGoesOn(d))
            /\ \A d \in Drivers : WF_vars(DriverGoesOn(d))

(***************************************************************************)
(* Properties.                                                             *)
(***************************************************************************)
Calls == {OpenDatabase, CloseDatabase} \cup {OpenSelect(t, m) : t \in Tables, m \in Modes}
         \cup [proc : {"fetch"}, token : Nat, position : Positions]
         \cup [proc : {"close_cursor"}, token : Nat] \cup {Execute(st) : st \in Statements}

\* Every variable has its type; a dbCursor is known by its token.
TypeOK ==
    /\ client.at \in {"idle", "start", "procnum", "result", "wait", "gone", "killed"}
    /\ client.d \in 0 .. MaxDrivers /\ client.call \in Calls \cup {NoCall}
    /\ handle \in [Drivers -> {"none", "open", "lost", "closed"}]
    /\ session \subseteq Drivers /\ failed \subseteq Drivers
    /\ \A d \in Drivers : cursors[d] \subseteq Cursor
    /\ drv \in [Drivers -> Running \cup {"none", "ended", "killed"}]
    /\ heirs \in [Drivers -> SUBSET Drivers]
    /\ file \in [Tables -> File]
    /\ orphaned \in [Drivers -> SUBSET Tables]
    /\ pending \in [Drivers -> [Tables -> SUBSET Rows]]
    /\ \A d \in Drivers :
        /\ inner[d].managed \subseteq DOMAIN inner[d].tokens
        /\ DOMAIN inner[d].tables \subseteq Tables
        /\ \A t \in DOMAIN inner[d].tables : inner[d].tables[t] \in Table

\* Between two calls nothing is left in the pipes of a driver, and it waits for
\* the next call; if it has ended it was killed or the last call failed: a
\* program that stops using a driver after a failure never writes to one that
\* has gone.
InSync ==
    client.at = "idle" =>
        \A d \in Drivers : handle[d] = "open" =>
            /\ rep[d] = <<>> /\ req[d] = <<>>
            /\ drv[d] = "listens" \/ drv[d] = "killed" \/ (drv[d] = "ended" /\ d \in failed)

\* A cursor of the program leads to a dbCursor of its own in the driver, in the
\* mode it was opened with, and that to a cursor of its own: whatever was
\* opened, closed and failed before.
CursorsFound ==
    client.at = "idle" =>
        \A d \in Drivers : Alive(d) =>
            LET at(c) == FindToken(inner[d].tokens, c.token)
            IN  \A c \in cursors[d] :
                    /\ at(c).kind = "dbCursor" /\ at(c).mode = c.mode
                    /\ c.token \in inner[d].managed
                    /\ FindToken(inner[d].tokens, at(c).own) = OwnCursor
                    /\ \A e \in cursors[d] \ {c} : e.token # c.token /\ at(e).own # at(c).own

\* A file of the database is never there in part, whenever a driver is killed.
FilesWhole == \A t \in Tables : file[t].is # "part"

\* When a driver has closed its database, every row it said was inserted was in
\* the file it saved, except in tables that were dropped meanwhile.
ClosedIsSaved ==
    \A d \in Drivers : drv[d] = "listens" /\ ~inner[d].open => \A t \in Tables : pending[d][t] = {}

\* What a driver keeps of its tables reaches the files, and nothing less does.
FilesKept == FilesWhole /\ ClosedIsSaved

\* Every call returns, or ends the program; so does shutting down a driver
\* unless one that was started later, with the first still open, is alive.
Waits == client.at \in {"start", "procnum", "result"} \/ (client.at = "wait" /\ ~Joined(client.d))
CallsReturn == Waits ~> ~Waits

\* When the program has ended, in whatever way, all its drivers end.
DriversEnd == ~Live ~> \A d \in Drivers : ~Alive(d)

=============================================================================

------------------------------ MODULE DbfTables ------------------------------
(***************************************************************************)
(* The tables of the dbf driver (db/drivers/dbf: db.c, table.c, dbfexe.c). *)
(* A driver keeps its own copy of every table it knows: the tables of the  *)
(* directory when the database was opened, and those it created.  The head *)
(* and the rows of a table are read when they are first needed, statements *)
(* change the copy, and only the closing of the database writes it.        *)
(*                                                                         *)
(* A file is absent, in part or whole; the rows are a set of values.       *)
(* Columns, types, permissions and the parsing of SQL are left out.        *)
(***************************************************************************)
EXTENDS Naturals

CONSTANTS Tables, Rows

\* The files of a database directory.
Absent == [is |-> "absent", rows |-> {}]
Whole(rows) == [is |-> "whole", rows |-> rows]
Part == [is |-> "part", rows |-> {}]
File == [is : {"whole"}, rows : SUBSET Rows] \cup {Absent, Part}

\* A table as add_table leaves it, and as CREATE TABLE does.
Listed == [alive |-> TRUE, described |-> FALSE, loaded |-> FALSE, updated |-> FALSE, rows |-> {}]
Created == [alive |-> TRUE, described |-> TRUE, loaded |-> TRUE, updated |-> TRUE, rows |-> {}]
Table == [alive : BOOLEAN, described : BOOLEAN, loaded : BOOLEAN, updated : BOOLEAN, rows : SUBSET Rows]

\* db__driver_open_database: the tables of the files in the directory.
OpenedTables(file) == [t \in {u \in Tables : file[u] # Absent} |-> Listed]

Known(tables, t) == t \in DOMAIN tables
Readable(file, t) == file[t] # Absent

\* load_table_head succeeds at once for a table already described.
HeadLoads(tables, file, t) == Known(tables, t) /\ (tables[t].described \/ Readable(file, t))
\* load_table fails when the file is gone and the rows were never read.
RowsLoad(tables, file, t) == tables[t].loaded \/ Readable(file, t)

Described(tables, t) == [tables EXCEPT ![t].described = TRUE]
Loaded(tables, file, t) ==
    IF tables[t].loaded \/ ~Readable(file, t) THEN Described(tables, t)
    ELSE [tables EXCEPT ![t].described = TRUE, ![t].loaded = TRUE, ![t].rows = file[t].rows]

(***************************************************************************)
(* The statements of dbfexe.c: whether they succeed (St...OK) and the      *)
(* tables after them.  find_table does not ask whether a table is alive.   *)
(***************************************************************************)
Statements == [op : {"create", "drop", "select", "delete", "describe"}, table : Tables]
              \cup [op : {"insert"}, table : Tables, row : Rows]

\* INSERT ignores the result of load_table, SELECT and DELETE do not, and the
\* description of a table (db__driver_describe_table) that of load_table_head.
Succeeds(tables, file, st) ==
    CASE st.op = "create" -> ~Known(tables, st.table)
      [] st.op = "describe" -> Known(tables, st.table)
      [] st.op \in {"drop", "insert"} -> HeadLoads(tables, file, st.table)
      [] OTHER -> HeadLoads(tables, file, st.table) /\ RowsLoad(tables, file, st.table)

Inserted(tables, file, t, row) ==
    [Loaded(tables, file, t) EXCEPT ![t].rows = @ \cup {row}, ![t].updated = TRUE]

\* DELETE marks the table as changed only when it found a row.
Emptied(tables, file, t) ==
    LET l == Loaded(tables, file, t)
    IN  [l EXCEPT ![t].rows = {}, ![t].updated = @ \/ l[t].rows # {}]

WithCreated(tables, t) == [u \in DOMAIN tables \cup {t} |-> IF u = t THEN Created ELSE tables[u]]

\* The tables after a statement, also one that failed after reading the head.
TablesAfter(tables, file, st) ==
    IF st.op = "describe" \/ ~Succeeds(tables, file, st)
    THEN IF st.op # "create" /\ HeadLoads(tables, file, st.table)
         THEN Described(tables, st.table) ELSE tables
    ELSE CASE st.op = "create" -> WithCreated(tables, st.table)
           [] st.op = "drop" -> [Described(tables, st.table) EXCEPT ![st.table].alive = FALSE]
           [] st.op = "select" -> Loaded(tables, file, st.table)
           [] st.op = "delete" -> Emptied(tables, file, st.table)
           [] st.op = "insert" -> Inserted(tables, file, st.table, st.row)

\* DROP TABLE unlinks the file at once.
FilesAfter(tables, file, st) ==
    IF st.op = "drop" /\ Succeeds(tables, file, st) THEN [file EXCEPT ![st.table] = Absent] ELSE file

(***************************************************************************)
(* save_table: only a table that is alive and was changed is written, to a *)
(* temporary file that is renamed when it is whole.                        *)
(***************************************************************************)
ToSave(tables) == {t \in DOMAIN tables : tables[t].alive /\ tables[t].updated}
\* A mistake: the table is written where it is.
FilesWrittenInPlace(file, t) == [file EXCEPT ![t] = Part]
FilesDuringSave(file, t) == file
FilesSaved(file, tables, t) == [file EXCEPT ![t] = Whole(tables[t].rows)]
=============================================================================

------------------------------- MODULE Matrix -------------------------------
(***************************************************************************)
(* What the segment library promises its caller: a matrix of values that    *)
(* can be read and written cell by cell or row by row, as if it were all in *)
(* memory.  A call may fail; a failed call changes nothing, except that a   *)
(* failed row write may have written the row's first columns.               *)
(***************************************************************************)
EXTENDS Integers

CONSTANTS NRows, NCols, Values, Zero

VARIABLES mat,    \* the matrix
          reply   \* what the last call returned

Rows == 0 .. NRows - 1
Cols == 0 .. NCols - 1

Ok(cells) == [ok |-> TRUE, cells |-> cells]
Nothing   == [c \in {} |-> Zero]
Failed    == [ok |-> FALSE, cells |-> Nothing]

Init ==
    /\ mat = [r \in Rows |-> [c \in Cols |-> Zero]]
    /\ reply = Ok(Nothing)

Get(r, c) ==
    /\ reply' = Ok([d \in {c} |-> mat[r][c]])
    /\ UNCHANGED mat

Put(r, c, v) ==
    /\ mat' = [mat EXCEPT ![r] = [@ EXCEPT ![c] = v]]
    /\ reply' = Ok(Nothing)

GetRow(r) ==
    /\ reply' = Ok(mat[r])
    /\ UNCHANGED mat

(* The first m columns of a row are replaced. *)
RowWritten(r, row, m) ==
    [mat EXCEPT ![r] = [c \in Cols |-> IF c < m THEN row[c] ELSE @[c]]]

PutRow(r, row) ==
    /\ mat' = RowWritten(r, row, NCols)
    /\ reply' = Ok(Nothing)

PutRowFails(r, row, m) ==
    /\ mat' = RowWritten(r, row, m)
    /\ reply' = Failed

(* segment_flush, segment_release, segment_init: nothing the matrix shows. *)
Housekeeping == reply' = Ok(Nothing) /\ UNCHANGED mat

Fail == reply' = Failed /\ UNCHANGED mat

Next ==
    \/ \E r \in Rows, c \in Cols : Get(r, c) \/ \E v \in Values : Put(r, c, v)
    \/ \E r \in Rows : GetRow(r)
    \/ \E r \in Rows, row \in [Cols -> Values] :
          PutRow(r, row) \/ \E m \in Cols : PutRowFails(r, row, m)
    \/ Housekeeping
    \/ Fail

Spec == Init /\ [][Next]_<<mat, reply>>
=============================================================================

--------------------------- MODULE SegmentAddress ---------------------------
(***************************************************************************)
(* How the segment library lays a matrix out in a segment file: the matrix  *)
(* of NRows x NCols values is cut into segments of SRows x SCols values,    *)
(* numbered row by row, each stored contiguously (lib/segment/address.c).   *)
(* A value is one word here: the length of a value in bytes only scales     *)
(* the index.                                                               *)
(***************************************************************************)
EXTENDS Integers

CONSTANTS NRows, NCols,     \* rows and columns of the data matrix
          SRows, SCols      \* rows and columns of one segment

(* The parameters segment_format accepts: anything else is refused with -3. *)
ASSUME SizesAssumption ==
    /\ NRows \in Nat \ {0} /\ NCols \in Nat \ {0}
    /\ SRows \in Nat \ {0} /\ SCols \in Nat \ {0}

Rows == 0 .. NRows - 1
Cols == 0 .. NCols - 1

(* Segments per row of segments: the last one may be partly used (spill). *)
Spr == IF NCols % SCols = 0 THEN NCols \div SCols ELSE (NCols \div SCols) + 1

(* The segment numbers of the file, and the words of one segment. *)
Segs  == 0 .. (Spr * ((NRows + SRows - 1) \div SRows)) - 1
Words == 0 .. (SRows * SCols) - 1

(* segment_address: the segment that holds a cell, and its index in it. *)
SegNo(r, c) == (r \div SRows) * Spr + (c \div SCols)
Index(r, c) == (r % SRows) * SCols + (c % SCols)

(***************************************************************************)
(* Every cell of the matrix has a place inside the formatted file, and no   *)
(* two cells share one: without it a put would change two values of the     *)
(* matrix, or write past the last segment segment_format() filled.          *)
(***************************************************************************)
AddressInFile ==
    \A r \in Rows, c \in Cols : SegNo(r, c) \in Segs /\ Index(r, c) \in Words

AddressInjective ==
    \A r1, r2 \in Rows, c1, c2 \in Cols :
        SegNo(r1, c1) = SegNo(r2, c2) /\ Index(r1, c1) = Index(r2, c2)
            => r1 = r2 /\ c1 = c2
=============================================================================

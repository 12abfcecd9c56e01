------------------------------ MODULE DbTokens ------------------------------
(***************************************************************************)
(* The token table of a database driver (lib/db/dbmi_base/token.c): one    *)
(* list that maps the tokens handed out to the objects behind them.  The   *)
(* driver library keeps its dbCursors in it and the dbf driver its own     *)
(* cursors.  Tokens are counted from 1 here and from 0 in the code.        *)
(***************************************************************************)
EXTENDS Naturals, Sequences

\* The address NONE of a token that was dropped.
NoAddress == [kind |-> "none"]

FreeTokens(list) == {n \in DOMAIN list : list[n] = NoAddress}

\* db_find_token
FindToken(list, n) == IF n \in DOMAIN list THEN list[n] ELSE NoAddress

\* db_drop_token: a token that is not in the table is ignored.
DropToken(list, n) == [list EXCEPT ![n] = NoAddress]

\* A mistake: past the end even when there is a free place.
NewTokenPast(list) == Len(list) + 1

\* The token db_new_token returns: the first free place, or one more.
NewToken(list) == IF FreeTokens(list) = {} THEN Len(list) + 1
                  ELSE CHOOSE n \in FreeTokens(list) : \A k \in FreeTokens(list) : n <= k

\* A mistake: a free place is counted but the last one taken.
WithTokenLast(list, address) ==
    IF FreeTokens(list) = {} THEN Append(list, address) ELSE [list EXCEPT ![Len(list)] = address]

\* The table after db_new_token(address).
WithToken(list, address) ==
    IF FreeTokens(list) = {} THEN Append(list, address)
    ELSE [list EXCEPT ![NewToken(list)] = address]
=============================================================================

------------------------------ MODULE Segment ------------------------------
(***************************************************************************)
(* The segment library, lib/segment: random access to a matrix kept in a    *)
(* file, through NSeg in-memory segments replaced in least-recently-used    *)
(* order.  One action is one call of the library by its (single threaded)   *)
(* caller; reads and writes of the file may fail or stop short.             *)
(***************************************************************************)
EXTENDS SegmentAddress

CONSTANTS NSeg,          \* segments retained in memory (nseg)
          Values,        \* values a cell may hold
          Zero,          \* the value segment_format() fills the file with
          Junk,          \* what malloc() leaves in a fresh buffer
          NoWrite,       \* "this access does not change the cell"
          FaultKinds,    \* which transfers may fail: "evict", "flush", "read", "row"
          MaxFaults,     \* bound on the number of failed transfers
          MaxAge         \* bound on the ages, hence on the number of selections

ASSUME SegmentAssumption ==
    /\ NSeg \in Nat \ {0}
    /\ Zero \in Values /\ Junk \notin Values
    /\ NoWrite \notin Values /\ NoWrite # Junk
    /\ MaxFaults \in Nat /\ MaxAge \in Nat

VARIABLES open,     \* SEG->open: between segment_init and segment_release
          scb,      \* the segment control blocks
          cur,      \* the last selected slot
          file,     \* the segment file, segment by segment
          reply,    \* what the last call returned
          faults    \* failed transfers so far

vars == <<open, scb, cur, file, reply, faults>>

Slots   == 0 .. NSeg - 1
Free    == -1
Word    == Values \cup {Junk}
Buffer  == [Words -> Word]
Control == [n : Segs \cup {Free}, dirty : BOOLEAN, age : Nat, buf : Buffer]

(* Cells handed back to the caller, by column: none, one, or a whole row. *)
Cells == UNION {[S -> Word] : S \in SUBSET Cols}
Ok(cells) == [ok |-> TRUE, cells |-> cells]
Nothing   == [c \in {} |-> Zero]
Failed    == [ok |-> FALSE, cells |-> Nothing]

-----------------------------------------------------------------------------
(* A transfer of a segment that moves only the first k words of it. *)
Partly(new, old, k) == [x \in Words |-> IF x < k THEN new[x] ELSE old[x]]

NoFault == UNCHANGED faults
Fault(kind) ==
    /\ kind \in FaultKinds
    /\ faults < MaxFaults
    /\ faults' = faults + 1

(* A mistake: the slots are left as malloc() returned them. *)
FreshControlUncleared == [n |-> Free, dirty |-> Junk, age |-> 0,
                          buf |-> [x \in Words |-> Junk]]

(* segment_setup: every slot free, clean, of age 0, its buffer malloc()ed. *)
FreshControl == [n |-> Free, dirty |-> FALSE, age |-> 0,
                 buf |-> [x \in Words |-> Junk]]

(* A mistake: only the current slot is searched. *)
CachedInCur(n) == scb[cur].n = n

(* Segment n is in memory. *)
Cached(n) == \E i \in Slots : scb[i].n = n

HasFreeSlot == \E i \in Slots : scb[i].n = Free

(* The slot segment_pagein finds n in: cur is looked at first. *)
FoundIn(n, i) ==
    /\ scb[i].n = n
    /\ IF scb[cur].n = n THEN i = cur
       ELSE \A j \in Slots : scb[j].n = n => i <= j

(* The slot it takes for a segment that is not in memory: the first free    *)
(* one, otherwise the first of the oldest.                                  *)
IsVictim(i) ==
    IF HasFreeSlot
    THEN scb[i].n = Free /\ \A j \in Slots : scb[j].n = Free => i <= j
    ELSE \A j \in Slots : \/ scb[j].age < scb[i].age
                          \/ scb[j].age = scb[i].age /\ i <= j

MustPageOut(i) == scb[i].n # Free /\ scb[i].dirty

(* A mistake: the slots not selected do not age. *)
SelectedAlone(s, i) == [s EXCEPT ![i] = [@ EXCEPT !.age = @ + 1]]

(* segment_select: slot i becomes the youngest, every other one ages. *)
Selected(s, i) ==
    [j \in Slots |-> [s[j] EXCEPT !.age = IF j = i THEN 1 ELSE @ + 1]]
MayAge == \A i \in Slots : scb[i].age < MaxAge

(* A mistake: the slot is changed but not marked dirty. *)
StoredClean(s, i, x, w) ==
    IF w = NoWrite THEN s ELSE [s EXCEPT ![i] = [@ EXCEPT !.buf[x] = w]]

(* The memcpy at the end of segment_put; segment_get leaves the slot alone. *)
Stored(s, i, x, w) ==
    IF w = NoWrite THEN s
    ELSE [s EXCEPT ![i] = [@ EXCEPT !.dirty = TRUE, !.buf[x] = w]]

(* segment_pageout of slot i, as far as its first k words. *)
PagedOut(i, k) ==
    [file EXCEPT ![scb[i].n] = Partly(scb[i].buf, @, k)]
AllWords == SRows * SCols

(* The file after the pageout segment_pagein does before it reuses slot i. *)
FileAfterEvict(i) == IF MustPageOut(i) THEN PagedOut(i, AllWords) ELSE file

-----------------------------------------------------------------------------
(* What a successful access to cell (r,c) returns: the word for a get,      *)
(* nothing for a put.                                                       *)
Returned(c, w, word) == Ok(IF w = NoWrite THEN [d \in {c} |-> word] ELSE Nothing)

(* segment_get / segment_put of a cell whose segment is in memory, slot i. *)
AccessHit(r, c, w, i) ==
    /\ open /\ FoundIn(SegNo(r, c), i)
    /\ i # cur => MayAge
    /\ scb' = Stored(IF i = cur THEN scb ELSE Selected(scb, i), i, Index(r, c), w)
    /\ cur' = i
    /\ reply' = Returned(c, w, scb[i].buf[Index(r, c)])
    /\ NoFault
    /\ UNCHANGED <<open, file>>

(* ... of a cell whose segment has to be read into slot i, all transfers    *)
(* succeeding.                                                              *)
AccessMiss(r, c, w, i) ==
    LET n == SegNo(r, c)
        loaded == [scb EXCEPT ![i] = [@ EXCEPT !.n = n, !.dirty = FALSE,
                                               !.buf = file[n]]]
    IN  /\ open /\ ~Cached(n) /\ IsVictim(i)
        /\ MayAge
        /\ file' = FileAfterEvict(i)
        /\ scb' = Stored(Selected(loaded, i), i, Index(r, c), w)
        /\ cur' = i
        /\ reply' = Returned(c, w, file[n][Index(r, c)])
        /\ NoFault
        /\ UNCHANGED open

(* A mistake: the victim is marked clean before its write is known good. *)
AccessEvictFailsClean(r, c, i, k) ==
    /\ open /\ ~Cached(SegNo(r, c)) /\ IsVictim(i)
    /\ MustPageOut(i)
    /\ Fault("evict")
    /\ file' = PagedOut(i, k)
    /\ scb' = [scb EXCEPT ![i] = [@ EXCEPT !.dirty = FALSE]]
    /\ reply' = Failed
    /\ UNCHANGED <<open, cur>>

(* ... when the dirty victim cannot be written: it stays in its slot. *)
AccessEvictFails(r, c, i, k) ==
    /\ open /\ ~Cached(SegNo(r, c)) /\ IsVictim(i)
    /\ MustPageOut(i)
    /\ Fault("evict")
    /\ file' = PagedOut(i, k)
    /\ reply' = Failed
    /\ UNCHANGED <<open, scb, cur>>

(* ... when the segment cannot be read: the slot is already marked as       *)
(* holding it, and keeps what the read left in its buffer.                  *)
AccessReadFails(r, c, i, k) ==
    LET n == SegNo(r, c)
    IN  /\ open /\ ~Cached(n) /\ IsVictim(i)
        /\ Fault("read")
        /\ file' = FileAfterEvict(i)
        /\ scb' = [scb EXCEPT ![i] = [@ EXCEPT !.n = n, !.dirty = FALSE,
                                        !.buf = Partly(file[n], scb[i].buf, k)]]
        /\ reply' = Failed
        /\ UNCHANGED <<open, cur>>

Access(r, c, w) ==
    \E i \in Slots :
        \/ AccessHit(r, c, w, i)
        \/ AccessMiss(r, c, w, i)
        \/ \E k \in Words : AccessEvictFails(r, c, i, k) \/ AccessReadFails(r, c, i, k)

Get(r, c)    == Access(r, c, NoWrite)
Put(r, c, v) == Access(r, c, v)

-----------------------------------------------------------------------------
(* A mistake: the loop stops before slot 0 and marks it clean nevertheless. *)
FlushSkipsFirst(lost, k) ==
    LET Touched(n) == {i \in Slots \ {0} : MustPageOut(i) /\ scb[i].n = n}
    IN  /\ open /\ lost = {} /\ k = 0
        /\ NoFault
        /\ file' = [n \in Segs |->
                      IF Touched(n) = {} THEN file[n]
                      ELSE scb[CHOOSE i \in Touched(n) : TRUE].buf]
        /\ scb' = [i \in Slots |-> [scb[i] EXCEPT !.dirty = FALSE]]
        /\ reply' = Ok(Nothing)
        /\ UNCHANGED <<open, cur>>

(* segment_flush: every dirty segment is written; those in lost stop after  *)
(* k words and stay dirty, which the caller is not told.                    *)
Flush(lost, k) ==
    LET Written == {i \in Slots : MustPageOut(i)} \ lost
        Touched(n) == {i \in Slots : MustPageOut(i) /\ scb[i].n = n}
    IN  /\ open
        /\ lost \subseteq {i \in Slots : MustPageOut(i)}
        /\ IF lost = {} THEN NoFault ELSE Fault("flush")
        /\ file' = [n \in Segs |->
                      IF Touched(n) = {} THEN file[n]
                      ELSE LET i == CHOOSE i \in Touched(n) : TRUE
                           IN  Partly(scb[i].buf, file[n],
                                      IF i \in lost THEN k ELSE AllWords)]
        /\ scb' = [i \in Slots |-> IF i \in Written
                                   THEN [scb[i] EXCEPT !.dirty = FALSE]
                                   ELSE scb[i]]
        /\ reply' = Ok(Nothing)
        /\ UNCHANGED <<open, cur>>

(* segment_put_row: straight to the file, segment by segment; a failed      *)
(* write leaves the columns before m written.                               *)
RowPut(r, row, m) ==
    [n \in Segs |-> [x \in Words |->
        IF \E c \in Cols : c < m /\ SegNo(r, c) = n /\ Index(r, c) = x
        THEN row[CHOOSE c \in Cols : SegNo(r, c) = n /\ Index(r, c) = x]
        ELSE file[n][x]]]

PutRow(r, row) ==
    /\ open
    /\ file' = RowPut(r, row, NCols)
    /\ reply' = Ok(Nothing)
    /\ NoFault
    /\ UNCHANGED <<open, scb, cur>>

PutRowFails(r, row, m) ==
    /\ open
    /\ Fault("row")
    /\ file' = RowPut(r, row, m)
    /\ reply' = Failed
    /\ UNCHANGED <<open, scb, cur>>

(* segment_get_row: straight from the file. *)
GetRow(r) ==
    /\ open
    /\ reply' = Ok([c \in Cols |-> file[SegNo(r, c)][Index(r, c)]])
    /\ NoFault
    /\ UNCHANGED <<open, scb, cur, file>>

GetRowFails ==
    /\ open
    /\ Fault("row")
    /\ reply' = Failed
    /\ UNCHANGED <<open, scb, cur, file>>

(* segment_release: the slots are freed, nothing is written. *)
Release ==
    /\ open
    /\ open' = FALSE
    /\ scb' = [i \in Slots |-> FreshControl]
    /\ cur' = 0
    /\ reply' = Ok(Nothing)
    /\ NoFault
    /\ UNCHANGED file

(* segment_init on a formatted file: the header is read, the slots set up. *)
Reopen ==
    /\ ~open
    /\ open' = TRUE
    /\ scb' = [i \in Slots |-> FreshControl]
    /\ cur' = 0
    /\ reply' = Ok(Nothing)
    /\ NoFault
    /\ UNCHANGED file

-----------------------------------------------------------------------------
(* A file just formatted and initialised. *)
Init ==
    /\ open = TRUE
    /\ scb = [i \in Slots |-> FreshControl]
    /\ cur = 0
    /\ file = [n \in Segs |-> [x \in Words |-> Zero]]
    /\ reply = Ok(Nothing)
    /\ faults = 0

(* Any call at any time. *)
Next ==
    \/ \E r \in Rows, c \in Cols : Get(r, c) \/ \E v \in Values : Put(r, c, v)
    \/ \E lost \in SUBSET Slots, k \in Words : Flush(lost, k)
    \/ \E r \in Rows, row \in [Cols -> Values] :
          PutRow(r, row) \/ \E m \in Cols : PutRowFails(r, row, m)
    \/ \E r \in Rows : GetRow(r)
    \/ GetRowFails
    \/ Release
    \/ Reopen

Spec == Init /\ [][Next]_vars

-----------------------------------------------------------------------------
TypeOK ==
    /\ open \in BOOLEAN
    /\ scb \in [Slots -> Control]
    /\ cur \in Slots
    /\ file \in [Segs -> Buffer]
    /\ reply \in [ok : BOOLEAN, cells : Cells]
    /\ faults \in Nat

(***************************************************************************)
(* No segment is held by two slots, so a put can never update one copy and  *)
(* a later get or flush use the other (the searches in segment_pagein).     *)
(***************************************************************************)
OneSlotPerSegment ==
    \A i, j \in Slots : scb[i].n = scb[j].n /\ i # j => scb[i].n = Free
=============================================================================

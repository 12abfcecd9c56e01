--------------------------- MODULE SegmentProofs ---------------------------
(* The segment layout is sound for every matrix and every segment size; the *)
(* segment cache is of the right type and no segment is ever held twice, for *)
(* every geometry, every order of calls and every failure.                  *)
EXTENDS Segment, TLAPS

(* Division with remainder, in the form the proofs below use. *)
LEMMA DivMod ==
    ASSUME NEW a \in Nat, NEW b \in Nat \ {0}
    PROVE  /\ a \div b \in Nat /\ a % b \in 0 .. b - 1
           /\ a = (a \div b) * b + (a % b)
  BY SMT

(* A product of naturals grows with its factors. *)
LEMMA MulMono ==
    ASSUME NEW a \in Nat, NEW b \in Nat, NEW c \in Nat, a <= b
    PROVE  a * c <= b * c
  BY SMT

(* A number of at most b - 1 plus a multiple of b determines both. *)
LEMMA MixedRadix ==
    ASSUME NEW b \in Nat, NEW p \in Nat, NEW q \in Nat,
           NEW y \in 0 .. b - 1, NEW z \in 0 .. b - 1,
           p * b + y = q * b + z
    PROVE  p = q /\ y = z
<1>1. CASE p < q
  <2>1. (p + 1) * b <= q * b  BY <1>1, MulMono
  <2>2. p * b + b <= q * b    BY <2>1
  <2> QED                     BY <2>2
<1>2. CASE q < p
  <2>1. (q + 1) * b <= p * b  BY <1>2, MulMono
  <2>2. q * b + b <= p * b    BY <2>1
  <2> QED                     BY <2>2
<1>3. CASE p = q
  BY <1>3
<1> QED BY <1>1, <1>2, <1>3

(* The number of segments that cover cols columns is enough for each of them. *)
LEMMA CeilCovers ==
    ASSUME NEW n \in Nat \ {0}, NEW s \in Nat \ {0}, NEW c \in 0 .. n - 1
    PROVE  /\ n % s = 0 => c \div s < n \div s
           /\ c \div s <= n \div s
           /\ c \div s < (n + s - 1) \div s
<1> DEFINE q == c \div s
           d == n \div s
           e == (n + s - 1) \div s
<1>1. q \in Nat /\ d \in Nat /\ e \in Nat
  BY DivMod
<1>2. q * s <= c /\ c < n
  BY DivMod
<1>3. n = d * s + (n % s) /\ n % s \in 0 .. s - 1
  BY DivMod
<1>4. n + s - 1 = e * s + ((n + s - 1) % s) /\ (n + s - 1) % s \in 0 .. s - 1
  BY DivMod
<1> HIDE DEF q, d, e
<1>5. n % s = 0 => q < d
  <2>1. SUFFICES ASSUME n % s = 0, d <= q PROVE FALSE
    BY <1>1
  <2>2. d * s <= q * s  BY <2>1, <1>1, MulMono
  <2>3. d \in Int /\ q \in Int /\ d * s \in Int /\ q * s \in Int  BY <1>1
  <2> QED               BY <2>1, <2>2, <2>3, <1>2, <1>3
<1>6. q <= d
  <2>1. SUFFICES ASSUME d + 1 <= q PROVE FALSE
    BY <1>1
  <2>2. (d + 1) * s <= q * s  BY <2>1, <1>1, MulMono
  <2>3. (d + 1) * s = d * s + s  BY <1>1
  <2>4. d * s \in Int /\ q * s \in Int  BY <1>1
  <2> QED                     BY <2>2, <2>3, <2>4, <1>2, <1>3
<1>7. q < e
  <2>1. SUFFICES ASSUME e <= q PROVE FALSE
    BY <1>1
  <2>2. e * s <= q * s  BY <2>1, <1>1, MulMono
  <2>3. e * s \in Int /\ q * s \in Int  BY <1>1
  <2> QED               BY <2>2, <2>3, <1>2, <1>4
<1> QED BY <1>5, <1>6, <1>7 DEF q, d, e

(* Every column falls into one of the Spr segments of its row of segments. *)
LEMMA ColumnInRow ==
    ASSUME NEW c \in Cols
    PROVE  Spr \in Nat \ {0} /\ c \div SCols \in 0 .. Spr - 1
<1>1. /\ NCols \in Nat \ {0} /\ SCols \in Nat \ {0} /\ NCols \in Nat
      /\ c \in 0 .. NCols - 1 /\ c \in Nat
  BY SizesAssumption DEF Cols
<1>2. /\ NCols \div SCols \in Nat
      /\ c \div SCols \in Nat
  BY <1>1, DivMod
<1>3. /\ NCols % SCols = 0 => c \div SCols < NCols \div SCols
      /\ c \div SCols <= NCols \div SCols
  BY <1>1, CeilCovers
<1> QED BY <1>2, <1>3 DEF Spr

(* segment_address never leaves the formatted file. *)
THEOREM AddressesInFile == AddressInFile
<1> SUFFICES ASSUME NEW r \in Rows, NEW c \in Cols
             PROVE  SegNo(r, c) \in Segs /\ Index(r, c) \in Words
  BY DEF AddressInFile
<1>1. /\ NRows \in Nat \ {0} /\ SRows \in Nat \ {0} /\ SCols \in Nat \ {0}
      /\ r \in 0 .. NRows - 1 /\ r \in Nat /\ c \in Nat
  BY SizesAssumption DEF Rows, Cols
<1>2. Spr \in Nat \ {0} /\ c \div SCols \in 0 .. Spr - 1
  BY ColumnInRow
<1> DEFINE q == r \div SRows
           e == (NRows + SRows - 1) \div SRows
<1>3. q \in Nat /\ e \in Nat /\ q < e
  <2>1. NRows + SRows - 1 \in Nat
    BY <1>1
  <2>2. q \in Nat /\ e \in Nat
    BY <1>1, <2>1, DivMod
  <2>3. q < e
    BY <1>1, CeilCovers
  <2> QED BY <2>2, <2>3
<1>4. r % SRows \in 0 .. SRows - 1 /\ c % SCols \in 0 .. SCols - 1
  BY <1>1, DivMod
<1>5. SegNo(r, c) \in Segs
  <2> HIDE DEF q, e
  <2>1. (q + 1) * Spr <= e * Spr
    BY <1>2, <1>3, MulMono
  <2>2. (q + 1) * Spr = q * Spr + Spr /\ q * Spr \in Nat /\ e * Spr = Spr * e
    BY <1>2, <1>3
  <2>3. q * Spr + (c \div SCols) \in 0 .. (Spr * e) - 1
    BY <1>2, <1>3, <2>1, <2>2
  <2> QED BY <2>3 DEF SegNo, Segs, q, e
<1>6. Index(r, c) \in Words
  <2> DEFINE y == r % SRows
             z == c % SCols
  <2>0. y \in 0 .. SRows - 1 /\ z \in 0 .. SCols - 1
    BY <1>4
  <2> HIDE DEF y, z
  <2>1. (y + 1) * SCols <= SRows * SCols
    BY <1>1, <2>0, MulMono
  <2>2. (y + 1) * SCols = y * SCols + SCols /\ y * SCols \in Nat
    BY <1>1, <2>0
  <2>3. y * SCols + z \in 0 .. (SRows * SCols) - 1
    BY <1>1, <2>0, <2>1, <2>2
  <2> QED BY <2>3 DEF Index, Words, y, z
<1> QED BY <1>5, <1>6

(* segment_address never gives two cells the same place. *)
THEOREM AddressesDistinct == AddressInjective
<1> SUFFICES ASSUME NEW r1 \in Rows, NEW r2 \in Rows,
                    NEW c1 \in Cols, NEW c2 \in Cols,
                    SegNo(r1, c1) = SegNo(r2, c2), Index(r1, c1) = Index(r2, c2)
             PROVE  r1 = r2 /\ c1 = c2
  BY DEF AddressInjective
<1>1. /\ SRows \in Nat \ {0} /\ SCols \in Nat \ {0}
      /\ r1 \in Nat /\ r2 \in Nat /\ c1 \in Nat /\ c2 \in Nat
  BY SizesAssumption DEF Rows, Cols
<1>2. /\ r1 \div SRows = r2 \div SRows
      /\ c1 \div SCols = c2 \div SCols
  <2>1. /\ Spr \in Nat
        /\ c1 \div SCols \in 0 .. Spr - 1 /\ c2 \div SCols \in 0 .. Spr - 1
    BY ColumnInRow
  <2>2. r1 \div SRows \in Nat /\ r2 \div SRows \in Nat
    BY <1>1, DivMod
  <2>3. (r1 \div SRows) * Spr + (c1 \div SCols)
          = (r2 \div SRows) * Spr + (c2 \div SCols)
    BY DEF SegNo
  <2> QED BY <2>1, <2>2, <2>3, MixedRadix
<1>3. r1 % SRows = r2 % SRows /\ c1 % SCols = c2 % SCols
  <2>1. /\ r1 % SRows \in Nat /\ r2 % SRows \in Nat
        /\ c1 % SCols \in 0 .. SCols - 1 /\ c2 % SCols \in 0 .. SCols - 1
    BY <1>1, DivMod
  <2>2. (r1 % SRows) * SCols + (c1 % SCols) = (r2 % SRows) * SCols + (c2 % SCols)
    BY DEF Index
  <2> QED BY <1>1, <2>1, <2>2, MixedRadix
<1>4. r1 = r2
  BY <1>1, <1>2, <1>3, DivMod
<1>5. c1 = c2
  BY <1>1, <1>2, <1>3, DivMod
<1> QED BY <1>4, <1>5

-----------------------------------------------------------------------------

LEMMA CellPlace ==
    ASSUME NEW r \in Rows, NEW c \in Cols
    PROVE  SegNo(r, c) \in Segs /\ Index(r, c) \in Words /\ SegNo(r, c) # Free
  BY AddressesInFile DEF AddressInFile, Segs, Free

LEMMA FreshTyped == FreshControl \in Control
  BY SegmentAssumption DEF FreshControl, Control, Buffer, Word, Free

LEMMA PartlyTyped ==
    ASSUME NEW new \in Buffer, NEW old \in Buffer, NEW k
    PROVE  Partly(new, old, k) \in Buffer
  BY DEF Partly, Buffer

LEMMA SelectedTyped ==
    ASSUME NEW s \in [Slots -> Control], NEW i \in Slots
    PROVE  /\ Selected(s, i) \in [Slots -> Control]
           /\ \A j \in Slots : /\ Selected(s, i)[j].n = s[j].n
                               /\ Selected(s, i)[j].dirty = s[j].dirty
                               /\ Selected(s, i)[j].buf = s[j].buf
  BY DEF Selected, Control

LEMMA StoredTyped ==
    ASSUME NEW s \in [Slots -> Control], NEW i \in Slots, NEW x \in Words,
           NEW w \in Values \cup {NoWrite}
    PROVE  /\ Stored(s, i, x, w) \in [Slots -> Control]
           /\ \A j \in Slots : Stored(s, i, x, w)[j].n = s[j].n
           /\ \A j \in Slots \ {i} : Stored(s, i, x, w)[j] = s[j]
<1>1. CASE w = NoWrite
  BY <1>1 DEF Stored
<1>2. CASE w # NoWrite
  <2>1. w \in Word
    BY <1>2 DEF Word
  <2>2. [s[i].buf EXCEPT ![x] = w] \in Buffer
    BY <2>1 DEF Buffer, Control
  <2>3. [s[i] EXCEPT !.dirty = TRUE, !.buf[x] = w] \in Control
    BY <2>2 DEF Control
  <2> QED BY <1>2, <2>3 DEF Stored, Control
<1> QED BY <1>1, <1>2

LEMMA PagedOutTyped ==
    ASSUME TypeOK, NEW i \in Slots, NEW k, scb[i].n # Free
    PROVE  PagedOut(i, k) \in [Segs -> Buffer]
<1>1. scb[i].n \in Segs /\ scb[i].buf \in Buffer /\ file[scb[i].n] \in Buffer
  BY DEF TypeOK, Control
<1>2. Partly(scb[i].buf, file[scb[i].n], k) \in Buffer
  BY <1>1, PartlyTyped
<1> QED BY <1>1, <1>2 DEF PagedOut, TypeOK

LEMMA FileAfterEvictTyped ==
    ASSUME TypeOK, NEW i \in Slots
    PROVE  FileAfterEvict(i) \in [Segs -> Buffer]
  BY PagedOutTyped DEF FileAfterEvict, MustPageOut, TypeOK

LEMMA ReplyTyped ==
    /\ Ok(Nothing) \in [ok : BOOLEAN, cells : Cells]
    /\ Failed \in [ok : BOOLEAN, cells : Cells]
    /\ \A S \in SUBSET Cols : \A f \in [S -> Word] :
          Ok(f) \in [ok : BOOLEAN, cells : Cells]
<1>1. Nothing \in [{} -> Word]
  BY DEF Nothing
<1>2. Nothing \in Cells
  BY <1>1 DEF Cells
<1> QED BY <1>2 DEF Ok, Failed, Cells

LEMMA ReturnedTyped ==
    ASSUME NEW c \in Cols, NEW w, NEW word \in Word
    PROVE  Returned(c, w, word) \in [ok : BOOLEAN, cells : Cells]
<1>1. [d \in {c} |-> word] \in [{c} -> Word] /\ {c} \in SUBSET Cols
  OBVIOUS
<1> QED BY <1>1, ReplyTyped DEF Returned

-----------------------------------------------------------------------------
(***************************************************************************)
(* The inductive invariant of the cache under any order of calls.           *)
(***************************************************************************)
CacheInv == TypeOK /\ OneSlotPerSegment

LEMMA FreshInv ==
    ASSUME TypeOK,
           open' \in BOOLEAN, scb' = [i \in Slots |-> FreshControl], cur' = 0,
           file' = file, reply' = Ok(Nothing), faults' = faults
    PROVE  CacheInv'
<1>1. 0 \in Slots
  BY SegmentAssumption DEF Slots
<1>2. \A i \in Slots : scb'[i].n = Free
  BY DEF FreshControl
<1>3. OneSlotPerSegment'
  BY <1>2 DEF OneSlotPerSegment
<1> QED BY <1>1, <1>3, FreshTyped, ReplyTyped DEF CacheInv, TypeOK

LEMMA HitInv ==
    ASSUME CacheInv, NEW r \in Rows, NEW c \in Cols,
           NEW w \in Values \cup {NoWrite}, NEW i \in Slots,
           AccessHit(r, c, w, i)
    PROVE  CacheInv'
<1> DEFINE s == IF i = cur THEN scb ELSE Selected(scb, i)
           x == Index(r, c)
<1>1. x \in Words /\ scb \in [Slots -> Control]
  BY CellPlace DEF CacheInv, TypeOK
<1>2. s \in [Slots -> Control] /\ \A j \in Slots : s[j].n = scb[j].n
  BY <1>1, SelectedTyped
<1>3. scb' = Stored(s, i, x, w)
  BY DEF AccessHit
<1> HIDE DEF s
<1>4. scb' \in [Slots -> Control] /\ \A j \in Slots : scb'[j].n = scb[j].n
  BY <1>1, <1>2, <1>3, StoredTyped
<1>5. scb[i].buf[x] \in Word
  BY <1>1 DEF Control, Buffer
<1>6. reply' \in [ok : BOOLEAN, cells : Cells]
  BY <1>5, ReturnedTyped DEF AccessHit
<1>7. TypeOK'
  BY <1>4, <1>6 DEF AccessHit, NoFault, CacheInv, TypeOK
<1>8. OneSlotPerSegment'
  BY <1>4 DEF CacheInv, OneSlotPerSegment
<1> QED BY <1>7, <1>8 DEF CacheInv

(* Slot i, which held something else or nothing, is given segment n. *)
LEMMA ClaimedInv ==
    ASSUME CacheInv, NEW n \in Segs, ~Cached(n), NEW i \in Slots,
           scb' \in [Slots -> Control],
           scb'[i].n = n, \A j \in Slots \ {i} : scb'[j].n = scb[j].n
    PROVE  OneSlotPerSegment'
  BY DEF CacheInv, OneSlotPerSegment, Cached

LEMMA MissInv ==
    ASSUME CacheInv, NEW r \in Rows, NEW c \in Cols,
           NEW w \in Values \cup {NoWrite}, NEW i \in Slots,
           AccessMiss(r, c, w, i)
    PROVE  CacheInv'
<1> DEFINE n == SegNo(r, c)
           x == Index(r, c)
           loaded == [scb EXCEPT ![i] = [@ EXCEPT !.n = n, !.dirty = FALSE,
                                                  !.buf = file[n]]]
<1>1. n \in Segs /\ x \in Words /\ scb \in [Slots -> Control] /\ file[n] \in Buffer
  BY CellPlace DEF CacheInv, TypeOK
<1>2. [scb[i] EXCEPT !.n = n, !.dirty = FALSE, !.buf = file[n]] \in Control
  BY <1>1 DEF Control
<1>3. /\ loaded \in [Slots -> Control] /\ loaded[i].n = n
      /\ \A j \in Slots \ {i} : loaded[j].n = scb[j].n
  BY <1>1, <1>2 DEF Control
<1>4. scb' = Stored(Selected(loaded, i), i, x, w)
  BY DEF AccessMiss
<1> HIDE DEF loaded
<1>5. /\ Selected(loaded, i) \in [Slots -> Control]
      /\ \A j \in Slots : Selected(loaded, i)[j].n = loaded[j].n
  BY <1>3, SelectedTyped
<1>6. /\ scb' \in [Slots -> Control]
      /\ \A j \in Slots : scb'[j].n = loaded[j].n
  BY <1>1, <1>4, <1>5, StoredTyped
<1>7. file[n][x] \in Word
  BY <1>1 DEF Buffer
<1>8. reply' \in [ok : BOOLEAN, cells : Cells]
  BY <1>7, ReturnedTyped DEF AccessMiss
<1>9. file' \in [Segs -> Buffer]
  BY FileAfterEvictTyped DEF AccessMiss, CacheInv
<1>10. TypeOK'
  BY <1>6, <1>8, <1>9 DEF AccessMiss, NoFault, CacheInv, TypeOK
<1>11. OneSlotPerSegment'
  BY <1>1, <1>3, <1>6, ClaimedInv DEF AccessMiss
<1> QED BY <1>10, <1>11 DEF CacheInv

LEMMA EvictFailsInv ==
    ASSUME CacheInv, NEW r \in Rows, NEW c \in Cols, NEW i \in Slots,
           NEW k \in Words, AccessEvictFails(r, c, i, k)
    PROVE  CacheInv'
<1>1. file' \in [Segs -> Buffer]
  BY PagedOutTyped DEF AccessEvictFails, MustPageOut, CacheInv
<1>2. TypeOK'
  BY <1>1, ReplyTyped DEF AccessEvictFails, Fault, CacheInv, TypeOK
<1> QED BY <1>2 DEF AccessEvictFails, CacheInv, OneSlotPerSegment

LEMMA ReadFailsInv ==
    ASSUME CacheInv, NEW r \in Rows, NEW c \in Cols, NEW i \in Slots,
           NEW k \in Words, AccessReadFails(r, c, i, k)
    PROVE  CacheInv'
<1> DEFINE n == SegNo(r, c)
<1>1. n \in Segs /\ scb \in [Slots -> Control] /\ file[n] \in Buffer
  BY CellPlace DEF CacheInv, TypeOK
<1>2. Partly(file[n], scb[i].buf, k) \in Buffer
  BY <1>1, PartlyTyped DEF Control
<1>3. [scb[i] EXCEPT !.n = n, !.dirty = FALSE,
                     !.buf = Partly(file[n], scb[i].buf, k)] \in Control
  BY <1>1, <1>2 DEF Control
<1>4. /\ scb' \in [Slots -> Control] /\ scb'[i].n = n
      /\ \A j \in Slots \ {i} : scb'[j].n = scb[j].n
  BY <1>1, <1>3 DEF AccessReadFails, Control
<1>5. file' \in [Segs -> Buffer]
  BY FileAfterEvictTyped DEF AccessReadFails, CacheInv
<1>6. TypeOK'
  BY <1>4, <1>5, ReplyTyped DEF AccessReadFails, Fault, CacheInv, TypeOK
<1>7. OneSlotPerSegment'
  BY <1>1, <1>4, ClaimedInv DEF AccessReadFails
<1> QED BY <1>6, <1>7 DEF CacheInv

LEMMA FlushInv ==
    ASSUME CacheInv, NEW lost \in SUBSET Slots, NEW k \in Words, Flush(lost, k)
    PROVE  CacheInv'
<1>1. \A i \in Slots : [scb[i] EXCEPT !.dirty = FALSE] \in Control
  BY DEF CacheInv, TypeOK, Control
<1>2. scb' \in [Slots -> Control] /\ \A i \in Slots : scb'[i].n = scb[i].n
  BY <1>1 DEF Flush, CacheInv, TypeOK, Control
<1>3. file' \in [Segs -> Buffer]
  <2>1. ASSUME NEW n \in Segs, NEW i \in Slots, NEW m
        PROVE  Partly(scb[i].buf, file[n], m) \in Buffer
    BY PartlyTyped DEF CacheInv, TypeOK, Control
  <2>2. \A n \in Segs : file[n] \in Buffer
    BY DEF CacheInv, TypeOK
  <2> QED BY <2>1, <2>2 DEF Flush
<1>4. TypeOK'
  BY <1>2, <1>3, ReplyTyped DEF Flush, NoFault, Fault, CacheInv, TypeOK
<1>5. OneSlotPerSegment'
  BY <1>2 DEF CacheInv, OneSlotPerSegment
<1> QED BY <1>4, <1>5 DEF CacheInv

LEMMA RowPutTyped ==
    ASSUME TypeOK, NEW r \in Rows, NEW row \in [Cols -> Values], NEW m
    PROVE  RowPut(r, row, m) \in [Segs -> Buffer]
<1>1. ASSUME NEW n \in Segs, NEW x \in Words
      PROVE  (IF \E c \in Cols : c < m /\ SegNo(r, c) = n /\ Index(r, c) = x
              THEN row[CHOOSE c \in Cols : SegNo(r, c) = n /\ Index(r, c) = x]
              ELSE file[n][x]) \in Word
  BY DEF TypeOK, Buffer, Word
<1> QED BY <1>1 DEF RowPut, Buffer

LEMMA RowInv ==
    ASSUME CacheInv, NEW r \in Rows, NEW row \in [Cols -> Values],
           PutRow(r, row) \/ (\E m \in Cols : PutRowFails(r, row, m))
                          \/ GetRow(r) \/ GetRowFails
    PROVE  CacheInv'
<1>1. file' \in [Segs -> Buffer]
  BY RowPutTyped DEF PutRow, PutRowFails, GetRow, GetRowFails, CacheInv, TypeOK
<1>2. reply' \in [ok : BOOLEAN, cells : Cells]
  <2>1. [c \in Cols |-> file[SegNo(r, c)][Index(r, c)]] \in [Cols -> Word]
    BY CellPlace DEF CacheInv, TypeOK, Buffer
  <2> QED BY <2>1, ReplyTyped DEF PutRow, PutRowFails, GetRow, GetRowFails
<1>3. TypeOK'
  BY <1>1, <1>2
  DEF PutRow, PutRowFails, GetRow, GetRowFails, NoFault, Fault, CacheInv, TypeOK
<1> QED BY <1>3
        DEF PutRow, PutRowFails, GetRow, GetRowFails, CacheInv, OneSlotPerSegment

LEMMA InitInv == Init => CacheInv
<1> SUFFICES ASSUME Init PROVE CacheInv
  OBVIOUS
<1>1. 0 \in Slots
  BY SegmentAssumption DEF Slots
<1>2. file \in [Segs -> Buffer]
  BY SegmentAssumption DEF Init, Buffer, Word
<1>3. scb \in [Slots -> Control] /\ \A i \in Slots : scb[i].n = Free
  BY FreshTyped DEF Init, FreshControl
<1> QED BY <1>1, <1>2, <1>3, ReplyTyped
        DEF Init, CacheInv, TypeOK, OneSlotPerSegment

LEMMA AccessInv ==
    ASSUME CacheInv, NEW r \in Rows, NEW c \in Cols,
           NEW w \in Values \cup {NoWrite}, Access(r, c, w)
    PROVE  CacheInv'
  BY HitInv, MissInv, EvictFailsInv, ReadFailsInv DEF Access

LEMMA StepInv == CacheInv /\ [Next]_vars => CacheInv'
<1> SUFFICES ASSUME CacheInv, [Next]_vars PROVE CacheInv'
  OBVIOUS
<1>1. ASSUME NEW r \in Rows, NEW c \in Cols, Get(r, c) PROVE CacheInv'
  BY <1>1, AccessInv DEF Get
<1>2. ASSUME NEW r \in Rows, NEW c \in Cols, NEW v \in Values, Put(r, c, v)
      PROVE  CacheInv'
  BY <1>2, AccessInv DEF Put
<1>3. ASSUME NEW lost \in SUBSET Slots, NEW k \in Words, Flush(lost, k)
      PROVE  CacheInv'
  BY <1>3, FlushInv
<1>4. ASSUME NEW r \in Rows, NEW row \in [Cols -> Values],
             PutRow(r, row) \/ \E m \in Cols : PutRowFails(r, row, m)
      PROVE  CacheInv'
  BY <1>4, RowInv
<1>5. ASSUME NEW r \in Rows, GetRow(r) PROVE CacheInv'
  <2>1. [c \in Cols |-> Zero] \in [Cols -> Values]
    BY SegmentAssumption
  <2> QED BY <1>5, <2>1, RowInv
<1>6. CASE GetRowFails
  BY <1>6, ReplyTyped DEF GetRowFails, Fault, CacheInv, TypeOK, OneSlotPerSegment
<1>7. CASE Release
  BY <1>7, FreshInv DEF Release, NoFault, CacheInv
<1>8. CASE Reopen
  BY <1>8, FreshInv DEF Reopen, NoFault, CacheInv
<1>9. CASE UNCHANGED vars
  BY <1>9 DEF vars, CacheInv, TypeOK, OneSlotPerSegment
<1> QED BY <1>1, <1>2, <1>3, <1>4, <1>5, <1>6, <1>7, <1>8, <1>9 DEF Next

(* Every state of the segment library has the types of segment.h. *)
THEOREM SegmentTypeOK == Spec => []TypeOK
<1>1. CacheInv => TypeOK
  BY DEF CacheInv
<1> QED BY <1>1, InitInv, StepInv, PTL DEF Spec

(***************************************************************************)
(* No segment is ever in two slots, whatever the geometry, the number of    *)
(* slots, the order of the calls and the transfers that fail.               *)
(***************************************************************************)
THEOREM SegmentHeldOnce == Spec => []OneSlotPerSegment
<1>1. CacheInv => OneSlotPerSegment
  BY DEF CacheInv
<1> QED BY <1>1, InitInv, StepInv, PTL DEF Spec
=============================================================================

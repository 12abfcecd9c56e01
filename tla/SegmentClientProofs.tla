------------------------ MODULE SegmentClientProofs ------------------------
(***************************************************************************)
(* The segment library implements the matrix its callers see, for every     *)
(* geometry and number of slots, when no read and no write of a flush       *)
(* fails (a read that fails and a flush that fails break it: README).       *)
(***************************************************************************)
EXTENDS SegmentClient, SegmentProofs

-----------------------------------------------------------------------------
(* At most one slot per segment, for control blocks given as a value. *)
One(s) == \A i, j \in Slots : s[i].n = s[j].n /\ i # j => s[i].n = Free

LEMMA ValueInSlot ==
    ASSUME NEW s, NEW f, NEW n, NEW x, n # Free, One(s),
           NEW i \in Slots, s[i].n = n
    PROVE  ValueIn(s, f, n, x) = s[i].buf[x]
<1>1. \A j \in Slots : s[j].n = n => j = i
  BY DEF One
<1>2. (CHOOSE j \in Slots : s[j].n = n) = i
  BY <1>1
<1> QED BY <1>2 DEF ValueIn

LEMMA ValueOnFile ==
    ASSUME NEW s, NEW f, NEW n, NEW x, \A i \in Slots : s[i].n # n
    PROVE  ValueIn(s, f, n, x) = f[n][x]
  BY DEF ValueIn

(* The contents of slots and file that a value can come from are unchanged. *)
LEMMA ValueKept ==
    ASSUME NEW s, NEW f, NEW t, NEW g, NEW n, NEW x, n # Free,
           One(s), One(t),
           \A i \in Slots : s[i].n = t[i].n,
           \A i \in Slots : s[i].n = n => s[i].buf = t[i].buf,
           (\A i \in Slots : s[i].n # n) => f[n] = g[n]
    PROVE  ValueIn(s, f, n, x) = ValueIn(t, g, n, x)
<1>1. CASE \E i \in Slots : s[i].n = n
  <2>1. PICK i \in Slots : s[i].n = n
    BY <1>1
  <2>2. ValueIn(s, f, n, x) = s[i].buf[x]
    BY <2>1, ValueInSlot
  <2>3. ValueIn(t, g, n, x) = t[i].buf[x]
    BY <2>1, ValueInSlot
  <2> QED BY <2>1, <2>2, <2>3
<1>2. CASE \A i \in Slots : s[i].n # n
  BY <1>2, ValueOnFile
<1> QED BY <1>1, <1>2

-----------------------------------------------------------------------------
(* The inductive invariant: a word is in memory, or the file has it. *)
Coherent ==
    /\ CacheInv
    /\ accessed \in BOOLEAN /\ pending \in BOOLEAN
    /\ CleanSlotsMatchFile
    /\ NoDirtyUnlessPending
    /\ NothingCachedBeforeAccess

(* All the words of the matrix, before and after a step. *)
SameWords ==
    \A n \in Segs, x \in Words :
        ValueIn(scb', file', n, x) = ValueIn(scb, file, n, x)
WordPut(n, x, w) ==
    \A m \in Segs, y \in Words :
        ValueIn(scb', file', m, y) =
            IF m = n /\ y = x /\ w # NoWrite THEN w ELSE ValueIn(scb, file, m, y)

LEMMA SegsNotFree == Free \notin Segs
  BY DEF Segs, Free

LEMMA StoredWord ==
    ASSUME NEW s \in [Slots -> Control], NEW i \in Slots, NEW x \in Words,
           NEW w \in Values \cup {NoWrite}, NEW y \in Words
    PROVE  /\ Stored(s, i, x, w)[i].buf[y] =
                 IF y = x /\ w # NoWrite THEN w ELSE s[i].buf[y]
           /\ \A j \in Slots \ {i} : Stored(s, i, x, w)[j] = s[j]
           /\ Stored(s, i, x, w)[i].dirty = (s[i].dirty \/ w # NoWrite)
           /\ w = NoWrite => Stored(s, i, x, w) = s
<1>1. CASE w = NoWrite
  BY <1>1 DEF Stored, Control
<1>2. CASE w # NoWrite
  <2>1. s[i].buf \in [Words -> Word] /\ s[i] \in Control
    BY DEF Control, Buffer
  <2>2. [s[i].buf EXCEPT ![x] = w][y] = IF y = x THEN w ELSE s[i].buf[y]
    BY <2>1
  <2>3. Stored(s, i, x, w)[i] = [s[i] EXCEPT !.dirty = TRUE, !.buf[x] = w]
    BY <1>2 DEF Stored
  <2>4. /\ [s[i] EXCEPT !.dirty = TRUE, !.buf[x] = w].buf = [s[i].buf EXCEPT ![x] = w]
        /\ [s[i] EXCEPT !.dirty = TRUE, !.buf[x] = w].dirty = TRUE
    BY <2>1 DEF Control
  <2>5. \A j \in Slots \ {i} : Stored(s, i, x, w)[j] = s[j]
    BY <1>2 DEF Stored
  <2> QED BY <1>2, <2>2, <2>3, <2>4, <2>5
<1> QED BY <1>1, <1>2

LEMMA AllWordsPartly ==
    ASSUME NEW new \in Buffer, NEW old \in Buffer
    PROVE  Partly(new, old, AllWords) = new
<1>1. \A x \in Words : x < AllWords
  BY SizesAssumption DEF Words, AllWords
<1> QED BY <1>1 DEF Partly, Buffer

-----------------------------------------------------------------------------
(* A get or a put of a cell whose segment is in memory. *)
LEMMA HitCoherent ==
    ASSUME Coherent, NEW r \in Rows, NEW c \in Cols,
           NEW w \in Values \cup {NoWrite}, NEW i \in Slots,
           AccessHit(r, c, w, i),
           accessed' = TRUE, pending' = (pending \/ w # NoWrite)
    PROVE  /\ Coherent'
           /\ WordPut(SegNo(r, c), Index(r, c), w)
           /\ reply' = Returned(c, w, ValueIn(scb, file, SegNo(r, c), Index(r, c)))
<1> DEFINE n == SegNo(r, c)
           x == Index(r, c)
           s == IF i = cur THEN scb ELSE Selected(scb, i)
<1>1. /\ n \in Segs /\ x \in Words /\ n # Free
      /\ scb \in [Slots -> Control] /\ One(scb) /\ scb[i].n = n
      /\ file' = file /\ scb' = Stored(s, i, x, w)
  BY CellPlace DEF Coherent, CacheInv, TypeOK, OneSlotPerSegment, One, AccessHit, FoundIn
<1>2. /\ s \in [Slots -> Control]
      /\ \A j \in Slots : /\ s[j].n = scb[j].n /\ s[j].dirty = scb[j].dirty
                          /\ s[j].buf = scb[j].buf
  BY <1>1, SelectedTyped
<1> HIDE DEF n, x, s
<1>3. CacheInv'
  BY HitInv DEF Coherent
<1>4. One(scb')
  BY <1>3 DEF CacheInv, OneSlotPerSegment, One
<1>5. \A j \in Slots : scb'[j].n = scb[j].n
  BY <1>1, <1>2, StoredTyped
<1>6. \A j \in Slots \ {i} : scb'[j].buf = scb[j].buf /\ scb'[j].dirty = scb[j].dirty
  BY <1>1, <1>2, StoredTyped
<1>7. /\ \A y \in Words : scb'[i].buf[y] = IF y = x /\ w # NoWrite THEN w
                                          ELSE scb[i].buf[y]
      /\ scb'[i].dirty = (scb[i].dirty \/ w # NoWrite)
      /\ w = NoWrite => scb'[i].buf = scb[i].buf
  BY <1>1, <1>2, StoredWord
<1>8. WordPut(n, x, w)
  <2> SUFFICES ASSUME NEW m \in Segs, NEW y \in Words
               PROVE  ValueIn(scb', file', m, y) =
                        IF m = n /\ y = x /\ w # NoWrite THEN w
                        ELSE ValueIn(scb, file, m, y)
    BY DEF WordPut
  <2>1. m # Free
    BY SegsNotFree
  <2>2. CASE m = n
    <3>1. ValueIn(scb', file', m, y) = scb'[i].buf[y]
      BY <1>1, <1>4, <1>5, <2>2, ValueInSlot
    <3>2. ValueIn(scb, file, m, y) = scb[i].buf[y]
      BY <1>1, <2>2, ValueInSlot
    <3> QED BY <1>7, <2>2, <3>1, <3>2
  <2>3. CASE m # n
    <3>1. \A j \in Slots : scb'[j].n = m => scb'[j].buf = scb[j].buf
      BY <1>1, <1>5, <1>6, <2>3
    <3> QED BY <1>1, <1>4, <1>5, <2>1, <2>3, <3>1, ValueKept
  <2> QED BY <2>2, <2>3
<1>9. reply' = Returned(c, w, ValueIn(scb, file, n, x))
  <2>1. ValueIn(scb, file, n, x) = scb[i].buf[x]
    BY <1>1, ValueInSlot
  <2> QED BY <2>1 DEF AccessHit, x
<1>10. CleanSlotsMatchFile'
  <2> SUFFICES ASSUME NEW j \in Slots, scb'[j].n # Free, ~scb'[j].dirty
               PROVE  scb'[j].buf = file'[scb'[j].n]
    BY DEF CleanSlotsMatchFile
  <2>1. ~scb[j].dirty /\ scb'[j].buf = scb[j].buf
    BY <1>6, <1>7
  <2> QED BY <1>1, <1>5, <2>1 DEF Coherent, CleanSlotsMatchFile
<1>11. NoDirtyUnlessPending'
  BY <1>5, <1>6, <1>7 DEF Coherent, NoDirtyUnlessPending
<1>12. NothingCachedBeforeAccess'
  BY DEF NothingCachedBeforeAccess, AccessHit
<1>13. accessed' \in BOOLEAN /\ pending' \in BOOLEAN
  BY DEF Coherent
<1> QED BY <1>3, <1>8, <1>9, <1>10, <1>11, <1>12, <1>13 DEF Coherent, n, x

(* A get or a put of a cell whose segment has to be read. *)
LEMMA MissCoherent ==
    ASSUME Coherent, NEW r \in Rows, NEW c \in Cols,
           NEW w \in Values \cup {NoWrite}, NEW i \in Slots,
           AccessMiss(r, c, w, i),
           accessed' = TRUE, pending' = (pending \/ w # NoWrite)
    PROVE  /\ Coherent'
           /\ WordPut(SegNo(r, c), Index(r, c), w)
           /\ reply' = Returned(c, w, ValueIn(scb, file, SegNo(r, c), Index(r, c)))
<1> DEFINE n == SegNo(r, c)
           x == Index(r, c)
           v == scb[i].n
           loaded == [scb EXCEPT ![i] = [@ EXCEPT !.n = n, !.dirty = FALSE,
                                                  !.buf = file[n]]]
           s == Selected(loaded, i)
<1>1. /\ n \in Segs /\ x \in Words /\ n # Free
      /\ scb \in [Slots -> Control] /\ One(scb) /\ \A j \in Slots : scb[j].n # n
      /\ file \in [Segs -> Buffer]
      /\ file' = FileAfterEvict(i) /\ scb' = Stored(s, i, x, w)
  BY CellPlace
  DEF Coherent, CacheInv, TypeOK, OneSlotPerSegment, One, AccessMiss, Cached
<1>2. /\ [scb[i] EXCEPT !.n = n, !.dirty = FALSE, !.buf = file[n]] \in Control
      /\ [scb[i] EXCEPT !.n = n, !.dirty = FALSE, !.buf = file[n]].n = n
      /\ [scb[i] EXCEPT !.n = n, !.dirty = FALSE, !.buf = file[n]].dirty = FALSE
      /\ [scb[i] EXCEPT !.n = n, !.dirty = FALSE, !.buf = file[n]].buf = file[n]
  BY <1>1 DEF Control
<1>3. /\ loaded \in [Slots -> Control]
      /\ loaded[i].n = n /\ loaded[i].dirty = FALSE /\ loaded[i].buf = file[n]
      /\ \A j \in Slots \ {i} : loaded[j] = scb[j]
  BY <1>1, <1>2
<1> HIDE DEF n, x, loaded
<1>4. /\ s \in [Slots -> Control]
      /\ s[i].n = n /\ s[i].dirty = FALSE /\ s[i].buf = file[n]
      /\ \A j \in Slots \ {i} : /\ s[j].n = scb[j].n /\ s[j].dirty = scb[j].dirty
                                /\ s[j].buf = scb[j].buf
  BY <1>3, SelectedTyped
<1> HIDE DEF s
<1>5. CacheInv'
  BY MissInv DEF Coherent
<1>6. One(scb')
  BY <1>5 DEF CacheInv, OneSlotPerSegment, One
<1>7. /\ scb'[i].n = n
      /\ \A j \in Slots \ {i} : /\ scb'[j].n = scb[j].n /\ scb'[j].buf = scb[j].buf
                                /\ scb'[j].dirty = scb[j].dirty
  BY <1>1, <1>4, StoredTyped
<1>8. /\ \A y \in Words : scb'[i].buf[y] = IF y = x /\ w # NoWrite THEN w
                                          ELSE file[n][y]
      /\ scb'[i].dirty = (w # NoWrite)
      /\ w = NoWrite => scb'[i].buf = file[n]
  BY <1>1, <1>4, StoredWord
<1>9. /\ \A m \in Segs \ {v} : file'[m] = file[m]
      /\ v \in Segs => file'[v] = scb[i].buf
  <2>1. CASE MustPageOut(i)
    <3>1. v \in Segs /\ scb[i].buf \in Buffer /\ file[v] \in Buffer
      BY <1>1, <2>1 DEF MustPageOut, Control
    <3>2. file' = [file EXCEPT ![v] = Partly(scb[i].buf, file[v], AllWords)]
      BY <1>1, <2>1 DEF FileAfterEvict, PagedOut
    <3>3. Partly(scb[i].buf, file[v], AllWords) = scb[i].buf
      BY <3>1, AllWordsPartly
    <3> QED BY <1>1, <3>1, <3>2, <3>3
  <2>2. CASE ~MustPageOut(i)
    <3>1. file' = file
      BY <1>1, <2>2 DEF FileAfterEvict
    <3>2. v \in Segs => ~scb[i].dirty /\ v # Free
      BY <2>2, SegsNotFree DEF MustPageOut
    <3> QED BY <3>1, <3>2 DEF Coherent, CleanSlotsMatchFile
  <2> QED BY <2>1, <2>2
<1>10. v # n
  BY <1>1
<1>11. WordPut(n, x, w)
  <2> SUFFICES ASSUME NEW m \in Segs, NEW y \in Words
               PROVE  ValueIn(scb', file', m, y) =
                        IF m = n /\ y = x /\ w # NoWrite THEN w
                        ELSE ValueIn(scb, file, m, y)
    BY DEF WordPut
  <2>1. m # Free
    BY SegsNotFree
  <2>2. CASE m = n
    <3>1. ValueIn(scb', file', m, y) = scb'[i].buf[y]
      BY <1>1, <1>6, <1>7, <2>2, ValueInSlot
    <3>2. ValueIn(scb, file, m, y) = file[n][y]
      BY <1>1, <2>2, ValueOnFile
    <3> QED BY <1>8, <2>2, <3>1, <3>2
  <2>3. CASE m = v
    <3>1. \A j \in Slots : scb'[j].n # m
      BY <1>1, <1>7, <1>10, <2>1, <2>3 DEF One
    <3>2. ValueIn(scb', file', m, y) = file'[m][y]
      BY <3>1, ValueOnFile
    <3>3. ValueIn(scb, file, m, y) = scb[i].buf[y]
      BY <1>1, <2>1, <2>3, ValueInSlot
    <3> QED BY <1>9, <1>10, <2>3, <3>2, <3>3
  <2>4. CASE m # n /\ m # v
    <3>1. CASE \E j \in Slots : scb[j].n = m
      <4>1. PICK j \in Slots : scb[j].n = m
        BY <3>1
      <4>2. j # i
        BY <2>4, <4>1
      <4>3. scb'[j].n = m /\ scb'[j].buf = scb[j].buf
        BY <1>7, <4>1, <4>2
      <4>4. ValueIn(scb', file', m, y) = scb'[j].buf[y]
        BY <1>6, <2>1, <4>3, ValueInSlot
      <4>5. ValueIn(scb, file, m, y) = scb[j].buf[y]
        BY <1>1, <2>1, <4>1, ValueInSlot
      <4> QED BY <2>4, <4>3, <4>4, <4>5
    <3>2. CASE \A j \in Slots : scb[j].n # m
      <4>1. \A j \in Slots : scb'[j].n # m
        BY <1>7, <2>4, <3>2
      <4> QED BY <1>9, <2>4, <3>2, <4>1, ValueOnFile
    <3> QED BY <3>1, <3>2
  <2> QED BY <2>2, <2>3, <2>4
<1>12. reply' = Returned(c, w, ValueIn(scb, file, n, x))
  <2>1. ValueIn(scb, file, n, x) = file[n][x]
    BY <1>1, ValueOnFile
  <2> QED BY <2>1 DEF AccessMiss, n, x
<1>13. CleanSlotsMatchFile'
  <2> SUFFICES ASSUME NEW j \in Slots, scb'[j].n # Free, ~scb'[j].dirty
               PROVE  scb'[j].buf = file'[scb'[j].n]
    BY DEF CleanSlotsMatchFile
  <2>1. CASE j = i
    BY <1>1, <1>7, <1>8, <1>9, <1>10, <2>1
  <2>2. CASE j # i
    <3>1. scb[j].n # Free /\ ~scb[j].dirty /\ scb[j].n # v /\ scb[j].n \in Segs
      BY <1>1, <1>7, <2>2 DEF One, Control
    <3> QED BY <1>7, <1>9, <2>2, <3>1 DEF Coherent, CleanSlotsMatchFile
  <2> QED BY <2>1, <2>2
<1>14. NoDirtyUnlessPending'
  BY <1>7, <1>8 DEF Coherent, NoDirtyUnlessPending
<1>15. NothingCachedBeforeAccess'
  BY DEF NothingCachedBeforeAccess, AccessMiss
<1>16. accessed' \in BOOLEAN /\ pending' \in BOOLEAN
  BY DEF Coherent
<1> QED BY <1>5, <1>11, <1>12, <1>13, <1>14, <1>15, <1>16 DEF Coherent, n, x

(* A page-out that fails leaves the segment, still dirty, in its slot. *)
LEMMA EvictFailsCoherent ==
    ASSUME Coherent, NEW r \in Rows, NEW c \in Cols, NEW i \in Slots,
           NEW k \in Words, AccessEvictFails(r, c, i, k),
           accessed' = TRUE, pending' \in BOOLEAN, pending => pending'
    PROVE  Coherent' /\ SameWords
<1>1. /\ scb \in [Slots -> Control] /\ One(scb) /\ One(scb') /\ scb' = scb
      /\ file' = PagedOut(i, k)
  BY DEF Coherent, CacheInv, TypeOK, OneSlotPerSegment, One, AccessEvictFails
<1>2. /\ \A m \in Segs : m # scb[i].n => file'[m] = file[m]
      /\ scb[i].dirty /\ scb[i].n # Free
  BY <1>1 DEF PagedOut, AccessEvictFails, MustPageOut, Coherent, CacheInv, TypeOK
<1>3. SameWords
  <2> SUFFICES ASSUME NEW n \in Segs, NEW x \in Words
               PROVE  ValueIn(scb', file', n, x) = ValueIn(scb, file, n, x)
    BY DEF SameWords
  <2>1. n # Free
    BY SegsNotFree
  <2> QED BY <1>1, <1>2, <2>1, ValueKept
<1>4. CacheInv'
  BY EvictFailsInv DEF Coherent
<1>5. CleanSlotsMatchFile'
  BY <1>1, <1>2 DEF Coherent, CleanSlotsMatchFile, One, Control
<1>6. NoDirtyUnlessPending' /\ NothingCachedBeforeAccess' /\ accessed' \in BOOLEAN
  BY <1>1 DEF Coherent, NoDirtyUnlessPending, NothingCachedBeforeAccess, AccessEvictFails
<1> QED BY <1>3, <1>4, <1>5, <1>6 DEF Coherent

(* A flush whose writes all succeed. *)
LEMMA FlushCoherent ==
    ASSUME Coherent, NEW k \in Words, Flush({}, k),
           pending' = FALSE, accessed' = accessed
    PROVE  Coherent' /\ SameWords
<1>1. scb \in [Slots -> Control] /\ file \in [Segs -> Buffer] /\ One(scb)
  BY DEF Coherent, CacheInv, TypeOK, OneSlotPerSegment, One
<1>2. \A i \in Slots : /\ scb'[i].n = scb[i].n /\ scb'[i].buf = scb[i].buf
                       /\ scb'[i].n # Free => ~scb'[i].dirty
  BY <1>1 DEF Flush, MustPageOut, Control
<1>3. CacheInv'
  BY FlushInv DEF Coherent
<1>4. One(scb')
  BY <1>1, <1>2 DEF One
<1>5. ASSUME NEW i \in Slots, scb[i].n \in Segs
      PROVE  file'[scb[i].n] = scb[i].buf
  <2> DEFINE n == scb[i].n
             T == {j \in Slots : MustPageOut(j) /\ scb[j].n = n}
             p == CHOOSE j \in T : TRUE
  <2>1. n # Free
    BY <1>5, SegsNotFree
  <2>2. file'[n] = IF T = {} THEN file[n]
                   ELSE Partly(scb[p].buf, file[n], AllWords)
    BY <1>5 DEF Flush
  <2>3. CASE MustPageOut(i)
    <3>1. T = {i}
      BY <1>1, <2>1, <2>3 DEF One
    <3>2. p = i
      BY <3>1
    <3>3. scb[i].buf \in Buffer /\ file[n] \in Buffer
      BY <1>1, <1>5 DEF Control
    <3>4. Partly(scb[i].buf, file[n], AllWords) = scb[i].buf
      BY <3>3, AllWordsPartly
    <3> HIDE DEF T, p
    <3> QED BY <2>2, <3>1, <3>2, <3>4
  <2>4. CASE ~MustPageOut(i)
    <3>1. T = {}
      BY <1>1, <2>1, <2>4 DEF One
    <3>2. ~scb[i].dirty
      BY <2>1, <2>4 DEF MustPageOut
    <3>3. scb[i].buf = file[n]
      BY <2>1, <3>2 DEF Coherent, CleanSlotsMatchFile
    <3> HIDE DEF T, p
    <3> QED BY <2>2, <3>1, <3>3
  <2> QED BY <2>3, <2>4
<1>6. SameWords
  <2> SUFFICES ASSUME NEW n \in Segs, NEW x \in Words
               PROVE  ValueIn(scb', file', n, x) = ValueIn(scb, file, n, x)
    BY DEF SameWords
  <2>1. n # Free
    BY SegsNotFree
  <2>2. (\A i \in Slots : scb[i].n # n) => file'[n] = file[n]
    BY DEF Flush
  <2> QED BY <1>1, <1>2, <1>4, <2>1, <2>2, ValueKept
<1>7. CleanSlotsMatchFile'
  <2> SUFFICES ASSUME NEW i \in Slots, scb'[i].n # Free
               PROVE  scb'[i].buf = file'[scb'[i].n]
    BY DEF CleanSlotsMatchFile
  <2>1. scb[i].n \in Segs
    BY <1>1, <1>2 DEF Control
  <2> QED BY <1>2, <1>5, <2>1
<1>8. NoDirtyUnlessPending'
  BY <1>2 DEF NoDirtyUnlessPending
<1>9. NothingCachedBeforeAccess' /\ accessed' \in BOOLEAN
  BY <1>2 DEF Coherent, NothingCachedBeforeAccess, Flush
<1> QED BY <1>3, <1>6, <1>7, <1>8, <1>9 DEF Coherent

(* Rows are read and stored without disturbing what the cache holds. *)
LEMMA RowsCoherent ==
    ASSUME Coherent, CacheInv', scb' = scb, open' = open,
           file' = file \/ (~accessed /\ open),
           pending' = pending, accessed' = accessed
    PROVE  Coherent'
<1>1. CASE file' = file
  BY <1>1 DEF Coherent, CleanSlotsMatchFile, NoDirtyUnlessPending,
              NothingCachedBeforeAccess
<1>2. CASE ~accessed /\ open
  BY <1>2 DEF Coherent, CleanSlotsMatchFile, NoDirtyUnlessPending,
              NothingCachedBeforeAccess
<1> QED BY <1>1, <1>2

(* Releasing and initialising again: the file has everything. *)
LEMMA FreshCoherent ==
    ASSUME Coherent, CacheInv', file' = file,
           scb' = [i \in Slots |-> FreshControl],
           \A i \in Slots : scb[i].n # Free => ~scb[i].dirty,
           pending' = pending, accessed' \in BOOLEAN
    PROVE  Coherent' /\ SameWords
<1>1. \A i \in Slots : scb'[i].n = Free
  BY DEF FreshControl
<1>2. SameWords
  <2> SUFFICES ASSUME NEW n \in Segs, NEW x \in Words
               PROVE  ValueIn(scb', file', n, x) = ValueIn(scb, file, n, x)
    BY DEF SameWords
  <2>1. n # Free
    BY SegsNotFree
  <2>2. ValueIn(scb', file', n, x) = file[n][x]
    BY <1>1, <2>1, ValueOnFile
  <2>3. CASE \E i \in Slots : scb[i].n = n
    <3>1. PICK i \in Slots : scb[i].n = n
      BY <2>3
    <3>2. scb[i].buf = file[n]
      BY <2>1, <3>1 DEF Coherent, CleanSlotsMatchFile
    <3>3. One(scb)
      BY DEF Coherent, CacheInv, OneSlotPerSegment, One
    <3>4. ValueIn(scb, file, n, x) = scb[i].buf[x]
      BY <2>1, <3>1, <3>3, ValueInSlot
    <3> QED BY <2>2, <3>2, <3>4
  <2>4. CASE \A i \in Slots : scb[i].n # n
    BY <2>2, <2>4, ValueOnFile
  <2> QED BY <2>3, <2>4
<1>3. CleanSlotsMatchFile' /\ NoDirtyUnlessPending' /\ NothingCachedBeforeAccess'
  BY <1>1 DEF CleanSlotsMatchFile, NoDirtyUnlessPending, NothingCachedBeforeAccess
<1>4. pending' \in BOOLEAN
  BY DEF Coherent
<1> QED BY <1>2, <1>3, <1>4 DEF Coherent

-----------------------------------------------------------------------------
(* The words of the file are the values of the matrix.                      *)

LEMMA SameMatrix == ASSUME SameWords PROVE MatrixView' = MatrixView
<1>1. \A r \in Rows, c \in Cols : CellValue(r, c)' = CellValue(r, c)
  BY CellPlace DEF CellValue, SameWords
<1> QED BY <1>1 DEF MatrixView

LEMMA MatrixPut ==
    ASSUME NEW r \in Rows, NEW c \in Cols, NEW w, w # NoWrite,
           WordPut(SegNo(r, c), Index(r, c), w)
    PROVE  MatrixView' = [MatrixView EXCEPT ![r] = [@ EXCEPT ![c] = w]]
<1>1. ASSUME NEW p \in Rows, NEW q \in Cols
      PROVE  CellValue(p, q)' = IF p = r /\ q = c THEN w ELSE CellValue(p, q)
  <2>1. SegNo(p, q) = SegNo(r, c) /\ Index(p, q) = Index(r, c) <=> p = r /\ q = c
    BY AddressesDistinct DEF AddressInjective
  <2> QED BY <2>1, CellPlace DEF CellValue, WordPut
<1>2. MatrixView' = [p \in Rows |-> [q \in Cols |->
                       IF p = r /\ q = c THEN w ELSE CellValue(p, q)]]
  BY <1>1 DEF MatrixView
<1>3. [MatrixView EXCEPT ![r] = [@ EXCEPT ![c] = w]]
        = [p \in Rows |-> [q \in Cols |->
             IF p = r /\ q = c THEN w ELSE CellValue(p, q)]]
  BY DEF MatrixView
<1> QED BY <1>2, <1>3

LEMMA WordNotPut ==
    ASSUME NEW n, NEW x, WordPut(n, x, NoWrite)
    PROVE  SameWords
  BY DEF WordPut, SameWords

(* What segment_put_row writes, seen from the matrix. *)
LEMMA RowPutMatrix ==
    ASSUME NEW r \in Rows, NEW row \in [Cols -> Values], NEW m,
           \A i \in Slots : scb[i].n = Free, scb' = scb,
           file' = RowPut(r, row, m)
    PROVE  MatrixView' = M!RowWritten(r, row, m)
<1>1. ASSUME NEW p \in Rows, NEW q \in Cols
      PROVE  /\ CellValue(p, q) = file[SegNo(p, q)][Index(p, q)]
             /\ CellValue(p, q)' = file'[SegNo(p, q)][Index(p, q)]
  <2>1. \A i \in Slots : scb[i].n # SegNo(p, q)
    BY CellPlace
  <2>2. ValueIn(scb, file, SegNo(p, q), Index(p, q)) = file[SegNo(p, q)][Index(p, q)]
    BY <2>1, ValueOnFile
  <2>3. ValueIn(scb', file', SegNo(p, q), Index(p, q)) = file'[SegNo(p, q)][Index(p, q)]
    BY <2>1, ValueOnFile
  <2> QED BY <2>2, <2>3 DEF CellValue
<1>2. ASSUME NEW p \in Rows, NEW q \in Cols
      PROVE  CellValue(p, q)' = IF p = r /\ q < m THEN row[q] ELSE CellValue(p, q)
  <2> DEFINE n == SegNo(p, q)
             x == Index(p, q)
  <2>1. n \in Segs /\ x \in Words
    BY CellPlace
  <2>2. file'[n][x] =
          IF \E c \in Cols : c < m /\ SegNo(r, c) = n /\ Index(r, c) = x
          THEN row[CHOOSE c \in Cols : SegNo(r, c) = n /\ Index(r, c) = x]
          ELSE file[n][x]
    BY <2>1 DEF RowPut
  <2>3. \A c \in Cols : SegNo(r, c) = n /\ Index(r, c) = x <=> r = p /\ c = q
    BY AddressesDistinct DEF AddressInjective
  <2>4. CASE p = r /\ q < m
    <3>1. (CHOOSE c \in Cols : SegNo(r, c) = n /\ Index(r, c) = x) = q
      BY <2>3, <2>4
    <3> QED BY <1>1, <2>2, <2>3, <2>4, <3>1
  <2>5. CASE ~(p = r /\ q < m)
    BY <1>1, <2>2, <2>3, <2>5
  <2> QED BY <2>4, <2>5
<1>3. MatrixView' = [p \in Rows |-> [q \in Cols |->
                       IF p = r /\ q < m THEN row[q] ELSE CellValue(p, q)]]
  BY <1>2 DEF MatrixView
<1>4. M!RowWritten(r, row, m) = [p \in Rows |-> [q \in Cols |->
                       IF p = r /\ q < m THEN row[q] ELSE CellValue(p, q)]]
  BY DEF M!RowWritten, MatrixView, M!Cols, Cols
<1> QED BY <1>3, <1>4

-----------------------------------------------------------------------------
(* The failures the refinement excludes. *)
ReliableReads == "read" \notin FaultKinds /\ "flush" \notin FaultKinds

LEMMA ClientInitCoherent ==
    ClientInit => Coherent /\ M!Init
<1> SUFFICES ASSUME ClientInit PROVE Coherent /\ M!Init
  OBVIOUS
<1>1. CacheInv
  BY InitInv DEF ClientInit
<1>2. \A i \in Slots : scb[i].n = Free
  BY DEF ClientInit, Init, FreshControl
<1>3. Coherent
  BY <1>1, <1>2
  DEF Coherent, ClientInit, CleanSlotsMatchFile, NoDirtyUnlessPending,
      NothingCachedBeforeAccess
<1>4. \A r \in Rows, c \in Cols : CellValue(r, c) = Zero
  <2> SUFFICES ASSUME NEW r \in Rows, NEW c \in Cols PROVE CellValue(r, c) = Zero
    OBVIOUS
  <2>1. \A i \in Slots : scb[i].n # SegNo(r, c)
    BY <1>2, CellPlace
  <2>2. CellValue(r, c) = file[SegNo(r, c)][Index(r, c)]
    BY <2>1, ValueOnFile DEF CellValue
  <2> QED BY <2>2, CellPlace DEF ClientInit, Init
<1>5. M!Init
  BY <1>4 DEF M!Init, MatrixView, M!Rows, M!Cols, Rows, Cols, ClientInit, Init,
              M!Ok, M!Nothing, Ok, Nothing
<1> QED BY <1>3, <1>5

(* A get or a put is one of the matrix, or fails. *)
LEMMA AccessImplements ==
    ASSUME ReliableReads, Coherent, NEW r \in Rows, NEW c \in Cols,
           NEW w \in Values \cup {NoWrite}, Access(r, c, w),
           accessed' = TRUE, pending' = (pending \/ w # NoWrite)
    PROVE  Coherent' /\ M!Next
<1>1. PICK i \in Slots :
          \/ AccessHit(r, c, w, i)
          \/ AccessMiss(r, c, w, i)
          \/ \E k \in Words : AccessEvictFails(r, c, i, k) \/ AccessReadFails(r, c, i, k)
  BY DEF Access
<1>2. CASE AccessHit(r, c, w, i) \/ AccessMiss(r, c, w, i)
  <2>1. /\ Coherent'
        /\ WordPut(SegNo(r, c), Index(r, c), w)
        /\ reply' = Returned(c, w, CellValue(r, c))
    BY <1>2, HitCoherent, MissCoherent DEF CellValue
  <2>2. CASE w = NoWrite
    <3>1. MatrixView' = MatrixView
      BY <2>1, <2>2, WordNotPut, SameMatrix
    <3>2. MatrixView[r][c] = CellValue(r, c)
      BY DEF MatrixView
    <3>3. M!Get(r, c)
      BY <2>1, <2>2, <3>1, <3>2 DEF M!Get, Returned, M!Ok, Ok
    <3> QED BY <2>1, <3>3 DEF M!Next, M!Rows, M!Cols, Rows, Cols
  <2>3. CASE w # NoWrite
    <3>1. MatrixView' = [MatrixView EXCEPT ![r] = [@ EXCEPT ![c] = w]]
      BY <2>1, <2>3, MatrixPut
    <3>2. M!Put(r, c, w)
      BY <2>1, <2>3, <3>1 DEF M!Put, Returned, M!Ok, M!Nothing, Ok, Nothing
    <3> QED BY <2>1, <2>3, <3>2 DEF M!Next, M!Rows, M!Cols, Rows, Cols
  <2> QED BY <2>2, <2>3
<1>3. ASSUME NEW k \in Words, AccessEvictFails(r, c, i, k) PROVE Coherent' /\ M!Next
  <2>1. Coherent' /\ SameWords
    BY <1>3, EvictFailsCoherent DEF Coherent
  <2>2. MatrixView' = MatrixView
    BY <2>1, SameMatrix
  <2>3. M!Fail
    BY <1>3, <2>2 DEF M!Fail, AccessEvictFails, M!Failed, Failed, M!Nothing, Nothing
  <2> QED BY <2>1, <2>3 DEF M!Next
<1>4. ASSUME NEW k \in Words, AccessReadFails(r, c, i, k) PROVE FALSE
  BY <1>4 DEF AccessReadFails, Fault, ReliableReads
<1> QED BY <1>1, <1>2, <1>3, <1>4

LEMMA FlushImplements ==
    ASSUME ReliableReads, Coherent, NEW lost \in SUBSET Slots, NEW k \in Words,
           ClientFlush(lost, k)
    PROVE  Coherent' /\ M!Next
<1>1. lost = {}
  BY DEF ClientFlush, Flush, Fault, ReliableReads
<1>2. Coherent' /\ SameWords
  BY <1>1, FlushCoherent DEF ClientFlush
<1>3. MatrixView' = MatrixView
  BY <1>2, SameMatrix
<1>4. M!Housekeeping
  BY <1>3 DEF M!Housekeeping, ClientFlush, Flush, M!Ok, M!Nothing, Ok, Nothing
<1> QED BY <1>2, <1>4 DEF M!Next

LEMMA PutRowImplements ==
    ASSUME Coherent, NEW r \in Rows, NEW row \in [Cols -> Values],
           ClientPutRow(r, row)
    PROVE  Coherent' /\ M!Next
<1>1. CacheInv'
  BY RowInv DEF ClientPutRow, Coherent
<1>2. Coherent'
  BY <1>1, RowsCoherent DEF ClientPutRow, PutRow, PutRowFails
<1>3. \A i \in Slots : scb[i].n = Free
  BY DEF ClientPutRow, Coherent, NothingCachedBeforeAccess
<1>4. CASE PutRow(r, row)
  <2>1. MatrixView' = M!RowWritten(r, row, NCols)
    BY <1>3, <1>4, RowPutMatrix DEF PutRow
  <2>2. M!PutRow(r, row)
    BY <1>4, <2>1 DEF M!PutRow, PutRow, M!Ok, M!Nothing, Ok, Nothing
  <2> QED BY <1>2, <2>2 DEF M!Next, M!Rows, M!Cols, Rows, Cols
<1>5. ASSUME NEW m \in Cols, PutRowFails(r, row, m) PROVE Coherent' /\ M!Next
  <2>1. MatrixView' = M!RowWritten(r, row, m)
    BY <1>3, <1>5, RowPutMatrix DEF PutRowFails
  <2>2. M!PutRowFails(r, row, m)
    BY <1>5, <2>1 DEF M!PutRowFails, PutRowFails, M!Failed, M!Nothing, Failed, Nothing
  <2> QED BY <1>2, <2>2 DEF M!Next, M!Rows, M!Cols, Rows, Cols
<1> QED BY <1>4, <1>5 DEF ClientPutRow

(* With everything flushed, the file has every word of the matrix. *)
LEMMA FileIsMatrix ==
    ASSUME Coherent, ~pending, NEW r \in Rows, NEW c \in Cols
    PROVE  file[SegNo(r, c)][Index(r, c)] = MatrixView[r][c]
<1> DEFINE n == SegNo(r, c)
           x == Index(r, c)
<1>1. n \in Segs /\ n # Free
  BY CellPlace
<1>2. MatrixView[r][c] = ValueIn(scb, file, n, x)
  BY DEF MatrixView, CellValue
<1>3. CASE \E i \in Slots : scb[i].n = n
  <2>1. PICK i \in Slots : scb[i].n = n
    BY <1>3
  <2>2. scb[i].buf = file[n]
    BY <1>1, <2>1 DEF Coherent, CleanSlotsMatchFile, NoDirtyUnlessPending
  <2>3. One(scb)
    BY DEF Coherent, CacheInv, OneSlotPerSegment, One
  <2>4. ValueIn(scb, file, n, x) = scb[i].buf[x]
    BY <1>1, <2>1, <2>3, ValueInSlot
  <2> QED BY <1>2, <2>2, <2>4
<1>4. CASE \A i \in Slots : scb[i].n # n
  BY <1>2, <1>4, ValueOnFile
<1> QED BY <1>3, <1>4

LEMMA GetRowImplements ==
    ASSUME Coherent, NEW r \in Rows, ClientGetRow(r)
    PROVE  Coherent' /\ M!Next
<1>1. CacheInv'
  <2>1. [c \in Cols |-> Zero] \in [Cols -> Values]
    BY SegmentAssumption
  <2> QED BY <2>1, RowInv DEF ClientGetRow, Coherent
<1>2. Coherent'
  BY <1>1, RowsCoherent DEF ClientGetRow, GetRow, GetRowFails
<1>3. SameWords
  BY DEF SameWords, ClientGetRow, GetRow, GetRowFails
<1>4. MatrixView' = MatrixView
  BY <1>3, SameMatrix
<1>5. CASE GetRow(r)
  <2>1. \A c \in Cols : file[SegNo(r, c)][Index(r, c)] = MatrixView[r][c]
    BY FileIsMatrix DEF ClientGetRow
  <2>2. MatrixView[r] = [c \in Cols |-> MatrixView[r][c]]
    BY DEF MatrixView
  <2>3. reply' = Ok(MatrixView[r])
    BY <1>5, <2>1, <2>2 DEF GetRow
  <2>4. M!GetRow(r)
    BY <1>4, <2>3 DEF M!GetRow, M!Ok, Ok
  <2> QED BY <1>2, <2>4 DEF M!Next, M!Rows, Rows
<1>6. CASE GetRowFails
  <2>1. M!Fail
    BY <1>4, <1>6 DEF M!Fail, GetRowFails, M!Failed, Failed, M!Nothing, Nothing
  <2> QED BY <1>2, <2>1 DEF M!Next
<1> QED BY <1>5, <1>6 DEF ClientGetRow

LEMMA SessionImplements ==
    ASSUME Coherent, ClientRelease \/ ClientReopen
    PROVE  Coherent' /\ M!Next
<1>1. CacheInv'
  BY FreshInv DEF Coherent, CacheInv, ClientRelease, ClientReopen, Release, Reopen, NoFault
<1>2. \A i \in Slots : scb[i].n # Free => ~scb[i].dirty
  BY DEF Coherent, ClientRelease, ClientReopen, NoDirtyUnlessPending, Reopen,
         NothingCachedBeforeAccess
<1>3. accessed' \in BOOLEAN
  BY DEF Coherent, ClientRelease, ClientReopen
<1>4. Coherent' /\ SameWords
  BY <1>1, <1>2, <1>3, FreshCoherent DEF ClientRelease, ClientReopen, Release, Reopen
<1>5. MatrixView' = MatrixView
  BY <1>4, SameMatrix
<1>6. M!Housekeeping
  BY <1>5 DEF M!Housekeeping, ClientRelease, ClientReopen, Release, Reopen,
              M!Ok, M!Nothing, Ok, Nothing
<1> QED BY <1>4, <1>6 DEF M!Next

LEMMA StepImplements ==
    ASSUME ReliableReads
    PROVE  Coherent /\ [ClientNext]_clientVars
              => Coherent' /\ [M!Next]_<<MatrixView, reply>>
<1> SUFFICES ASSUME Coherent, [ClientNext]_clientVars
             PROVE  Coherent' /\ [M!Next]_<<MatrixView, reply>>
  OBVIOUS
<1>1. ASSUME NEW r \in Rows, NEW c \in Cols, ClientGet(r, c)
      PROVE  Coherent' /\ M!Next
  <2>1. pending' = (pending \/ NoWrite # NoWrite)
    BY <1>1 DEF ClientGet, Coherent
  <2> QED BY <1>1, <2>1, AccessImplements DEF ClientGet, Get
<1>2. ASSUME NEW r \in Rows, NEW c \in Cols, NEW v \in Values, ClientPut(r, c, v)
      PROVE  Coherent' /\ M!Next
  <2>1. pending' = (pending \/ v # NoWrite)
    BY <1>2, SegmentAssumption DEF ClientPut
  <2> QED BY <1>2, <2>1, AccessImplements DEF ClientPut, Put
<1>3. ASSUME NEW lost \in SUBSET Slots, NEW k \in Words, ClientFlush(lost, k)
      PROVE  Coherent' /\ M!Next
  BY <1>3, FlushImplements
<1>4. ASSUME NEW r \in Rows, NEW row \in [Cols -> Values], ClientPutRow(r, row)
      PROVE  Coherent' /\ M!Next
  BY <1>4, PutRowImplements
<1>5. ASSUME NEW r \in Rows, ClientGetRow(r) PROVE Coherent' /\ M!Next
  BY <1>5, GetRowImplements
<1>6. CASE ClientRelease \/ ClientReopen
  BY <1>6, SessionImplements
<1>7. CASE UNCHANGED clientVars
  <2>1. SameWords
    BY <1>7 DEF clientVars, vars, SameWords
  <2>2. MatrixView' = MatrixView
    BY <2>1, SameMatrix
  <2>3. Coherent'
    BY <1>7 DEF clientVars, vars, Coherent, CacheInv, TypeOK, OneSlotPerSegment,
                CleanSlotsMatchFile, NoDirtyUnlessPending, NothingCachedBeforeAccess
  <2> QED BY <1>7, <2>2, <2>3 DEF clientVars, vars
<1> QED BY <1>1, <1>2, <1>3, <1>4, <1>5, <1>6, <1>7 DEF ClientNext

(***************************************************************************)
(* Under its callers' discipline the cache never loses or mixes up a value: *)
(* the segment library implements the matrix.                               *)
(***************************************************************************)
THEOREM SegmentImplementsMatrix ==
    ASSUME ReliableReads PROVE ClientSpec => ImplementsMatrix
<1>1. ClientInit => Coherent /\ M!Init
  BY ClientInitCoherent
<1>2. Coherent /\ [ClientNext]_clientVars
         => Coherent' /\ [M!Next]_<<MatrixView, reply>>
  BY StepImplements
<1> QED BY <1>1, <1>2, PTL DEF ClientSpec, ImplementsMatrix, M!Spec

(***************************************************************************)
(* Reusing a clean slot without writing it loses nothing, for every         *)
(* geometry and number of slots.                                            *)
(***************************************************************************)
THEOREM SegmentCleanSlots ==
    ASSUME ReliableReads PROVE ClientSpec => []CleanSlotsMatchFile
<1>1. Coherent => CleanSlotsMatchFile
  BY DEF Coherent
<1>2. Coherent /\ [ClientNext]_clientVars => Coherent'
  BY StepImplements
<1> QED BY <1>1, <1>2, ClientInitCoherent, PTL DEF ClientSpec

(***************************************************************************)
(* After a flush the file alone holds the matrix, until the next put.       *)
(***************************************************************************)
THEOREM SegmentFlushedFile ==
    ASSUME ReliableReads PROVE ClientSpec => []FlushedFileIsWhole
<1>1. Coherent => FlushedFileIsWhole
  BY DEF Coherent, NoDirtyUnlessPending, CleanSlotsMatchFile, FlushedFileIsWhole
<1>2. Coherent /\ [ClientNext]_clientVars => Coherent'
  BY StepImplements
<1> QED BY <1>1, <1>2, ClientInitCoherent, PTL DEF ClientSpec

-----------------------------------------------------------------------------
(***************************************************************************)
(* The ages.  The slot last selected is of age 1 and every other one that   *)
(* holds a segment is older; a segment is in a slot only once it was        *)
(* selected, as long as no read fails.                                      *)
(***************************************************************************)
Aged(s, k) == \A i \in Slots : s[i].n # Free => IF i = k THEN s[i].age = 1 ELSE s[i].age > 1
AgesInv == CacheInv /\ Aged(scb, cur)

(* What a step does to the segment of the last selection.                   *)
Keeps == NSeg > 1 /\ open /\ open' /\ scb[cur].n # Free => scb'[cur].n = scb[cur].n

(* A get or a put.                                                          *)
LEMMA AccessAged ==
    ASSUME AgesInv, "read" \notin FaultKinds, NEW r \in Rows, NEW c \in Cols,
           NEW w \in Values \cup {NoWrite}, Access(r, c, w)
    PROVE  Aged(scb', cur') /\ Keeps
<1> DEFINE n == SegNo(r, c)
           x == Index(r, c)
<1>1. /\ n \in Segs /\ x \in Words /\ n # Free /\ cur \in Slots /\ scb \in [Slots -> Control]
      /\ file \in [Segs -> Buffer]
  BY CellPlace DEF AgesInv, CacheInv, TypeOK
<1>2. \A i \in Slots : scb[i].age \in Nat /\ (scb[i].n # Free => scb[i].age >= 1)
  BY <1>1 DEF AgesInv, Aged, Control
<1> HIDE DEF n, x
<1>3. ASSUME NEW i \in Slots, NEW s \in [Slots -> Control], scb' = Stored(Selected(s, i), i, x, w), cur' = i,
             \A j \in Slots \ {i} : s[j] = scb[j]
      PROVE  Aged(scb', cur')
  <2>1. \A j \in Slots : Selected(s, i)[j].age = IF j = i THEN 1 ELSE s[j].age + 1
    BY DEF Selected, Control
  <2>2. \A j \in Slots : scb'[j].n = s[j].n /\ scb'[j].age = Selected(s, i)[j].age
    BY <1>1, <1>3, SelectedTyped DEF Stored, Control
  <2> QED BY <1>2, <1>3, <2>1, <2>2 DEF Aged
<1>4. ASSUME NEW i \in Slots, AccessHit(r, c, w, i) PROVE Aged(scb', cur') /\ Keeps
  <2>1. /\ cur' = i /\ scb[i].n = n
        /\ scb' = Stored(IF i = cur THEN scb ELSE Selected(scb, i), i, x, w)
    BY <1>4 DEF AccessHit, FoundIn, n, x
  <2>2. \A j \in Slots : scb'[j].n = scb[j].n
    <3> DEFINE t == IF i = cur THEN scb ELSE Selected(scb, i)
    <3>1. t \in [Slots -> Control] /\ \A j \in Slots : t[j].n = scb[j].n
      BY <1>1, SelectedTyped
    <3>2. scb' = Stored(t, i, x, w)
      BY <2>1
    <3> HIDE DEF t
    <3> QED BY <1>1, <3>1, <3>2, StoredTyped
  <2>3. CASE i = cur
    <3>1. \A j \in Slots : scb'[j].age = scb[j].age
      BY <1>1, <2>1, <2>3 DEF Stored, Control
    <3> QED BY <1>1, <2>1, <2>2, <2>3, <3>1 DEF AgesInv, Aged, Keeps
  <2>4. CASE i # cur
    BY <1>1, <1>3, <2>1, <2>2, <2>4 DEF Keeps
  <2> QED BY <2>3, <2>4
<1>5. ASSUME NEW i \in Slots, AccessMiss(r, c, w, i) PROVE Aged(scb', cur') /\ Keeps
  <2> DEFINE s == [scb EXCEPT ![i] = [@ EXCEPT !.n = n, !.dirty = FALSE, !.buf = file[n]]]
  <2>1. cur' = i /\ IsVictim(i) /\ scb' = Stored(Selected(s, i), i, x, w)
    BY <1>5 DEF AccessMiss, n, x
  <2>2. s \in [Slots -> Control] /\ \A j \in Slots \ {i} : s[j] = scb[j]
    BY <1>1 DEF Control
  <2> HIDE DEF s
  <2>3. Aged(scb', cur')
    BY <1>3, <2>1, <2>2
  <2>4. NSeg > 1 /\ scb[cur].n # Free => i # cur
    <3>1. SUFFICES ASSUME NSeg > 1, scb[cur].n # Free, i = cur PROVE FALSE
      OBVIOUS
    <3>2. ~HasFreeSlot
      BY <2>1, <3>1 DEF IsVictim
    <3>3. PICK j \in Slots : j # cur
      BY <1>1, <3>1, SegmentAssumption DEF Slots
    <3>4. scb[j].age > 1 /\ scb[cur].age = 1
      BY <1>1, <3>1, <3>2, <3>3 DEF HasFreeSlot, AgesInv, Aged
    <3> QED BY <1>2, <2>1, <3>1, <3>2, <3>3, <3>4 DEF IsVictim
  <2>5. \A j \in Slots \ {i} : scb'[j].n = scb[j].n
    <3>1. /\ Selected(s, i) \in [Slots -> Control]
          /\ \A j \in Slots \ {i} : Selected(s, i)[j].n = scb[j].n
      BY <2>2, SelectedTyped
    <3> QED BY <1>1, <2>1, <3>1, StoredTyped
  <2> QED BY <1>1, <2>3, <2>4, <2>5 DEF Keeps
<1>6. ASSUME NEW i \in Slots, NEW k \in Words, AccessEvictFails(r, c, i, k) PROVE Aged(scb', cur') /\ Keeps
  BY <1>6 DEF AccessEvictFails, AgesInv, Keeps
<1>7. ASSUME NEW i \in Slots, NEW k \in Words, AccessReadFails(r, c, i, k) PROVE FALSE
  BY <1>7 DEF AccessReadFails, Fault
<1> QED BY <1>4, <1>5, <1>6, <1>7 DEF Access

LEMMA StepAged ==
    ASSUME AgesInv, "read" \notin FaultKinds, [Next]_vars
    PROVE  AgesInv' /\ Keeps
<1>1. CacheInv'
  BY StepInv DEF AgesInv
<1>2. ASSUME NEW r \in Rows, NEW c \in Cols, NEW w \in Values \cup {NoWrite}, Access(r, c, w)
      PROVE  Aged(scb', cur') /\ Keeps
  BY <1>2, AccessAged
<1>3. CASE UNCHANGED <<scb, cur>>
  BY <1>1, <1>3 DEF AgesInv, Keeps
<1>4. ASSUME NEW lost \in SUBSET Slots, NEW k \in Words, Flush(lost, k)
      PROVE  Aged(scb', cur') /\ Keeps
  <2>1. scb \in [Slots -> Control] /\ cur \in Slots /\ cur' = cur
    BY <1>4 DEF AgesInv, CacheInv, TypeOK, Flush
  <2>2. \A i \in Slots : scb'[i].n = scb[i].n /\ scb'[i].age = scb[i].age
    BY <1>4, <2>1 DEF Flush, Control
  <2> QED BY <2>1, <2>2 DEF AgesInv, Aged, Keeps
<1>5. CASE Release \/ Reopen
  BY <1>1, <1>5 DEF AgesInv, Release, Reopen, FreshControl, Aged, Keeps
<1>6. CASE Next
  BY <1>1, <1>2, <1>3, <1>4, <1>5, <1>6 DEF AgesInv, Next, Get, Put, PutRow, PutRowFails, GetRow, GetRowFails
<1> QED BY <1>1, <1>3, <1>6 DEF vars, AgesInv

(* A step of a caller is one of the library.                                *)
LEMMA ClientSteps == ASSUME [ClientNext]_clientVars PROVE [Next]_vars
<1>1. CASE UNCHANGED clientVars
  BY <1>1 DEF clientVars
<1>2. CASE ClientNext
  BY <1>2 DEF ClientNext, ClientGet, ClientPut, ClientFlush, ClientPutRow, ClientGetRow, ClientRelease,
              ClientReopen, Next
<1> QED BY <1>1, <1>2

(***************************************************************************)
(* The segment last selected stays when another one is paged in             *)
(* (segment_select and the search for the oldest in segment_pagein), for    *)
(* two slots or more, whichever page-outs and flushes fail.  A read that    *)
(* fails leaves a slot that holds a segment and was not selected.           *)
(***************************************************************************)
THEOREM SegmentLastKept ==
    ASSUME "read" \notin FaultKinds PROVE ClientSpec => LastSelectedIsKept
<1>1. ClientInit => AgesInv
  <2>1. Init => \A i \in Slots : scb[i].n = Free
    BY DEF Init, FreshControl
  <2> QED BY <2>1, InitInv DEF ClientInit, AgesInv, Aged
<1>2. AgesInv /\ [ClientNext]_clientVars => AgesInv' /\ [Keeps]_clientVars
  BY ClientSteps, StepAged
<1>3. ClientSpec => [][Keeps]_clientVars
  BY <1>1, <1>2, PTL DEF ClientSpec
<1> QED BY <1>3 DEF LastSelectedIsKept, Keeps
=============================================================================

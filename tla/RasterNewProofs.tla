-------------------------- MODULE RasterNewProofs --------------------------
(* Theorems about RasterNew, and about RasterReader with it, for any number *)
(* of rows, any window and any region.                                      *)
EXTENDS RasterReader, TLAPS

(* With the window moved on, the row falls in it. *)
LEMMA WindowMoves ==
    ASSUME TypeOK, minNull + NullRowsInMem <= nullRow
    PROVE  /\ nullRow = minNull + NullRowsInMem
           /\ nullRow - (minNull + NullRowsInMem) = 0
           /\ 0 \in Window
  BY RasterNewAssumption DEF TypeOK, Window

LEMMA PutNullTypeOK ==
    ASSUME TypeOK, NEW content \in Content, PutNull(content)
    PROVE  /\ nullRow' \in {nullRow, nullRow + 1}
           /\ minNull' \in Int /\ minNull' <= nullRow' /\ nullRow' <= minNull' + NullRowsInMem
           /\ window' \in [Window -> Content]
           /\ nulls' \in [Rows -> Content]
           /\ reply' \in {1, -1}
           /\ troubles' \subseteq FaultKinds /\ faults' \in 0 .. MaxFaults
  <1>1. CASE NullKept(content)
    BY <1>1, RasterNewAssumption DEF TypeOK, NullKept, NoFault, Window, Rows
  <1>n. ASSUME NEW rs \in SUBSET Rows, rs \subseteq Held
        PROVE  NullsWith(rs) \in [Rows -> Content]
    BY <1>n, RasterNewAssumption DEF TypeOK, NullsWith, Held
  <1>2. CASE NullMoved(content)
    <2>1. window' \in [Window -> Content]
      BY <1>2, WindowMoves DEF NullMoved, TypeOK
    <2>2. nulls' \in [Rows -> Content]
      BY <1>2, <1>n DEF NullMoved, TypeOK, Held
    <2> QED
      BY <1>2, <2>1, <2>2, WindowMoves, RasterNewAssumption DEF NullMoved, TypeOK, NoFault
  <1>3. ASSUME NEW written \in Window, NullLost(written)
        PROVE  nulls' \in [Rows -> Content] /\ faults' \in 0 .. MaxFaults
    BY <1>3, <1>n, RasterNewAssumption DEF NullLost, TypeOK, Held, Fault
  <1>4. CASE \E written \in Window : NullLost(written)
    BY <1>4, <1>3 DEF NullLost, TypeOK, Fault
  <1> QED
    BY <1>1, <1>2, <1>4 DEF PutNull

LEMMA RowPutTypeOK ==
    ASSUME TypeOK, NEW content \in Content, RowPut(content)
    PROVE  /\ curRow' \in 0 .. NRows /\ nullRow' \in 0 .. curRow'
           /\ minNull' \in Int /\ minNull' <= nullRow' /\ nullRow' <= minNull' + NullRowsInMem
           /\ window' \in [Window -> Content]
           /\ data' \in [Rows -> Content] /\ torn' \in BOOLEAN
           /\ nulls' \in [Rows -> Content]
           /\ reply' \in {1, -1}
           /\ troubles' \subseteq FaultKinds /\ faults' \in 0 .. MaxFaults
  <1>1. CASE RowIgnored
    BY <1>1 DEF RowIgnored, TypeOK, NoFault
  <1>2. CASE RowFails
    <2>1. faults' \in 0 .. MaxFaults /\ troubles' \subseteq FaultKinds
      BY <1>2, RasterNewAssumption DEF RowFails, TypeOK, Fault
    <2>2. torn' \in BOOLEAN
      BY <1>2 DEF RowFails, TypeOK
    <2> QED
      BY <1>2, <2>1, <2>2 DEF RowFails, TypeOK
  <1>3. CASE RowTaken(content)
    <2>1. DataWith(content) \in [Rows -> Content]
      BY RasterNewAssumption DEF DataWith, TypeOK, Content, Damaged
    <2>2. torn' \in BOOLEAN
      BY <1>3 DEF RowTaken, TypeOK
    <2>3. curRow' \in 0 .. NRows /\ nullRow' \in 0 .. curRow'
      BY <1>3, PutNullTypeOK, RasterNewAssumption DEF RowTaken, TypeOK
    <2> QED
      BY <1>3, <2>1, <2>2, <2>3, PutNullTypeOK DEF RowTaken
  <1> QED
    BY <1>1, <1>2, <1>3 DEF RowPut

(* At first it is well formed, and every step leaves it so.                 *)
LEMMA TypeOKInit == Init => TypeOK
  <1> SUFFICES ASSUME Init PROVE TypeOK
    OBVIOUS
  <1>1. disk \in [Elements -> States]
    BY DEF Init, OldMaps, Elements, States, Types
  <1>2. Absent \in Content
    BY RasterNewAssumption DEF Absent, Content
  <1>3. /\ window \in [Window -> Content] /\ data \in [Rows -> Content]
        /\ nulls \in [Rows -> Content]
    BY <1>2 DEF Init
  <1>4. /\ curRow \in 0 .. NRows /\ nullRow \in 0 .. curRow
        /\ minNull \in Int /\ minNull <= nullRow /\ nullRow <= minNull + NullRowsInMem
        /\ padLeft \in 0 .. NRows /\ puts \in 0 .. MaxPuts /\ faults \in 0 .. MaxFaults
    BY RasterNewAssumption DEF Init
  <1> QED
    BY <1>1, <1>3, <1>4 DEF Init, TypeOK, PCs

LEMMA TypeOKStep ==
    ASSUME TypeOK, [Next]_vars
    PROVE  TypeOK'
  <1> USE DEF PCs
  <1>s. ASSUME NEW element \in Elements, NEW state \in States, Set(element, state)
        PROVE  disk' \in [Elements -> States]
    BY <1>s DEF Set, TypeOK
  <1>e. /\ {"null", "format", "fcell", "cell", "support", "cellhd", DataElement} \subseteq Elements
        /\ {"none", "new", "empty"} \subseteq States
    BY DEF Elements, States, DataElement
  <1>1. CASE Put
    <2>1. puts' \in 0 .. MaxPuts /\ puts' \in Content
      BY <1>1, RasterNewAssumption DEF Put, TypeOK, Content
    <2> QED
      BY <1>1, <2>1, RowPutTypeOK DEF Put, TypeOK
  <1>2. CASE Close
    BY <1>2, RasterNewAssumption DEF Close, TypeOK, fcb, temp
  <1>3. CASE PadRow
    <2>1. Zeros \in Content
      BY RasterNewAssumption DEF Zeros, Content
    <2>2. padLeft' \in 0 .. NRows
      BY <1>3, RasterNewAssumption DEF PadRow, TypeOK
    <2> QED
      BY <1>3, <2>1, <2>2, RowPutTypeOK DEF PadRow, TypeOK
  <1>4. CASE PadEnds
    BY <1>4 DEF PadEnds, Go, TypeOK, temp
  <1>5. CASE DropOldNull
    BY <1>5, <1>s, <1>e DEF DropOldNull, Go, TypeOK, fcb
  <1>6. ASSUME NEW lost \in SUBSET Rows, WriteNulls(lost)
        PROVE  TypeOK'
    <2>1. nulls' \in [Rows -> Content]
      <3>1. ASSUME NEW r \in Rows, ~(r < minNull), r < nullRow
            PROVE  window[r - minNull] \in Content
        BY <3>1, RasterNewAssumption DEF TypeOK, Rows, Window
      <3>2. Missing \in Content
        BY RasterNewAssumption DEF Missing, Content
      <3> QED
        BY <1>6, <3>1, <3>2 DEF WriteNulls, TypeOK
    <2>2. troubles' \subseteq FaultKinds /\ faults' \in 0 .. MaxFaults
      BY <1>6, RasterNewAssumption DEF WriteNulls, TypeOK, NoFault, Fault
    <2> QED
      BY <1>6, <2>1, <2>2 DEF WriteNulls, Go, TypeOK, fcb
  <1>f. ASSUME NEW k, NoFault \/ Fault(k)
        PROVE  troubles' \subseteq FaultKinds /\ faults' \in 0 .. MaxFaults
    BY <1>f, RasterNewAssumption DEF TypeOK, NoFault, Fault
  <1>7. CASE NullsUnopened
    BY <1>7, <1>f DEF NullsUnopened, Go, TypeOK, fcb, temp
  <1>8. CASE MoveNull
    BY <1>8, <1>f, <1>s, <1>e DEF MoveNull, Go, TypeOK, fcb
  <1>9. CASE MoveNullFails
    BY <1>9, <1>f DEF MoveNullFails, Go, TypeOK, fcb, temp
  <1>10. CASE WritePointers
    <2>1. Damaged \in Content
      BY RasterNewAssumption DEF Damaged, Content
    <2> QED
      BY <1>10, <1>f, <2>1 DEF WritePointers, Go, TypeOK, fcb
  <1>11. CASE Retype1
    <2>1. disk' \in [Elements -> States]
      BY <1>11, <1>s, <1>e DEF Retype1, TypeOK
    <2> QED
      BY <1>11, <1>f, <2>1 DEF Retype1, Go, TypeOK, fcb, temp
  <1>12. CASE Retype2
    <2>1. disk' \in [Elements -> States]
      BY <1>12, <1>s, <1>e DEF Retype2, TypeOK
    <2> QED
      BY <1>12, <2>1 DEF Retype2, Go, TypeOK, fcb, temp
  <1>13. CASE DropData
    BY <1>13, <1>s, <1>e DEF DropData, Go, TypeOK, fcb, temp
  <1>14. CASE MoveData
    BY <1>14, <1>f, <1>s, <1>e DEF MoveData, Go, TypeOK, fcb
  <1>15. CASE MoveDataFails
    BY <1>15, <1>f DEF MoveDataFails, Go, TypeOK, fcb, temp
  <1>16. CASE WriteSupport
    BY <1>16, <1>s, <1>e DEF WriteSupport, Go, TypeOK, fcb, temp
  <1>17. CASE WriteHeader
    BY <1>17, <1>s, <1>e DEF WriteHeader, Go, TypeOK, fcb, temp
  <1>18. CASE Unopen
    BY <1>18 DEF Unopen, Go, TypeOK, fcb, temp
  <1>19. CASE Die
    BY <1>19 DEF Die, TypeOK, fcb, temp
  <1>20. CASE UNCHANGED vars
    BY <1>20 DEF vars, TypeOK
  <1> QED
    BY <1>1, <1>2, <1>3, <1>4, <1>5, <1>6, <1>7, <1>8, <1>9, <1>10, <1>11, <1>12,
       <1>13, <1>14, <1>15, <1>16, <1>17, <1>18, <1>19, <1>20 DEF Next, CloseStep

(***************************************************************************)
(* The state of a writer is always well formed.  In particular the null row *)
(* being written falls in the window, so that NULL_ROWS[row - min_null_row] *)
(* in put_null_data and close_new never leaves the array.                   *)
(***************************************************************************)
THEOREM RasterNewTypeOK == Spec => []TypeOK
  <1>1. TypeOK /\ [Next]_vars => TypeOK'
    BY TypeOKStep
  <1> QED
    BY <1>1, TypeOKInit, PTL DEF Spec

-----------------------------------------------------------------------------
(* What makes it inductive that rows have their null rows ...               *)
NullsCore ==
    /\ nullRow = curRow
    /\ minNull >= 0 \/ (minNull = -NullRowsInMem /\ nullRow = 0)
    /\ RowsHaveTheirNulls
    /\ pc \notin Writing \cup Ended => RowsHaveFiledNulls
    /\ disk["null"] = "new" => pc \notin Writing

(* ... as long as no write of null rows has failed.                         *)
NullsInv == "null" \notin troubles => NullsCore

(* Without failures of the writes of null rows, the null row of a data row  *)
(* is put whenever the data row is.                                         *)
LEMMA PutNullKeeps ==
    ASSUME TypeOK, TypeOK', NullsCore, "null" \notin troubles',
           NEW content \in Content, curRow < NRows, PutNull(content)
    PROVE  /\ nullRow' = nullRow + 1
           /\ minNull' >= 0
           /\ \A r \in Rows : r < nullRow => KeptNull(r)' = KeptNull(r)
           /\ \A r \in Rows : r = nullRow => KeptNull(r)' = content
  <1>0. ~ \E written \in Window : NullLost(written)
    BY DEF NullLost, Fault
  <1>1. CASE NullKept(content)
    <2>1. /\ nullRow - minNull \in Window /\ minNull >= 0
          /\ window' = [window EXCEPT ![nullRow - minNull] = content]
          /\ nullRow' = nullRow + 1 /\ minNull' = minNull /\ nulls' = nulls
      BY <1>1, RasterNewAssumption DEF NullKept, TypeOK, NullsCore, Window
    <2>2. ASSUME NEW r \in Rows, r < nullRow
          PROVE  KeptNull(r)' = KeptNull(r)
      <3>1. r - minNull # nullRow - minNull
        BY <2>2, RasterNewAssumption DEF TypeOK, Rows
      <3>2. r >= minNull => r - minNull \in Window
        BY <2>1, <2>2, RasterNewAssumption DEF TypeOK, Rows, Window
      <3> QED
        BY <2>1, <3>1, <3>2 DEF KeptNull, TypeOK
    <2>3. ASSUME NEW r \in Rows, r = nullRow
          PROVE  KeptNull(r)' = content
      <3>1. r >= minNull /\ window'[r - minNull] = content
        BY <2>1, <2>3, RasterNewAssumption DEF TypeOK, Window
      <3> QED
        BY <2>1, <3>1 DEF KeptNull
    <2> QED
      BY <2>1, <2>2, <2>3
  <1>2. CASE NullMoved(content)
    <2>m. nullRow = minNull + NullRowsInMem /\ nullRow - (minNull + NullRowsInMem) = 0
      BY <1>2, WindowMoves DEF NullMoved
    <2>1. /\ nullRow' = nullRow + 1
          /\ minNull' = nullRow /\ minNull' >= 0
          /\ window' = [window EXCEPT ![0] = content]
      <3>1. nullRow' = nullRow + 1 /\ minNull' = nullRow
        BY <1>2, <2>m DEF NullMoved
      <3>2. minNull' >= 0
        BY <3>1, RasterNewAssumption DEF TypeOK
      <3>3. window' = [window EXCEPT ![0] = content]
        BY <1>2, <2>m DEF NullMoved
      <3> QED
        BY <3>1, <3>2, <3>3
    <2>2. ASSUME NEW r \in Rows, r < nullRow
          PROVE  KeptNull(r)' = KeptNull(r)
      <3>1. minNull >= 0 /\ nulls' = NullsWith(Held)
        BY <1>2, <2>2, RasterNewAssumption DEF NullMoved, NullsCore, TypeOK, Rows
      <3>2. r \in Held <=> r >= minNull
        BY <2>2, <3>1, WindowMoves, RasterNewAssumption DEF Held, Window, Rows, TypeOK
      <3>3. ~(r >= minNull')
        BY <2>1, <2>2, RasterNewAssumption DEF TypeOK, Rows
      <3> QED
        BY <3>1, <3>2, <3>3 DEF KeptNull, NullsWith
    <2>3. ASSUME NEW r \in Rows, r = nullRow
          PROVE  KeptNull(r)' = content
      <3>1. r >= minNull' /\ r - minNull' = 0
        BY <2>1, <2>3 DEF TypeOK
      <3>2. window'[0] = content
        BY <2>1, WindowMoves, <1>2 DEF TypeOK, NullMoved
      <3> QED
        BY <3>1, <3>2 DEF KeptNull
    <2> QED
      BY <2>1, <2>2, <2>3
  <1> QED
    BY <1>0, <1>1, <1>2 DEF PutNull

(* A row put leaves the invariant, whatever the caller does with failures.  *)
LEMMA RowPutKeeps ==
    ASSUME TypeOK, TypeOK', NullsCore, "null" \notin troubles', pc \in Writing,
           NEW content \in Content, RowPut(content)
    PROVE  /\ nullRow' = curRow'
           /\ minNull' >= 0 \/ (minNull' = -NullRowsInMem /\ nullRow' = 0)
           /\ RowsHaveKeptNulls'
  <1>0. RowsHaveKeptNulls
    BY DEF NullsCore, RowsHaveTheirNulls
  <1>1. CASE RowIgnored \/ RowFails
    BY <1>0, <1>1 DEF RowIgnored, RowFails, NullsCore, RowsHaveKeptNulls, KeptNull
  <1>2. CASE RowTaken(content)
    <2>1. curRow < NRows /\ PutNull(content) /\ curRow' = curRow + 1
          /\ data' = DataWith(content)
      BY <1>2 DEF RowTaken
    <2>2. nullRow = curRow
      BY DEF NullsCore
    <2>3. ASSUME NEW r \in Rows, r < nullRow'
          PROVE  data'[r] \in {KeptNull(r)', Damaged}
      <3>1. CASE r = curRow
        <4>1. KeptNull(r)' = content
          BY <2>1, <2>2, <3>1, PutNullKeeps
        <4>2. data'[r] \in {content, Damaged}
          BY <2>1, <3>1 DEF DataWith
        <4> QED
          BY <4>1, <4>2
      <3>2. CASE r # curRow
        <4>1. r < nullRow
          BY <2>1, <2>2, <2>3, <3>2, PutNullKeeps, RasterNewAssumption DEF Rows, TypeOK
        <4>2. data'[r] \in {data[r], Damaged}
          BY <2>1, <3>2 DEF DataWith
        <4>3. data[r] \in {KeptNull(r), Damaged}
          BY <1>0, <4>1 DEF RowsHaveKeptNulls
        <4>4. KeptNull(r)' = KeptNull(r)
          BY <2>1, <4>1, PutNullKeeps
        <4> QED
          BY <4>2, <4>3, <4>4
      <3> QED
        BY <3>1, <3>2
    <2> QED
      BY <2>1, <2>2, <2>3, PutNullKeeps DEF RowsHaveKeptNulls
  <1> QED
    BY <1>1, <1>2 DEF RowPut

LEMMA NullsCoreStep ==
    ASSUME TypeOK, TypeOK', NullsCore, "null" \notin troubles', [Next]_vars
    PROVE  NullsCore'
  <1> USE DEF Writing, Ended
  <1>e. disk["null"] # "new" \/ pc \notin Writing
    BY DEF NullsCore
  <1>1. CASE Put
    <2>1. RowPut(puts') /\ puts' \in Content /\ pc = "open" /\ pc' = pc /\ disk' = disk
      BY <1>1, RasterNewAssumption DEF Put, TypeOK, Content
    <2> QED
      BY <1>e, <2>1, RowPutKeeps DEF NullsCore, RowsHaveTheirNulls
  <1>2. CASE PadRow
    <2>1. RowPut(Zeros) /\ Zeros \in Content /\ pc = "pad" /\ pc' = pc /\ disk' = disk
      BY <1>2, RasterNewAssumption DEF PadRow, Zeros, Content
    <2> QED
      BY <1>e, <2>1, RowPutKeeps DEF NullsCore, RowsHaveTheirNulls
  <1>k. ASSUME UNCHANGED <<curRow, nullRow, minNull, window, data, nulls>>
        PROVE  (RowsHaveKeptNulls' <=> RowsHaveKeptNulls) /\ (RowsHaveFiledNulls' <=> RowsHaveFiledNulls)
    BY <1>k DEF RowsHaveKeptNulls, RowsHaveFiledNulls, KeptNull
  <1>3. CASE Close \/ PadEnds
    BY <1>3, <1>k, <1>e DEF Close, PadEnds, Go, NullsCore, RowsHaveTheirNulls, fcb, temp
  <1>4. CASE DropOldNull
    <2>1. disk'["null"] = "none"
      BY <1>4 DEF DropOldNull, Set, TypeOK, Elements
    <2>2. pc' = "pointers" => nullRow = 0
      BY <1>4 DEF DropOldNull, Go, TypeOK
    <2>3. pc' = "pointers" => RowsHaveFiledNulls
      BY <2>2, RasterNewAssumption DEF RowsHaveFiledNulls, NullsCore, Rows
    <2> QED
      BY <1>4, <1>k, <2>1, <2>3 DEF DropOldNull, Go, NullsCore, RowsHaveTheirNulls, fcb
  <1>5. ASSUME NEW lost \in SUBSET Rows, WriteNulls(lost)
        PROVE  NullsCore'
    <2>1. lost = {}
      BY <1>5 DEF WriteNulls, Fault
    <2>2. ASSUME NEW r \in Rows, r < nullRow
          PROVE  nulls'[r] = KeptNull(r)
      BY <1>5, <2>1, <2>2, RasterNewAssumption DEF WriteNulls, KeptNull, TypeOK, Rows
    <2>3. RowsHaveKeptNulls
      BY <1>5 DEF WriteNulls, Go, NullsCore, RowsHaveTheirNulls
    <2>4. UNCHANGED <<curRow, nullRow, minNull, data, disk>> /\ pc = "nulls" /\ pc' = "moveNull"
      BY <1>5 DEF WriteNulls, Go, fcb
    <2>5. RowsHaveFiledNulls'
      BY <2>2, <2>3, <2>4 DEF RowsHaveFiledNulls, RowsHaveKeptNulls, NullsCore
    <2> QED
      BY <1>e, <2>4, <2>5 DEF NullsCore, RowsHaveTheirNulls
  <1>6. CASE NullsUnopened
    BY <1>6, <1>k, <1>e DEF NullsUnopened, Go, NullsCore, RowsHaveTheirNulls, fcb, temp
  <1>7. CASE MoveNull \/ MoveNullFails
    BY <1>7, <1>k DEF MoveNull, MoveNullFails, Go, NullsCore, RowsHaveTheirNulls, fcb, temp
  <1>8. CASE WritePointers
    <2>1. /\ pc = "pointers" /\ pc' = "format1"
          /\ UNCHANGED <<curRow, nullRow, minNull, nulls, disk>>
          /\ \A r \in Rows : data'[r] \in {data[r], Damaged}
      BY <1>8 DEF WritePointers, Go, fcb
    <2>2. RowsHaveFiledNulls'
      BY <2>1 DEF RowsHaveFiledNulls, NullsCore
    <2> QED
      BY <2>1, <2>2 DEF NullsCore, RowsHaveTheirNulls
  <1>9. ASSUME UNCHANGED <<curRow, nullRow, minNull, window, data, nulls>>,
               pc \notin Writing \cup Ended, pc' \notin Writing
        PROVE  NullsCore'
    BY <1>9, <1>k DEF NullsCore, RowsHaveTheirNulls
  <1>10. CASE Retype1 \/ Retype2 \/ DropData
    BY <1>9, <1>10 DEF Retype1, Retype2, DropData, Go, fcb, temp
  <1>11. CASE MoveData \/ MoveDataFails \/ WriteSupport \/ WriteHeader
    BY <1>9, <1>11 DEF MoveData, MoveDataFails, WriteSupport, WriteHeader, Go, fcb, temp
  <1>12. CASE Unopen \/ Die \/ UNCHANGED vars
    BY <1>12, <1>k DEF Unopen, Die, Go, NullsCore, RowsHaveTheirNulls, vars, fcb, temp
  <1> QED
    BY <1>1, <1>2, <1>3, <1>4, <1>5, <1>6, <1>7, <1>8, <1>10, <1>11, <1>12 DEF Next, CloseStep

(* What failed stays failed. *)
LEMMA TroublesGrow == ASSUME [Next]_vars PROVE troubles \subseteq troubles'
  <1> USE DEF NoFault, Fault
  <1>1. ASSUME NEW content, RowPut(content) PROVE troubles \subseteq troubles'
    BY <1>1 DEF RowPut, RowIgnored, RowFails, RowTaken, PutNull, NullKept, NullMoved, NullLost
  <1>2. CASE Put \/ PadRow
    BY <1>1, <1>2 DEF Put, PadRow
  <1>3. CASE \E lost \in SUBSET Rows : WriteNulls(lost)
    BY <1>3 DEF WriteNulls
  <1> QED
    BY <1>2, <1>3 DEF Next, CloseStep, Close, PadEnds, DropOldNull, NullsUnopened, MoveNull,
       MoveNullFails, WritePointers, Retype1, Retype2, DropData, MoveData, MoveDataFails,
       WriteSupport, WriteHeader, Unopen, Die, vars

(* Rows have their null rows always.                                        *)
LEMMA NullsInvInit == Init => NullsInv
  <1> SUFFICES ASSUME Init PROVE NullsCore
    BY DEF NullsInv
  <1>1. RowsHaveKeptNulls /\ RowsHaveFiledNulls
    BY RasterNewAssumption DEF Init, RowsHaveKeptNulls, RowsHaveFiledNulls, Rows
  <1>2. disk["null"] # "new"
    BY DEF Init, OldMaps, Elements
  <1> QED
    BY <1>1, <1>2 DEF Init, NullsCore, RowsHaveTheirNulls, Writing

LEMMA NullsInvStep ==
    ASSUME TypeOK, TypeOK', NullsInv, [Next]_vars
    PROVE  NullsInv'
  BY NullsCoreStep, TroublesGrow DEF NullsInv

LEMMA NullsInvAlways == Spec => []NullsInv
  <1>1. TypeOK /\ TypeOK' /\ NullsInv /\ [Next]_vars => NullsInv'
    BY NullsInvStep
  <1> QED
    BY <1>1, NullsInvInit, RasterNewTypeOK, PTL DEF Spec

(***************************************************************************)
(* As long as no write of null rows fails, every row of the map has its own *)
(* null row, in memory and on the disk, whatever other writes fail and      *)
(* wherever the process ends.                                               *)
(***************************************************************************)
THEOREM RasterNewNulls == Spec => []NullsBelongToRows
  <1>1. NullsInv => NullsBelongToRows
    BY DEF NullsInv, NullsCore, NullsBelongToRows
  <1> QED
    BY <1>1, NullsInvAlways, PTL

-----------------------------------------------------------------------------
(* What is in the mapset at each step of a close ...                        *)
NullsDropped == {"nulls", "moveNull", "pointers", "format1", "format2", "dropData",
                 "moveData", "support", "cellhd", "closed"}
Retyped == {"format2", "dropData", "moveData", "support", "cellhd", "closed"}
Moved   == {"support", "cellhd", "closed"}

(* ... which makes it inductive that the header goes last.                  *)
CloseInv ==
    /\ disk["cellhd"] = "new" => pc = "closed"
    /\ disk[DataElement] = "new" => pc \in Moved \cup {"dead"}
    /\ pc \in Moved /\ "moveData" \notin troubles => disk[DataElement] = "new"
    /\ pc \in NullsDropped => disk["null"] # "old"
    /\ NewDataNeverOldNulls
    /\ kind.type = "CELL" => disk["format"] # "new" /\ (pc \in Retyped => disk["fcell"] = "none")
    /\ kind.type = "FP" /\ pc \in Retyped /\ "format" \notin troubles => disk["format"] = "new"

(* Setting one element leaves the others.                                   *)
LEMMA SetOne ==
    ASSUME TypeOK, NEW element \in Elements, NEW state \in States, Set(element, state)
    PROVE  /\ disk'[element] = state
           /\ \A e \in Elements : e # element => disk'[e] = disk[e]
  BY DEF Set, TypeOK

(* The elements, and the one that has the data.                             *)
LEMMA DataElements ==
    ASSUME TypeOK
    PROVE  /\ {"cell", "fcell", "null", "format", "cellhd", "support"} \subseteq Elements
           /\ {"none", "new", "empty"} \subseteq States
           /\ kind.type \in {"CELL", "FP"}
           /\ kind.type = "CELL" => DataElement = "cell"
           /\ kind.type = "FP" => DataElement = "fcell"
  BY DEF TypeOK, Types, Elements, States, DataElement

(* Every step of a close leaves what it should.                             *)
LEMMA CloseInvStep ==
    ASSUME TypeOK, CloseInv, [Next]_vars
    PROVE  CloseInv'
  <1> USE DataElements DEF NullsDropped, Retyped, Moved, NewDataNeverOldNulls
  <1>t. troubles \subseteq troubles'
    BY TroublesGrow
  <1>1. ASSUME UNCHANGED <<disk, kind>>, pc' \notin NullsDropped,
               pc \notin Moved \cup {"dead"}
        PROVE  CloseInv'
    BY <1>1 DEF CloseInv, DataElement
  <1>2. CASE Put \/ Close \/ PadRow \/ PadEnds \/ NullsUnopened \/ Unopen
    <2>1. UNCHANGED <<disk, kind>> /\ pc' \notin NullsDropped /\ pc \notin Moved \cup {"dead"}
      BY <1>2 DEF Put, Close, PadRow, PadEnds, NullsUnopened, Unopen, Go, fcb
    <2> QED
      BY <1>1, <2>1
  <1>3. ASSUME UNCHANGED <<disk, kind>>, pc \in NullsDropped, pc' \in NullsDropped,
               pc \in Retyped <=> pc' \in Retyped, pc \notin Moved, pc' \notin Moved
        PROVE  CloseInv'
    BY <1>t, <1>3 DEF CloseInv, DataElement
  <1>4. ASSUME NEW lost \in SUBSET Rows, WriteNulls(lost) PROVE CloseInv'
    BY <1>3, <1>4 DEF WriteNulls, Go, fcb
  <1>5. CASE MoveNullFails \/ WritePointers
    BY <1>3, <1>5 DEF MoveNullFails, WritePointers, Go, fcb
  <1>6. CASE Die \/ UNCHANGED vars
    BY <1>6 DEF Die, Ended, vars, CloseInv, fcb, DataElement
  <1>7. CASE DropOldNull
    <2>1. Set("null", "none") /\ pc = "oldNull" /\ pc' \in {"nulls", "pointers"} /\ kind' = kind
      BY <1>7 DEF DropOldNull, Go, fcb
    <2> QED
      BY <2>1, <1>t, SetOne DEF CloseInv, DataElement
  <1>8. CASE MoveNull
    <2>1. Set("null", "new") /\ pc = "moveNull" /\ pc' = "pointers" /\ kind' = kind
      BY <1>8 DEF MoveNull, Go, fcb
    <2> QED
      BY <2>1, <1>t, SetOne DEF CloseInv, DataElement
  <1>9. CASE Retype1
    <2>1. /\ pc = "format1" /\ pc' = "format2" /\ kind' = kind
          /\ \/ kind.type = "FP" /\ Set("format", "new")
             \/ kind.type = "CELL" /\ Set("fcell", "none")
             \/ kind.type = "FP" /\ "format" \in troubles' /\ UNCHANGED disk
      BY <1>9 DEF Retype1, Go, fcb, Fault
    <2>2. CASE kind.type = "FP" /\ Set("format", "new")
      BY <2>1, <2>2, <1>t, SetOne DEF CloseInv, DataElement
    <2>3. CASE kind.type = "CELL" /\ Set("fcell", "none")
      BY <2>1, <2>3, <1>t, SetOne DEF CloseInv, DataElement
    <2>4. CASE kind.type = "FP" /\ "format" \in troubles' /\ UNCHANGED disk
      BY <2>1, <2>4, <1>t DEF CloseInv, DataElement
    <2> QED
      BY <2>1, <2>2, <2>3, <2>4
  <1>10. CASE Retype2
    <2>1. /\ pc = "format2" /\ pc' = "dropData" /\ kind' = kind
          /\ \/ kind.type = "FP" /\ Set("cell", "empty")
             \/ kind.type = "CELL" /\ Set("format", "none")
      BY <1>10 DEF Retype2, Go, fcb
    <2> QED
      BY <2>1, <1>t, SetOne DEF CloseInv, DataElement
  <1>11. CASE DropData
    <2>1. Set(DataElement, "none") /\ pc = "dropData" /\ pc' = "moveData" /\ kind' = kind
      BY <1>11 DEF DropData, Go, fcb
    <2> QED
      BY <2>1, <1>t, SetOne DEF CloseInv, DataElement
  <1>12. CASE MoveData
    <2>1. Set(DataElement, "new") /\ pc = "moveData" /\ pc' = "support" /\ kind' = kind
      BY <1>12 DEF MoveData, Go, fcb
    <2> QED
      BY <2>1, <1>t, SetOne DEF CloseInv, DataElement
  <1>13. CASE MoveDataFails
    BY <1>13, <1>t DEF MoveDataFails, Go, fcb, Fault, CloseInv, DataElement
  <1>14. CASE WriteSupport
    <2>1. Set("support", "new") /\ pc = "support" /\ pc' = "cellhd" /\ kind' = kind
      BY <1>14 DEF WriteSupport, Go, fcb
    <2> QED
      BY <2>1, <1>t, SetOne DEF CloseInv, DataElement
  <1>15. CASE WriteHeader
    <2>1. Set("cellhd", "new") /\ pc = "cellhd" /\ pc' = "closed" /\ kind' = kind
      BY <1>15 DEF WriteHeader, Go, fcb
    <2> QED
      BY <2>1, <1>t, SetOne DEF CloseInv, DataElement
  <1> QED
    BY <1>2, <1>4, <1>5, <1>6, <1>7, <1>8, <1>9, <1>10, <1>11, <1>12, <1>13, <1>14, <1>15
       DEF Next, CloseStep

(* At first nothing of the new map is there.                                *)
LEMMA CloseInvInit == Init => CloseInv
  <1> SUFFICES ASSUME Init PROVE CloseInv
    OBVIOUS
  <1>1. \A e \in Elements : disk[e] # "new"
    BY DEF Init, OldMaps
  <1> QED
    BY <1>1 DEF Init, CloseInv, Elements, DataElement, NewDataNeverOldNulls, NullsDropped, Retyped, Moved

(* What a close leaves at each step holds always.                           *)
LEMMA CloseInvAlways == Spec => []CloseInv
  <1>1. TypeOK /\ CloseInv /\ [Next]_vars => CloseInv'
    BY CloseInvStep
  <1> QED
    BY <1>1, CloseInvInit, RasterNewTypeOK, PTL DEF Spec

(***************************************************************************)
(* Wherever the process ends, and whatever fails, the data of the new map   *)
(* are never found with the null file of the old one: close_new removes     *)
(* that one before it moves anything.                                       *)
(***************************************************************************)
THEOREM RasterNewNoOldNulls == Spec => []NewDataNeverOldNulls
  <1>1. CloseInv => NewDataNeverOldNulls
    BY DEF CloseInv
  <1> QED
    BY <1>1, CloseInvAlways, PTL

(***************************************************************************)
(* A map with the new header has the new data, of the new type, whatever    *)
(* was there before and wherever the process ends, unless f_format could    *)
(* not be written or the data not be moved.                                 *)
(***************************************************************************)
THEOREM RasterNewHeaderLast == Spec => []HeaderComesLast
  <1>1. TypeOK /\ CloseInv => HeaderComesLast
    BY DataElements DEF CloseInv, HeaderComesLast, TypeFound, Retyped, Moved
  <1> QED
    BY <1>1, CloseInvAlways, RasterNewTypeOK, PTL

-----------------------------------------------------------------------------
(* What is complete at each step: rows that were put, rows that were padded *)
(* and null rows.                                                           *)
Padded == {"oldNull"} \cup NullsDropped
RowsAreThere == \A r \in Rows : r < curRow => data[r] # Absent
NullsAreThere == \A r \in Rows : r < nullRow => KeptNull(r) # Absent
NullsAreFiled == \A r \in Rows : nulls[r] # Absent
PadsAll ==
    /\ pc = "pad" => padLeft + curRow >= NRows
    /\ pc \in Padded \/ disk[DataElement] = "new" => curRow = NRows
WholeInv ==
    /\ RowsAreThere
    /\ "row" \notin troubles => PadsAll
    /\ "null" \notin troubles =>
          /\ pc \in Writing => NullsAreThere
          /\ pc = "moveNull" \/ disk["null"] = "new" => NullsAreFiled

(* A row that is put is there, and its null row unless that was lost.       *)
LEMMA RowPutWhole ==
    ASSUME TypeOK, TypeOK', NullsInv, WholeInv, pc \in Writing,
           NEW content \in Content, content \notin {Absent, Damaged}, RowPut(content)
    PROVE  /\ RowsAreThere'
           /\ "null" \notin troubles' => NullsAreThere'
           /\ "row" \notin troubles' => curRow' = curRow + 1 \/ (curRow >= NRows /\ curRow' = curRow)
  <1> USE DEF Absent, Damaged
  <1>1. CASE RowIgnored \/ RowFails
    <2>1. UNCHANGED <<curRow, nullRow, minNull, window, data, nulls>> /\ troubles \subseteq troubles'
      BY <1>1 DEF RowIgnored, RowFails, NoFault, Fault
    <2>2. RowsAreThere' /\ ("null" \notin troubles' => NullsAreThere')
      BY <2>1 DEF WholeInv, RowsAreThere, NullsAreThere, KeptNull
    <2> QED
      BY <1>1, <2>2 DEF RowIgnored, RowFails, Fault
  <1>2. CASE RowTaken(content)
    <2>1. /\ curRow < NRows /\ PutNull(content) /\ curRow' = curRow + 1
          /\ data' = DataWith(content)
      BY <1>2 DEF RowTaken
    <2>2. RowsAreThere'
      BY <2>1, RasterNewAssumption DEF WholeInv, RowsAreThere, DataWith, Rows, TypeOK
    <2>3. ASSUME "null" \notin troubles' PROVE NullsAreThere'
      <3>1. "null" \notin troubles
        BY <2>1, <2>3 DEF PutNull, NullKept, NullMoved, NullLost, NoFault, Fault
      <3>2. NullsCore /\ NullsAreThere
        BY <3>1 DEF NullsInv, WholeInv
      <3>3. /\ nullRow' = nullRow + 1
            /\ \A r \in Rows : r < nullRow => KeptNull(r)' = KeptNull(r)
            /\ \A r \in Rows : r = nullRow => KeptNull(r)' = content
        BY <2>1, <2>3, <3>2, PutNullKeeps
      <3>4. ASSUME NEW r \in Rows, r < nullRow' PROVE r < nullRow \/ r = nullRow
        BY <3>3, <3>4, RasterNewAssumption DEF Rows, TypeOK
      <3> QED
        BY <3>2, <3>3, <3>4 DEF NullsAreThere
    <2> QED
      BY <2>1, <2>2, <2>3
  <1> QED
    BY <1>1, <1>2 DEF RowPut

(* Every step leaves complete what was.                                     *)
LEMMA WholeInvStep ==
    ASSUME TypeOK, TypeOK', NullsInv, NullsInv', CloseInv, CloseInv', WholeInv, [Next]_vars
    PROVE  WholeInv'
  <1> USE DataElements DEF Writing, Padded, NullsDropped, Moved
  <1>t. troubles \subseteq troubles'
    BY TroublesGrow
  <1>n. /\ pc \notin Moved \cup {"dead"} => disk[DataElement] # "new"
        /\ pc' \notin Moved \cup {"dead"} => disk'[DataElement'] # "new"
    BY DEF CloseInv
  <1>w. "null" \notin troubles => (disk["null"] = "new" => pc \notin Writing)
    BY DEF NullsInv, NullsCore
  <1>1. ASSUME NEW content \in Content, content \notin {Absent, Damaged}, RowPut(content),
               pc \in {"open", "pad"}, pc' = pc, disk' = disk,
               pc = "pad" => padLeft > 0 /\ padLeft' = padLeft - 1
        PROVE  WholeInv'
    <2>1. /\ RowsAreThere' /\ ("null" \notin troubles' => NullsAreThere')
          /\ "row" \notin troubles' => curRow' = curRow + 1 \/ (curRow >= NRows /\ curRow' = curRow)
      BY <1>1, RowPutWhole
    <2>2. ASSUME "row" \notin troubles' PROVE PadsAll'
      <3>1. pc' \notin Padded /\ disk'[DataElement'] # "new"
        BY <1>1, <1>n
      <3>2. pc = "pad" => padLeft + curRow >= NRows /\ padLeft > 0 /\ padLeft' = padLeft - 1
        BY <1>1, <1>t, <2>2 DEF WholeInv, PadsAll
      <3>3. pc = "pad" => padLeft' + curRow' >= NRows
        <4>1. padLeft \in Int /\ curRow \in Int /\ NRows \in Int
          BY RasterNewAssumption DEF TypeOK
        <4>2. curRow' = curRow + 1 \/ (curRow >= NRows /\ curRow' = curRow)
          BY <2>1, <2>2
        <4> QED
          BY <3>2, <4>1, <4>2
      <3> QED
        BY <1>1, <3>1, <3>3 DEF PadsAll
    <2>3. "null" \notin troubles' => disk'["null"] # "new"
      BY <1>1, <1>t, <1>w
    <2> QED
      BY <1>1, <2>1, <2>2, <2>3 DEF WholeInv
  <1>2. CASE Put
    BY <1>1, <1>2, RasterNewAssumption DEF Put, TypeOK, Content, Absent, Damaged
  <1>3. CASE PadRow
    BY <1>1, <1>3, RasterNewAssumption DEF PadRow, Zeros, Content, Absent, Damaged
  <1>k. ASSUME UNCHANGED <<curRow, nullRow, minNull, window, data, nulls>>
        PROVE  /\ RowsAreThere' <=> RowsAreThere
               /\ NullsAreThere' <=> NullsAreThere
               /\ NullsAreFiled' <=> NullsAreFiled
    BY <1>k DEF RowsAreThere, NullsAreThere, NullsAreFiled, KeptNull
  <1>4. CASE Close
    <2>1. /\ UNCHANGED <<curRow, nullRow, minNull, window, data, nulls, disk, troubles>>
          /\ pc = "open" /\ padLeft' = NRows - curRow
          /\ pc' = IF curRow >= NRows THEN "oldNull" ELSE IF padded THEN "dead" ELSE "pad"
          /\ DataElement' = DataElement
      BY <1>4 DEF Close, fcb, temp, DataElement
    <2>2. PadsAll'
      BY <2>1, <1>n, RasterNewAssumption DEF PadsAll, TypeOK
    <2> QED
      BY <2>1, <2>2, <1>k, <1>w DEF WholeInv
  <1>5. CASE PadEnds
    <2>1. /\ UNCHANGED <<curRow, nullRow, minNull, window, data, nulls, disk, troubles>>
          /\ pc = "pad" /\ pc' = "oldNull" /\ padLeft = 0 /\ DataElement' = DataElement
      BY <1>5 DEF PadEnds, Go, temp, DataElement
    <2>2. "row" \notin troubles' => PadsAll'
      BY <2>1, RasterNewAssumption DEF WholeInv, PadsAll, TypeOK
    <2> QED
      BY <2>1, <2>2, <1>k, <1>w DEF WholeInv
  <1>6. CASE DropOldNull
    <2>1. /\ UNCHANGED <<curRow, nullRow, minNull, window, data, nulls, troubles>>
          /\ pc = "oldNull" /\ pc' \in {"nulls", "pointers"} /\ DataElement' = DataElement
          /\ disk'["null"] = "none"
      BY <1>6, SetOne DEF DropOldNull, Go, fcb, DataElement
    <2>2. "row" \notin troubles' => PadsAll'
      BY <2>1 DEF WholeInv, PadsAll
    <2> QED
      BY <2>1, <2>2, <1>k DEF WholeInv
  <1>7. ASSUME NEW lost \in SUBSET Rows, WriteNulls(lost) PROVE WholeInv'
    <2>1. /\ UNCHANGED <<curRow, nullRow, minNull, window, data, disk>>
          /\ pc = "nulls" /\ pc' = "moveNull" /\ DataElement' = DataElement
      BY <1>7 DEF WriteNulls, Go, fcb, DataElement
    <2>2. "row" \notin troubles' => PadsAll'
      BY <2>1, <1>t DEF WholeInv, PadsAll
    <2>3. RowsAreThere'
      BY <2>1 DEF WholeInv, RowsAreThere
    <2>4. ASSUME "null" \notin troubles' PROVE NullsAreFiled'
      <3>1. lost = {}
        BY <1>7, <2>4 DEF WriteNulls, Fault
      <3>2. NullsAreThere
        BY <1>t, <2>1, <2>4 DEF WholeInv
      <3>3. ASSUME NEW r \in Rows PROVE nulls'[r] # Absent
        <4>1. nulls'[r] = IF r < nullRow THEN KeptNull(r) ELSE Missing
          BY <1>7, <3>1, RasterNewAssumption DEF WriteNulls, KeptNull, TypeOK, Rows
        <4> QED
          BY <3>2, <4>1 DEF NullsAreThere, Missing, Absent
      <3> QED
        BY <3>3 DEF NullsAreFiled
    <2> QED
      BY <2>1, <2>2, <2>3, <2>4 DEF WholeInv
  <1>8. CASE NullsUnopened
    <2>1. /\ UNCHANGED <<curRow, nullRow, minNull, window, data, nulls, disk>>
          /\ pc = "nulls" /\ pc' = "open" /\ DataElement' = DataElement
      BY <1>8 DEF NullsUnopened, Go, fcb, temp, DataElement
    <2>2. PadsAll'
      BY <2>1, <1>n DEF PadsAll
    <2> QED
      BY <2>1, <2>2, <1>k, <1>t, <1>w DEF WholeInv
  <1>9. CASE MoveNull
    <2>1. /\ UNCHANGED <<curRow, nullRow, minNull, window, data, nulls, troubles>>
          /\ pc = "moveNull" /\ pc' = "pointers" /\ DataElement' = DataElement
      BY <1>9 DEF MoveNull, Go, fcb, NoFault, DataElement
    <2>2. "row" \notin troubles' => PadsAll'
      BY <2>1 DEF WholeInv, PadsAll
    <2> QED
      BY <2>1, <2>2, <1>k DEF WholeInv
  <1>10. CASE WritePointers
    <2>1. /\ UNCHANGED <<curRow, nullRow, minNull, window, nulls, disk>>
          /\ data' = data \/ data' = [r \in Rows |-> Damaged]
          /\ pc = "pointers" /\ pc' = "format1" /\ DataElement' = DataElement
      BY <1>10 DEF WritePointers, Go, fcb, DataElement
    <2>2. "row" \notin troubles' => PadsAll'
      BY <2>1, <1>t DEF WholeInv, PadsAll
    <2>3. RowsAreThere'
      BY <2>1 DEF WholeInv, RowsAreThere, Damaged, Absent
    <2>4. NullsAreFiled' <=> NullsAreFiled
      BY <2>1 DEF NullsAreFiled
    <2> QED
      BY <2>1, <2>2, <2>3, <2>4, <1>t DEF WholeInv
  <1>11. ASSUME UNCHANGED <<curRow, nullRow, minNull, window, data, nulls>>,
                pc \in Padded, pc' \in Padded \ Writing, pc' # "moveNull",
                disk'["null"] = disk["null"]
         PROVE  WholeInv'
    BY <1>k, <1>t, <1>11 DEF WholeInv, PadsAll
  <1>12. CASE MoveNullFails \/ MoveDataFails
    BY <1>11, <1>12 DEF MoveNullFails, MoveDataFails, Go, fcb, temp
  <1>13. CASE Retype1 \/ Retype2 \/ DropData \/ MoveData \/ WriteSupport \/ WriteHeader
    <2>1. disk'["null"] = disk["null"]
      BY <1>13, SetOne DEF Retype1, Retype2, DropData, MoveData, WriteSupport, WriteHeader
    <2> QED
      BY <1>11, <1>13, <2>1
         DEF Retype1, Retype2, DropData, MoveData, WriteSupport, WriteHeader, Go, fcb, temp
  <1>14. CASE Unopen \/ Die \/ UNCHANGED vars
    <2>1. /\ UNCHANGED <<curRow, nullRow, minNull, window, data, nulls, disk, troubles, padLeft>>
          /\ pc' \in {pc, "unopened", "dead"} /\ DataElement' = DataElement
      BY <1>14 DEF Unopen, Die, Go, vars, fcb, temp, DataElement
    <2>2. "row" \notin troubles' => PadsAll'
      BY <2>1 DEF WholeInv, PadsAll
    <2> QED
      BY <2>1, <2>2, <1>k DEF WholeInv
  <1> QED
    BY <1>2, <1>3, <1>4, <1>5, <1>6, <1>7, <1>8, <1>9, <1>10, <1>12, <1>13, <1>14
       DEF Next, CloseStep

LEMMA WholeInvInit == Init => WholeInv
  <1> SUFFICES ASSUME Init PROVE WholeInv
    OBVIOUS
  <1>1. \A e \in Elements : disk[e] # "new"
    BY DEF Init, OldMaps
  <1>2. RowsAreThere /\ NullsAreThere
    BY RasterNewAssumption DEF Init, RowsAreThere, NullsAreThere, Rows
  <1> QED
    BY <1>1, <1>2 DEF Init, WholeInv, PadsAll, Padded, NullsDropped, Elements, DataElement

(***************************************************************************)
(* The files moved in place have all their rows: the data file unless a row *)
(* could not be written (close_new pads those never put), the null file     *)
(* unless null rows could not.                                              *)
(***************************************************************************)
THEOREM RasterNewWhole == Spec => []CommittedFilesAreWhole
  <1>1. TypeOK /\ TypeOK' /\ NullsInv /\ NullsInv' /\ CloseInv /\ CloseInv' /\ WholeInv /\ [Next]_vars
        => WholeInv'
    BY WholeInvStep
  <1>2. TypeOK /\ WholeInv => CommittedFilesAreWhole
    BY RasterNewAssumption
       DEF WholeInv, PadsAll, RowsAreThere, NullsAreFiled, CommittedFilesAreWhole, NullFileIsWhole,
           CommittedDataIsWhole, Rows, TypeOK
  <1> QED
    BY <1>1, <1>2, WholeInvInit, CloseInvAlways, NullsInvAlways, RasterNewTypeOK, PTL DEF Spec

-----------------------------------------------------------------------------
(* A map whose writing met no failure but that of opening the null file:    *)
(* nothing of it is damaged, and its null file is in place.                 *)
Clean == troubles \subseteq {"openNull"}
NullsMoved == {"pointers", "format1", "format2", "dropData", "moveData", "support", "cellhd", "closed"}
CleanCore ==
    /\ ~torn
    /\ \A r \in Rows : data[r] # Damaged
    /\ pc \in NullsMoved => disk["null"] = "new"
CleanInv == Clean => CleanCore

(* The rows of a clean map are all put before its null file is moved.       *)
LEMMA CleanInvStep ==
    ASSUME TypeOK, TypeOK', NullsInv, WholeInv, CleanInv, [Next]_vars
    PROVE  CleanInv'
  <1> SUFFICES ASSUME Clean' PROVE CleanCore'
    BY DEF CleanInv
  <1> USE DataElements DEF NullsMoved
  <1>c. Clean /\ CleanCore
    BY TroublesGrow DEF Clean, CleanInv
  <1>f. ASSUME NEW k \in {"row", "null", "moveNull", "pointers"}, Fault(k) PROVE FALSE
    BY <1>f DEF Fault, Clean
  <1>r. ASSUME NEW content \in Content, content # Damaged, RowPut(content)
        PROVE  ~torn' /\ \A r \in Rows : data'[r] # Damaged
    <2>1. ~RowFails
      BY <1>f DEF RowFails
    <2>2. CASE RowIgnored
      BY <1>c, <2>2 DEF RowIgnored, CleanCore
    <2>3. CASE RowTaken(content)
      BY <1>c, <1>r, <2>3 DEF RowTaken, DataWith, CleanCore
    <2> QED
      BY <1>r, <2>1, <2>2, <2>3 DEF RowPut
  <1>1. CASE Put
    <2>1. puts' \in Content /\ puts' # Damaged
      BY <1>1, RasterNewAssumption DEF Put, TypeOK, Content, Damaged
    <2> QED
      BY <1>1, <1>r, <2>1 DEF Put, CleanCore
  <1>2. CASE PadRow
    <2>1. Zeros \in Content /\ Zeros # Damaged
      BY RasterNewAssumption DEF Content, Damaged, Zeros
    <2> QED
      BY <1>2, <1>r, <2>1 DEF PadRow, CleanCore
  <1>3. CASE DropOldNull
    <2>1. nullRow = NRows
      BY <1>3, <1>c DEF DropOldNull, Go, NullsInv, NullsCore, WholeInv, PadsAll, Padded, Clean
    <2>2. pc' = "nulls" /\ UNCHANGED <<torn, data>>
      BY <1>3, <2>1, RasterNewAssumption DEF DropOldNull, Go
    <2> QED
      BY <1>c, <2>2 DEF CleanCore
  <1>4. CASE MoveNull
    BY <1>c, <1>4, SetOne DEF MoveNull, Go, CleanCore
  <1>5. CASE MoveNullFails
    BY <1>f, <1>5 DEF MoveNullFails
  <1>6. CASE WritePointers
    BY <1>c, <1>f, <1>6 DEF WritePointers, Go, CleanCore, fcb
  <1>7. ASSUME NEW lost \in SUBSET Rows, WriteNulls(lost) PROVE CleanCore'
    BY <1>c, <1>7 DEF WriteNulls, Go, CleanCore
  <1>8. CASE Close \/ PadEnds \/ NullsUnopened \/ Unopen \/ Die
    BY <1>c, <1>8 DEF Close, PadEnds, NullsUnopened, Unopen, Die, Go, CleanCore, temp
  <1>9. CASE UNCHANGED vars
    BY <1>c, <1>9 DEF vars, CleanCore
  <1>10. CASE Retype1 \/ Retype2 \/ DropData \/ MoveData \/ MoveDataFails \/ WriteSupport \/ WriteHeader
    <2>1. disk'["null"] = disk["null"] /\ pc \in NullsMoved /\ UNCHANGED <<torn, data>>
      BY <1>10, SetOne DEF Retype1, Retype2, DropData, MoveData, MoveDataFails, WriteSupport,
         WriteHeader, Go, temp
    <2> QED
      BY <1>c, <2>1 DEF CleanCore
  <1> QED
    BY <1>1, <1>2, <1>3, <1>4, <1>5, <1>6, <1>7, <1>8, <1>9, <1>10 DEF Next, CloseStep

LEMMA CleanInvInit == Init => CleanInv
  BY DEF Init, CleanInv, CleanCore, NullsMoved, Absent, Damaged

(* All that holds of a writer.                                              *)
WriterInv == TypeOK /\ NullsInv /\ CloseInv /\ WholeInv /\ CleanInv

LEMMA WriterInvStep ==
    ASSUME WriterInv, [Next]_vars
    PROVE  WriterInv'
  BY TypeOKStep, NullsInvStep, CloseInvStep, WholeInvStep, CleanInvStep DEF WriterInv

(* A writer that has closed its map does nothing more.                      *)
LEMMA ClosedIsStill ==
    ASSUME pc = "closed", [Next]_vars
    PROVE  UNCHANGED vars
  BY DEF Next, CloseStep, Put, Close, PadRow, PadEnds, DropOldNull, WriteNulls, NullsUnopened, MoveNull,
     MoveNullFails, WritePointers, Retype1, Retype2, DropData, MoveData, MoveDataFails, WriteSupport,
     WriteHeader, Unopen, Die, Ended, Go

(* What a reader does leaves the writer's state, but for a failed read.     *)
writerVars == <<pc, fcb, temp, padLeft, disk, puts, reply>>
LEMMA ReaderLeaves ==
    ASSUME WriterInv, ReaderNext
    PROVE  UNCHANGED writerVars /\ troubles \subseteq troubles' /\ WriterInv'
  <1>1. UNCHANGED writerVars /\ (NoFault \/ Fault("read"))
    BY DEF ReaderNext, FindMap, TellType, OpenData, GetRow, GetOutside, GetKept, GetRead, GetFails,
       writerVars, vars, fcb, temp, NoFault
  <1>2. troubles \subseteq troubles' /\ troubles' \subseteq FaultKinds \cup troubles
    BY <1>1 DEF NoFault, Fault
  <1>3. TypeOK'
    BY <1>1, RasterNewAssumption DEF WriterInv, TypeOK, NoFault, Fault, writerVars, fcb, temp
  <1>4. NullsInv'
    BY <1>1, <1>2 DEF WriterInv, NullsInv, NullsCore, RowsHaveTheirNulls, RowsHaveKeptNulls,
       RowsHaveFiledNulls, KeptNull, writerVars, fcb, temp
  <1>5. CloseInv'
    BY <1>1, <1>2 DEF WriterInv, CloseInv, DataElement, NewDataNeverOldNulls, writerVars, fcb, temp
  <1>6. WholeInv'
    BY <1>1, <1>2 DEF WriterInv, WholeInv, PadsAll, RowsAreThere, NullsAreThere, NullsAreFiled, KeptNull,
       DataElement, writerVars, fcb, temp
  <1>7. CleanInv'
    BY <1>1, <1>2 DEF WriterInv, CleanInv, Clean, CleanCore, writerVars, fcb, temp
  <1> QED
    BY <1>1, <1>2, <1>3, <1>4, <1>5, <1>6, <1>7 DEF WriterInv

-----------------------------------------------------------------------------
(* What a closed map has when nothing failed.                               *)
LEMMA ClosedMap ==
    ASSUME WriterInv, Clean, pc = "closed", disk["cellhd"] = "new"
    PROVE  /\ disk[DataElement] = "new" /\ disk["null"] = "new" /\ TypeFound = kind.type
           /\ \A r \in Rows : data[r] \notin {Absent, Damaged} /\ data[r] = nulls[r]
  <1> USE DataElements DEF WriterInv
  <1>1. CleanCore /\ disk["null"] = "new"
    BY DEF CleanInv, CleanCore, NullsMoved
  <1>2. disk[DataElement] = "new" /\ TypeFound = kind.type
    BY DEF Clean, CloseInv, TypeFound, Retyped, Moved
  <1>3. curRow = NRows
    BY DEF Clean, WholeInv, PadsAll, Padded, NullsDropped
  <1>4. RowsAreThere /\ RowsHaveFiledNulls
    BY <1>1 DEF Clean, WholeInv, NullsInv, NullsCore, RowsHaveTheirNulls
  <1>5. ASSUME NEW r \in Rows
        PROVE  data[r] \notin {Absent, Damaged} /\ data[r] = nulls[r]
    <2>1. r < curRow
      BY <1>3, RasterNewAssumption DEF Rows
    <2> QED
      BY <1>1, <1>4, <2>1 DEF CleanCore, RowsAreThere, RowsHaveFiledNulls
  <1> QED
    BY <1>1, <1>2, <1>5

(* The null row a row of the region should have.                            *)
NullOf(w) == IF region[w] = NoRow THEN Outside ELSE nulls[region[w]]

(* What a reader of a clean map has in memory.                              *)
KeepsItsRow == row = NoRow \/ (row \in Rows /\ buf = data[row])
KeepsItsNulls ==
    \A i \in Window : first >= 0 /\ first + i \in RegionRows => nullRows[i] = NullOf(first + i)
GotWhatWasPut ==
    got.reply # 0 =>
        /\ got.reply = 1
        /\ IF got.r = NoRow THEN got.data = Outside /\ got.null = Outside
           ELSE got.r \in Rows /\ got.data = data[got.r] /\ got.null = nulls[got.r]
ReaderCore ==
    /\ reader \in {"type", "reading"} => type = kind.type
    /\ reader = "reading" => open = "new" /\ ~noNullFile
    /\ KeepsItsRow /\ KeepsItsNulls /\ GotWhatWasPut
ReaderInv ==
    /\ region \in RowMaps
    /\ first \in Int /\ (first >= 0 \/ first = -NullRowsInMem)
    /\ head = "new" => pc = "closed" /\ disk["cellhd"] = "new"
    /\ reader = "none" => head = "none"
    /\ reader # "reading" => row = NoRow /\ first = -NullRowsInMem /\ ~noNullFile /\ got.reply = 0
    /\ head = "new" /\ Clean => ReaderCore

(* The rows of a region, and the rows of the map they show.                 *)
LEMMA RegionMaps ==
    ASSUME ReaderInv, NEW w \in RegionRows
    PROVE  w \in Nat /\ region[w] \in Rows \cup {NoRow} /\ NoRow \notin Rows
  BY RasterReaderAssumption, RasterNewAssumption DEF ReaderInv, RegionRows, Rows, NoRow

(* The rows whose null rows are read together.                              *)
LEMMA WindowOfRow ==
    ASSUME NEW w \in Nat
    PROVE  WindowOf(w) \in Nat /\ w - WindowOf(w) \in Window
  <1> DEFINE n == NullRowsInMem
             q == w \div n
  <1>1. n \in Nat \ {0}
    BY RasterNewAssumption
  <1>2. q \in Nat /\ w % n \in 0 .. n - 1 /\ w = q * n + (w % n)
    BY <1>1, SMT
  <1> HIDE DEF n, q
  <1>3. q * n \in Nat
    BY <1>1, <1>2, SMT
  <1>4. w - q * n \in 0 .. n - 1
    BY <1>1, <1>2, <1>3, SMT
  <1> QED
    BY <1>3, <1>4 DEF WindowOf, Window, n, q

(* embed_nulls gives a row of the region its null row.                      *)
LEMMA NullsAnswer ==
    ASSUME ReaderInv, ReaderCore, reader = "reading", disk["null"] = "new",
           UNCHANGED <<region, nulls>>,
           NEW w \in RegionRows, NEW r, NEW b, NEW shown, Nulls(w, r, b, shown)
    PROVE  /\ row' = r /\ buf' = b /\ ~noNullFile' /\ KeepsItsNulls'
           /\ first' \in Int /\ (first' >= 0 \/ first' = -NullRowsInMem)
           /\ got' = [reply |-> 1, r |-> region[w], data |-> shown, null |-> NullOf(w)]
  <1>n. ~NoNullFile /\ w \in Nat
    BY RegionMaps DEF ReaderCore, NoNullFile
  <1>1. CASE InWindow(w)
    <2>1. /\ row' = r /\ buf' = b /\ UNCHANGED <<first, nullRows, noNullFile>>
          /\ got' = [reply |-> 1, r |-> region[w], data |-> shown, null |-> nullRows[w - first]]
      BY <1>1 DEF Nulls
    <2>2. first >= 0 /\ first + (w - first) = w /\ w - first \in Window
      BY <1>1, <1>n, RasterNewAssumption DEF InWindow, Window, ReaderInv
    <2>3. nullRows[w - first] = NullOf(w)
      BY <2>2 DEF ReaderCore, KeepsItsNulls
    <2>4. KeepsItsNulls'
      BY <2>1 DEF ReaderCore, KeepsItsNulls, NullOf, RegionRows
    <2> QED
      BY <2>1, <2>3, <2>4 DEF ReaderInv, ReaderCore
  <1>2. CASE ~InWindow(w)
    <2> DEFINE f == WindowOf(w)
    <2>1. /\ RowKept(f, r, b) /\ first' = f /\ nullRows' = NullRowsFrom(f) /\ noNullFile' = NoNullFile
          /\ got' = [reply |-> 1, r |-> region[w], data |-> shown, null |-> nullRows'[w - f]]
      BY <1>2 DEF Nulls
    <2>2. f \in Nat /\ w - f \in Window /\ f + (w - f) = w
      BY <1>n, WindowOfRow
    <2>3. row' = r /\ buf' = b
      BY <1>n, <2>1 DEF RowKept
    <2>4. ASSUME NEW i \in Window, f + i \in RegionRows
          PROVE  nullRows'[i] = NullOf(f + i)
      BY <1>n, <2>1, <2>4 DEF NullRowsFrom, NullOf, NullAt
    <2>5. nullRows'[w - f] = NullOf(w)
      BY <2>2, <2>4
    <2>6. KeepsItsNulls'
      BY <2>1, <2>4 DEF KeepsItsNulls, NullOf, RegionRows
    <2> QED
      BY <1>n, <2>1, <2>2, <2>3, <2>5, <2>6
  <1> QED
    BY <1>1, <1>2

(* A row that is got from a clean map is the one that was put.              *)
LEMMA GetRowReads ==
    ASSUME WriterInv, ReaderInv, GetRow, UNCHANGED writerVars, Clean', Clean, head = "new"
    PROVE  ReaderCore' /\ first' \in Int /\ (first' >= 0 \/ first' = -NullRowsInMem)
  <1>1. PICK w \in RegionRows : GetOutside(w) \/ GetKept(w) \/ GetRead(w) \/ GetFails(w)
    BY DEF GetRow
  <1>2. /\ reader = "reading" /\ UNCHANGED <<reader, region, head, type, open>>
        /\ UNCHANGED <<kind, data, nulls>>
    BY <1>1 DEF GetOutside, GetKept, GetRead, GetFails, Reading, writerVars, fcb, temp
  <1>3. /\ disk["null"] = "new"
        /\ \A r \in Rows : data[r] \notin {Absent, Damaged}
    BY ClosedMap DEF ReaderInv
  <1>4. ReaderCore /\ region[w] \in Rows \cup {NoRow} /\ NoRow \notin Rows
    BY RegionMaps DEF ReaderInv
  <1>5. ASSUME NEW r \in Rows \cup {NoRow}, NEW b, NEW shown, Nulls(w, r, b, shown),
               r = NoRow \/ b = data[r],
               IF region[w] = NoRow THEN shown = Outside ELSE shown = data[region[w]]
        PROVE  ReaderCore' /\ first' \in Int /\ (first' >= 0 \/ first' = -NullRowsInMem)
    <2>1. /\ row' = r /\ buf' = b /\ ~noNullFile' /\ KeepsItsNulls'
          /\ first' \in Int /\ (first' >= 0 \/ first' = -NullRowsInMem)
          /\ got' = [reply |-> 1, r |-> region[w], data |-> shown, null |-> NullOf(w)]
      BY <1>2, <1>3, <1>4, <1>5, NullsAnswer
    <2>2. KeepsItsRow'
      BY <1>2, <1>5, <2>1 DEF KeepsItsRow, Rows
    <2>3. GotWhatWasPut'
      BY <1>2, <1>4, <1>5, <2>1 DEF GotWhatWasPut, NullOf, Rows
    <2> QED
      BY <1>2, <1>4, <2>1, <2>2, <2>3 DEF ReaderCore
  <1>6. CASE GetOutside(w)
    BY <1>4, <1>5, <1>6 DEF GetOutside
  <1>7. CASE GetKept(w)
    <2>1. row \in Rows /\ region[w] = row /\ buf = data[row] /\ Nulls(w, row, buf, buf)
      BY <1>4, <1>7 DEF GetKept, ReaderCore, KeepsItsRow
    <2> QED
      BY <1>4, <1>5, <2>1
  <1>8. CASE GetRead(w)
    <2> DEFINE r == region[w]
    <2>1. r \in Rows /\ DataAt(r) = data[r] /\ Nulls(w, r, DataAt(r), DataAt(r))
      BY <1>2, <1>4, <1>8 DEF GetRead, ReaderCore, DataAt
    <2> QED
      BY <1>4, <1>5, <2>1
  <1>9. CASE GetFails(w)
    <2>1. region[w] \in Rows /\ Readable(region[w])
      BY <1>2, <1>3, <1>4, <1>9 DEF GetFails, ReaderCore, DataAt, Readable
    <2>2. Fault("read")
      BY <1>9, <2>1 DEF GetFails
    <2> QED
      BY <2>2 DEF Fault, Clean
  <1> QED
    BY <1>1, <1>6, <1>7, <1>8, <1>9

(* Each row that is got leaves the window of null rows in its place.        *)
LEMMA GetRowMoves ==
    ASSUME ReaderInv, GetRow
    PROVE  first' \in Int /\ (first' >= 0 \/ first' = -NullRowsInMem)
  <1>1. PICK w \in RegionRows : GetOutside(w) \/ GetKept(w) \/ GetRead(w) \/ GetFails(w)
    BY DEF GetRow
  <1>2. WindowOf(w) \in Nat
    BY RegionMaps, WindowOfRow
  <1>3. first' \in {first, WindowOf(w)}
    BY <1>1 DEF GetOutside, GetKept, GetRead, GetFails, Nulls
  <1> QED
    BY <1>2, <1>3 DEF ReaderInv

(* What the reader knows holds whatever it and the writer do.               *)
LEMMA ReaderInvStep ==
    ASSUME WriterInv, WriterInv', ReaderInv, [SystemNext]_<<vars, readerVars>>
    PROVE  ReaderInv'
  <1> USE DEF fileinfo
  <1>1. CASE UNCHANGED <<vars, readerVars>>
    BY <1>1 DEF vars, readerVars, ReaderInv, Clean, ReaderCore, KeepsItsRow, KeepsItsNulls, NullOf,
       RegionRows, GotWhatWasPut
  <1>2. CASE Next /\ UNCHANGED readerVars
    <2>1. CASE head = "new"
      BY <1>1, <1>2, <2>1, ClosedIsStill DEF ReaderInv
    <2>2. CASE head # "new"
      BY <1>2, <2>2 DEF readerVars, ReaderInv
    <2> QED
      BY <2>1, <2>2
  <1>3. ASSUME ReaderNext
        PROVE  UNCHANGED writerVars /\ (Clean' => Clean)
    BY <1>3, ReaderLeaves DEF Clean
  <1>4. CASE FindMap
    <2>1. /\ reader = "none" /\ UNCHANGED <<region, type, open, row, buf, first, nullRows, noNullFile, got>>
          /\ UNCHANGED <<pc, disk>>
          /\ \/ reader' = "head" /\ head' = disk["cellhd"]
             \/ reader' = "failed" /\ head' = head
      BY <1>4, <1>3 DEF FindMap, Fails, Kept, ReaderNext, writerVars
    <2>2. head' = "new" => pc = "closed" /\ disk["cellhd"] = "new"
      BY <2>1 DEF WriterInv, CloseInv, ReaderInv
    <2>3. head' = "new" => ReaderCore'
      BY <2>1, RasterNewAssumption DEF ReaderInv, ReaderCore, KeepsItsRow, KeepsItsNulls, GotWhatWasPut
    <2> QED
      BY <2>1, <2>2, <2>3 DEF ReaderInv
  <1>5. CASE TellType \/ OpenData
    <2>1. /\ reader \in {"head", "type"} /\ UNCHANGED <<region, head, row, buf, first, nullRows, noNullFile, got>>
          /\ UNCHANGED <<pc, disk, kind>>
          /\ reader' # "none"
      BY <1>5, <1>3 DEF TellType, OpenData, Fails, Kept, ReaderNext, writerVars, fcb
    <2>2. ASSUME head = "new", Clean' PROVE ReaderCore'
      <3>1. /\ disk[DataElement] = "new" /\ TypeFound = kind.type /\ ReaderCore
        BY <1>3, <1>5, <2>2, ClosedMap DEF ReaderInv, ReaderNext
      <3>2. reader' \in {"type", "reading"} => type' = kind.type
        BY <1>5, <3>1 DEF TellType, OpenData, Fails, ReaderCore
      <3>3. reader' = "reading" => open' = "new"
        BY <1>5, <3>1 DEF TellType, OpenData, Fails, ReaderCore, DataElement
      <3> QED
        BY <2>1, <3>2, <3>3, RasterNewAssumption
           DEF ReaderInv, ReaderCore, KeepsItsRow, KeepsItsNulls, GotWhatWasPut
    <2> QED
      BY <2>1, <2>2 DEF ReaderInv
  <1>6. CASE GetRow
    <2>1. reader = "reading" /\ UNCHANGED <<reader, region, head, type, open, pc, disk>>
      BY <1>3, <1>6 DEF ReaderNext, GetRow, GetOutside, GetKept, GetRead, GetFails, Reading, writerVars
    <2>2. head = "new" /\ Clean' => ReaderCore'
      BY <1>3, <1>6, GetRowReads DEF ReaderNext
    <2> QED
      BY <1>6, <2>1, <2>2, GetRowMoves DEF ReaderInv
  <1> QED
    BY <1>1, <1>2, <1>4, <1>5, <1>6 DEF SystemNext, ReaderNext

(***************************************************************************)
(* A reader that finds the new header is given, for every row of its region *)
(* and in any order, the data and the null row of one and the same call of  *)
(* the writer, or of its padding: for any number of rows, any window, any   *)
(* region, and wherever the writer is when the reader begins.               *)
(***************************************************************************)
THEOREM RasterReaderReads == System => []ReadsWhatWasPut
  <1>1. SystemInit => WriterInv /\ ReaderInv
    BY TypeOKInit, NullsInvInit, CloseInvInit, WholeInvInit, CleanInvInit, RasterNewAssumption
       DEF SystemInit, ReaderInit, WriterInv, ReaderInv, NothingGot
  <1>2. WriterInv /\ ReaderInv /\ [SystemNext]_<<vars, readerVars>> => WriterInv' /\ ReaderInv'
    <2> SUFFICES ASSUME WriterInv, ReaderInv, [SystemNext]_<<vars, readerVars>>
                 PROVE  WriterInv' /\ ReaderInv'
      OBVIOUS
    <2>1. WriterInv'
      BY WriterInvStep, ReaderLeaves DEF SystemNext
    <2> QED
      BY <2>1, ReaderInvStep
  <1>3. WriterInv /\ ReaderInv => ReadsWhatWasPut
    <2> SUFFICES ASSUME WriterInv, ReaderInv, head = "new", Clean, got.reply # 0
                 PROVE  /\ got.reply = 1
                        /\ IF got.r = NoRow THEN got.data = Outside /\ got.null = Outside
                           ELSE got.data = data[got.r] /\ got.null = nulls[got.r] /\ got.data = got.null
      BY DEF ReadsWhatWasPut, Clean
    <2>1. GotWhatWasPut /\ \A r \in Rows : data[r] = nulls[r]
      BY ClosedMap DEF ReaderInv, ReaderCore
    <2> QED
      BY <2>1 DEF GotWhatWasPut
  <1> QED
    BY <1>1, <1>2, <1>3, PTL DEF System
=============================================================================

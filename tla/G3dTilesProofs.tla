--------------------------- MODULE G3dTilesProofs ---------------------------
(***************************************************************************)
(* The tile cache of lib/g3d agrees with itself and with the files, for any *)
(* number of tiles and elements and any number of failing writes.  The      *)
(* operations of the cache and of the files are reasoned about one by one,  *)
(* as functions (CacheInv, FilesInv, Sound); the steps of the program then  *)
(* put them together (TilesInv, Goes).                                      *)
(***************************************************************************)
EXTENDS G3dTiles, FiniteSetTheorems, WellFoundedInduction, TLAPS

(***************************************************************************)
(* The cache.  The count of the elements not locked is only a natural       *)
(* number at first; that there are as many follows from the queue.          *)
(***************************************************************************)
CacheSet == [names : [Elts -> Tiles \cup {NoTile}],
             locks : [Elts -> {Unlocked, Locked, Inactive}],
             queue : Seq(Elts),
             index : [Tiles -> Elts \cup {NoElt}],
             last : [tile : Tiles \cup {NoTile}, elt : Elts \cup {NoElt}],
             nofUnlocked : Nat, minUnlocked : Int, autoLock : BOOLEAN]

Lives(c, i) == c.locks[i] # Inactive

(* Each element that is not locked is in the queue once.                    *)
QueueOnce(q) == \A k, l \in DOMAIN q : q[k] = q[l] => k = l
Queued(q, i) == \E k \in DOMAIN q : q[k] = i
QueueInv(c) ==
    /\ QueueOnce(c.queue)
    /\ \A i \in Elts : c.locks[i] # Locked <=> Queued(c.queue, i)
    /\ c.nofUnlocked = Len(c.queue)

(* An element that is active has a name; a tile that the table or the memo  *)
(* leads to an element is its name.                                         *)
MemoInv(c) ==
    \/ c.last = NoMemo
    \/ /\ c.last.tile \in Tiles
       /\ c.last.elt = c.index[c.last.tile] /\ c.last.elt # NoElt
NameInv(c) ==
    /\ \A i \in Elts : Lives(c, i) <=> c.names[i] # NoTile
    /\ \A t \in Tiles : c.index[t] # NoElt => c.names[c.index[t]] = t
    /\ MemoInv(c)

CacheInv(c) == c \in CacheSet /\ QueueInv(c) /\ NameInv(c)

(* Nothing moves from one element to another.                               *)
Keeps(c, d) ==
    /\ d.names = c.names /\ d.index = c.index
    /\ \A i \in Elts : Lives(d, i) <=> Lives(c, i)
    /\ c.queue # <<>> => d.queue # <<>>

LEMMA Constants ==
  /\ NoTile \notin Tiles /\ NoElt \notin Elts
  /\ Unlocked # Locked /\ Locked # Inactive /\ Unlocked # Inactive
BY DEF NoTile, NoElt, Tiles, Elts, Unlocked, Locked, Inactive

LEMMA MemoTells ==
  ASSUME NEW c \in CacheSet, MemoInv(c), NEW t \in Tiles
  PROVE  EltOf(c, t) = c.index[t]
BY Constants DEF MemoInv, EltOf, NoMemo, CacheSet

-----------------------------------------------------------------------------
(* The queue.                                                               *)
LEMMA QueueWithout ==
  ASSUME NEW q \in Seq(Elts), QueueOnce(q), NEW i
  PROVE  /\ Without(q, i) \in Seq(Elts) /\ QueueOnce(Without(q, i))
         /\ \A j : Queued(Without(q, i), j) <=> Queued(q, j) /\ j # i
         /\ Len(Without(q, i)) = IF Queued(q, i) THEN Len(q) - 1 ELSE Len(q)
<1>1. CASE ~Queued(q, i)
  BY <1>1 DEF Queued, Without
<1>2. CASE Queued(q, i)
  <2> DEFINE k == CHOOSE m \in DOMAIN q : q[m] = i
             n == Len(q)
             r == [m \in 1 .. n - 1 |-> IF m < k THEN q[m] ELSE q[m + 1]]
  <2>1. k \in DOMAIN q /\ q[k] = i
    BY <1>2 DEF Queued
  <2>2. Without(q, i) = r
    BY <1>2 DEF Queued, Without
  <2> HIDE DEF k
  <2>3. n \in Nat /\ DOMAIN q = 1 .. n /\ k \in 1 .. n /\ \A m \in 1 .. n : q[m] \in Elts
    BY <2>1
  <2>4. r \in Seq(Elts) /\ Len(r) = n - 1 /\ DOMAIN r = 1 .. n - 1
    <3>1. \A m \in 1 .. n - 1 : m \in 1 .. n /\ m + 1 \in 1 .. n
      BY <2>3
    <3>2. r \in [1 .. n - 1 -> Elts] /\ n - 1 \in Nat
      BY <2>3, <3>1
    <3> QED
      BY <3>2
  <2>5. \A m \in 1 .. n - 1 :
           \/ m < k /\ m \in 1 .. n /\ r[m] = q[m]
           \/ ~(m < k) /\ m + 1 \in 1 .. n /\ r[m] = q[m + 1]
    BY <2>3
  <2> HIDE DEF r, n
  <2>6. QueueOnce(r)
    <3> SUFFICES ASSUME NEW l \in 1 .. n - 1, NEW m \in 1 .. n - 1, r[l] = r[m] PROVE l = m
      BY <2>4 DEF QueueOnce
    <3>1. CASE l < k /\ m < k
      BY <2>3, <2>5, <3>1 DEF QueueOnce
    <3>2. CASE ~(l < k) /\ ~(m < k)
      <4>1. l + 1 = m + 1
        BY <2>3, <2>5, <3>2 DEF QueueOnce
      <4> QED
        BY <4>1
    <3>3. CASE l < k /\ ~(m < k)
      <4>1. l = m + 1
        BY <2>3, <2>5, <3>3 DEF QueueOnce
      <4> QED
        BY <2>3, <3>3, <4>1
    <3>4. CASE ~(l < k) /\ m < k
      <4>1. l + 1 = m
        BY <2>3, <2>5, <3>4 DEF QueueOnce
      <4> QED
        BY <2>3, <3>4, <4>1
    <3> QED
      BY <3>1, <3>2, <3>3, <3>4
  <2>7. \A m \in 1 .. n - 1 : r[m] # i /\ Queued(q, r[m])
    BY <2>1, <2>3, <2>5 DEF QueueOnce, Queued
  <2>8. ASSUME NEW j, Queued(q, j), j # i PROVE Queued(r, j)
    <3>1. PICK l \in 1 .. n : q[l] = j
      BY <2>3, <2>8 DEF Queued
    <3>2. CASE l < k
      BY <2>3, <2>4, <2>5, <3>1, <3>2 DEF Queued
    <3>3. CASE l > k
      <4>1. l - 1 \in 1 .. n - 1 /\ ~(l - 1 < k) /\ (l - 1) + 1 = l
        BY <2>3, <3>3
      <4> QED
        BY <2>4, <2>5, <3>1, <4>1 DEF Queued
    <3> QED
      BY <2>1, <2>3, <2>8, <3>1, <3>2, <3>3
  <2>9. Len(Without(q, i)) = Len(q) - 1
    BY <2>2, <2>4 DEF n
  <2> QED
    BY <1>2, <2>2, <2>4, <2>6, <2>7, <2>8, <2>9 DEF Queued
<1> QED
  BY <1>1, <1>2

LEMMA QueueAppend ==
  ASSUME NEW q \in Seq(Elts), QueueOnce(q), NEW i \in Elts, ~Queued(q, i)
  PROVE  /\ Append(q, i) \in Seq(Elts) /\ QueueOnce(Append(q, i))
         /\ \A j : Queued(Append(q, i), j) <=> Queued(q, j) \/ j = i
         /\ Len(Append(q, i)) = Len(q) + 1
<1>1. /\ Append(q, i) \in Seq(Elts) /\ Len(Append(q, i)) = Len(q) + 1 /\ Len(q) \in Nat
      /\ DOMAIN q = 1 .. Len(q) /\ DOMAIN Append(q, i) = 1 .. Len(q) + 1
      /\ Append(q, i)[Len(q) + 1] = i /\ \A k \in 1 .. Len(q) : Append(q, i)[k] = q[k]
  OBVIOUS
<1> QED
  BY <1>1 DEF QueueOnce, Queued

LEMMA QueuePut ==
  ASSUME NEW q \in Seq(Elts), QueueOnce(q), NEW i \in Elts, ~Queued(q, i)
  PROVE  /\ <<i>> \o q \in Seq(Elts) /\ QueueOnce(<<i>> \o q)
         /\ \A j : Queued(<<i>> \o q, j) <=> Queued(q, j) \/ j = i
         /\ Len(<<i>> \o q) = Len(q) + 1
<1> DEFINE r == <<i>> \o q
           n == Len(q)
<1>1. <<i>> \in Seq(Elts) /\ Len(<<i>>) = 1 /\ <<i>>[1] = i /\ n \in Nat /\ DOMAIN q = 1 .. n
  OBVIOUS
<1>2. r \in Seq(Elts) /\ Len(r) = n + 1 /\ DOMAIN r = 1 .. n + 1
  BY <1>1
<1>3. r[1] = i /\ \A k \in 1 .. n : r[k + 1] = q[k]
  BY <1>1
<1> HIDE DEF r, n
<1>4. \A k \in 1 .. n + 1 : k = 1 \/ (k - 1 \in 1 .. n /\ (k - 1) + 1 = k)
  BY <1>1
<1>5. \A k \in 1 .. n + 1 : (k = 1 /\ r[k] = i) \/ (k - 1 \in 1 .. n /\ r[k] = q[k - 1])
  BY <1>3, <1>4
<1>6. QueueOnce(r)
  <2> SUFFICES ASSUME NEW k \in 1 .. n + 1, NEW l \in 1 .. n + 1, r[k] = r[l] PROVE k = l
    BY <1>2 DEF QueueOnce
  <2>1. CASE k = 1 \/ l = 1
    BY <1>1, <1>5, <2>1 DEF Queued
  <2>2. CASE k # 1 /\ l # 1
    <3>1. k - 1 = l - 1
      BY <1>1, <1>5, <2>2 DEF QueueOnce
    <3> QED
      BY <1>1, <3>1
  <2> QED
    BY <2>1, <2>2
<1>7. \A j : Queued(r, j) <=> Queued(q, j) \/ j = i
  <2>1. \A k \in 1 .. n : k + 1 \in 1 .. n + 1
    BY <1>1
  <2>2. 1 \in 1 .. n + 1
    BY <1>1
  <2>3. ASSUME NEW j, Queued(r, j) PROVE Queued(q, j) \/ j = i
    BY <1>1, <1>2, <1>5, <2>3 DEF Queued
  <2>4. ASSUME NEW j, Queued(q, j) PROVE Queued(r, j)
    BY <1>1, <1>2, <1>3, <2>1, <2>4 DEF Queued
  <2>5. Queued(r, i)
    BY <1>2, <1>3, <2>2 DEF Queued
  <2> QED
    BY <2>3, <2>4, <2>5
<1> QED
  BY <1>2, <1>6, <1>7 DEF r, n

-----------------------------------------------------------------------------
(* The operations of the cache, field by field.                             *)
LEMMA NameRemovedIs ==
  ASSUME NEW c \in CacheSet, NEW t \in Tiles
  PROVE  LET d == NameRemoved(c, t)
         IN  /\ d \in CacheSet
             /\ d.names = c.names /\ d.locks = c.locks /\ d.queue = c.queue
             /\ d.index = [c.index EXCEPT ![t] = NoElt]
             /\ d.last = IF c.last.tile = t THEN NoMemo ELSE c.last
             /\ d.nofUnlocked = c.nofUnlocked /\ d.autoLock = c.autoLock
<1>1. NoMemo \in [tile : Tiles \cup {NoTile}, elt : Elts \cup {NoElt}]
  BY DEF NoMemo
<1> QED
  BY <1>1 DEF NameRemoved, CacheSet

LEMMA LookedIs ==
  ASSUME NEW c \in CacheSet, MemoInv(c), NEW t \in Tiles
  PROVE  LET d == Looked(c, t)
         IN  /\ d \in CacheSet /\ MemoInv(d)
             /\ d.names = c.names /\ d.locks = c.locks /\ d.queue = c.queue /\ d.index = c.index
             /\ d.nofUnlocked = c.nofUnlocked /\ d.autoLock = c.autoLock
<1>1. EltOf(c, t) = c.index[t]
  BY MemoTells
<1>2. CASE c.index[t] = NoElt
  BY <1>1, <1>2 DEF Looked
<1>3. CASE c.index[t] # NoElt
  <2> DEFINE d == [c EXCEPT !.last = [tile |-> t, elt |-> c.index[t]]]
  <2>1. Looked(c, t) = d
    BY <1>1, <1>3 DEF Looked
  <2>2. /\ d \in CacheSet /\ d.last = [tile |-> t, elt |-> c.index[t]]
        /\ d.names = c.names /\ d.locks = c.locks /\ d.queue = c.queue /\ d.index = c.index
        /\ d.nofUnlocked = c.nofUnlocked /\ d.autoLock = c.autoLock
    BY DEF CacheSet
  <2> HIDE DEF d
  <2>3. MemoInv(d)
    BY <1>3, <2>2 DEF MemoInv
  <2> QED
    BY <2>1, <2>2, <2>3
<1> QED
  BY <1>2, <1>3

LEMMA LockedIs ==
  ASSUME NEW c \in CacheSet, QueueInv(c), NEW i \in Elts
  PROVE  LET d == LockedElt(c, i)
         IN  /\ d \in CacheSet /\ QueueInv(d)
             /\ d.names = c.names /\ d.index = c.index /\ d.last = c.last
             /\ d.autoLock = c.autoLock
             /\ d.locks = [c.locks EXCEPT ![i] = Locked]
             /\ Len(d.queue) >= Len(c.queue) - 1
             /\ ~Queued(d.queue, i)
<1>1. CASE c.locks[i] = Locked
  <2>1. LockedElt(c, i) = c /\ c.locks = [c.locks EXCEPT ![i] = Locked] /\ Len(c.queue) \in Nat
    BY <1>1 DEF LockedElt, CacheSet
  <2> QED
    BY <1>1, <2>1 DEF QueueInv
<1>2. CASE c.locks[i] # Locked
  <2> DEFINE d == LockedElt(c, i)
  <2>1. /\ c.queue \in Seq(Elts) /\ QueueOnce(c.queue) /\ Queued(c.queue, i)
        /\ c.nofUnlocked = Len(c.queue)
    BY <1>2 DEF CacheSet, QueueInv
  <2>2. /\ Without(c.queue, i) \in Seq(Elts) /\ QueueOnce(Without(c.queue, i))
        /\ \A j : Queued(Without(c.queue, i), j) <=> Queued(c.queue, j) /\ j # i
        /\ Len(Without(c.queue, i)) = Len(c.queue) - 1
    BY <2>1, QueueWithout
  <2>3. Len(c.queue) \in Nat /\ Len(c.queue) - 1 \in Nat
    <3>1. Len(Without(c.queue, i)) \in Nat
      BY <2>2
    <3> QED
      BY <2>1, <2>2, <3>1
  <2>4. d = [c EXCEPT !.queue = Without(c.queue, i), !.locks[i] = Locked,
                      !.nofUnlocked = c.nofUnlocked - 1]
    BY <1>2 DEF LockedElt
  <2>5. /\ d.names = c.names /\ d.index = c.index /\ d.last = c.last /\ d.autoLock = c.autoLock
        /\ d.locks = [c.locks EXCEPT ![i] = Locked] /\ d.queue = Without(c.queue, i)
        /\ d.nofUnlocked = Len(c.queue) - 1
    BY <2>1, <2>4 DEF CacheSet
  <2>6. d \in CacheSet
    <3>1. [c.locks EXCEPT ![i] = Locked] \in [Elts -> {Unlocked, Locked, Inactive}]
      BY DEF CacheSet
    <3>2. c.nofUnlocked - 1 \in Nat
      BY <2>1, <2>3
    <3>3. d = [c EXCEPT !.queue = Without(c.queue, i), !.locks = [c.locks EXCEPT ![i] = Locked],
                        !.nofUnlocked = c.nofUnlocked - 1]
      BY <2>4 DEF CacheSet
    <3> HIDE DEF d
    <3> QED
      BY <2>2, <3>1, <3>2, <3>3 DEF CacheSet
  <2> HIDE DEF d
  <2>7. \A j \in Elts : d.locks[j] # Locked <=> Queued(d.queue, j)
    BY <2>2, <2>5 DEF QueueInv, CacheSet
  <2>8. QueueInv(d)
    BY <2>2, <2>5, <2>7 DEF QueueInv
  <2> QED
    BY <2>2, <2>3, <2>5, <2>6, <2>8 DEF d
<1> QED
  BY <1>1, <1>2

LEMMA UnlockedIs ==
  ASSUME NEW c \in CacheSet, QueueInv(c), NEW i \in Elts, c.locks[i] # Inactive
  PROVE  LET d == UnlockedElt(c, i)
         IN  /\ d \in CacheSet /\ QueueInv(d)
             /\ d.names = c.names /\ d.index = c.index /\ d.last = c.last
             /\ d.autoLock = c.autoLock
             /\ d.locks = [c.locks EXCEPT ![i] = Unlocked]
             /\ Len(d.queue) >= Len(c.queue)
             /\ Queued(d.queue, i)
<1>1. CASE c.locks[i] = Unlocked
  <2>1. UnlockedElt(c, i) = c /\ c.locks = [c.locks EXCEPT ![i] = Unlocked] /\ Len(c.queue) \in Nat
    BY <1>1 DEF UnlockedElt, CacheSet
  <2> QED
    BY <1>1, <2>1, Constants DEF QueueInv
<1>2. CASE c.locks[i] # Unlocked
  <2> DEFINE d == UnlockedElt(c, i)
  <2>0. c.locks[i] = Locked
    BY <1>2 DEF CacheSet
  <2>1. /\ c.queue \in Seq(Elts) /\ QueueOnce(c.queue) /\ ~Queued(c.queue, i)
        /\ c.nofUnlocked = Len(c.queue) /\ Len(c.queue) \in Nat
    BY <2>0 DEF CacheSet, QueueInv
  <2>2. /\ Append(c.queue, i) \in Seq(Elts) /\ QueueOnce(Append(c.queue, i))
        /\ \A j : Queued(Append(c.queue, i), j) <=> Queued(c.queue, j) \/ j = i
        /\ Len(Append(c.queue, i)) = Len(c.queue) + 1
    BY <2>1, QueueAppend
  <2>4. d = [c EXCEPT !.queue = Append(c.queue, i), !.locks[i] = Unlocked,
                      !.nofUnlocked = c.nofUnlocked + 1]
    BY <1>2, <2>0 DEF UnlockedElt
  <2>5. /\ d.names = c.names /\ d.index = c.index /\ d.last = c.last /\ d.autoLock = c.autoLock
        /\ d.locks = [c.locks EXCEPT ![i] = Unlocked] /\ d.queue = Append(c.queue, i)
        /\ d.nofUnlocked = Len(c.queue) + 1
    BY <2>1, <2>4 DEF CacheSet
  <2>6. d \in CacheSet
    <3>1. [c.locks EXCEPT ![i] = Unlocked] \in [Elts -> {Unlocked, Locked, Inactive}]
      BY DEF CacheSet
    <3>2. c.nofUnlocked + 1 \in Nat
      BY <2>1
    <3>3. d = [c EXCEPT !.queue = Append(c.queue, i), !.locks = [c.locks EXCEPT ![i] = Unlocked],
                        !.nofUnlocked = c.nofUnlocked + 1]
      BY <2>4 DEF CacheSet
    <3> HIDE DEF d
    <3> QED
      BY <2>2, <3>1, <3>2, <3>3 DEF CacheSet
  <2> HIDE DEF d
  <2>7. \A j \in Elts : d.locks[j] # Locked <=> Queued(d.queue, j)
    BY <2>2, <2>5, Constants DEF QueueInv, CacheSet
  <2>8. QueueInv(d)
    BY <2>2, <2>5, <2>7 DEF QueueInv
  <2> QED
    BY <2>1, <2>2, <2>5, <2>6, <2>8 DEF d
<1> QED
  BY <1>1, <1>2

(***************************************************************************)
(* The operations on a cache that agrees with itself.                       *)
(***************************************************************************)
LEMMA NameRemovedInv ==
  ASSUME NEW c, CacheInv(c), NEW t \in Tiles
  PROVE  LET d == NameRemoved(c, t)
         IN  /\ CacheInv(d)
             /\ d.names = c.names /\ d.locks = c.locks /\ d.queue = c.queue
             /\ d.index = [c.index EXCEPT ![t] = NoElt] /\ d.autoLock = c.autoLock
<1> DEFINE d == NameRemoved(c, t)
<1>1. /\ d \in CacheSet
      /\ d.names = c.names /\ d.locks = c.locks /\ d.queue = c.queue
      /\ d.index = [c.index EXCEPT ![t] = NoElt]
      /\ d.last = IF c.last.tile = t THEN NoMemo ELSE c.last
      /\ d.nofUnlocked = c.nofUnlocked /\ d.autoLock = c.autoLock
  BY NameRemovedIs DEF CacheInv
<1> HIDE DEF d
<1>2. c.index \in [Tiles -> Elts \cup {NoElt}]
  BY DEF CacheInv, CacheSet
<1>3. QueueInv(d)
  BY <1>1 DEF CacheInv, QueueInv
<1>4. MemoInv(d)
  BY <1>1, <1>2 DEF CacheInv, NameInv, MemoInv
<1>5. NameInv(d)
  BY <1>1, <1>2, <1>4 DEF CacheInv, NameInv, Lives
<1> QED
  BY <1>1, <1>3, <1>5 DEF CacheInv, d

LEMMA LookedInv ==
  ASSUME NEW c, CacheInv(c), NEW t \in Tiles
  PROVE  LET d == Looked(c, t)
         IN  /\ CacheInv(d) /\ Keeps(c, d)
             /\ d.locks = c.locks /\ d.queue = c.queue /\ d.autoLock = c.autoLock
<1>1. LET d == Looked(c, t)
      IN  /\ d \in CacheSet /\ MemoInv(d)
          /\ d.names = c.names /\ d.locks = c.locks /\ d.queue = c.queue /\ d.index = c.index
          /\ d.nofUnlocked = c.nofUnlocked /\ d.autoLock = c.autoLock
  BY LookedIs DEF CacheInv, NameInv
<1> QED
  BY <1>1 DEF CacheInv, NameInv, QueueInv, Lives, Keeps

LEMMA LockedInv ==
  ASSUME NEW c, CacheInv(c), NEW i \in Elts, Lives(c, i)
  PROVE  LET d == LockedElt(c, i)
         IN  /\ CacheInv(d) /\ d.names = c.names /\ d.index = c.index
             /\ \A j \in Elts : Lives(d, j) <=> Lives(c, j)
             /\ Len(d.queue) >= Len(c.queue) - 1
<1> DEFINE d == LockedElt(c, i)
<1>1. /\ d \in CacheSet /\ QueueInv(d)
      /\ d.names = c.names /\ d.index = c.index /\ d.last = c.last
      /\ d.locks = [c.locks EXCEPT ![i] = Locked]
      /\ Len(d.queue) >= Len(c.queue) - 1
  BY LockedIs DEF CacheInv
<1> HIDE DEF d
<1>2. \A j \in Elts : Lives(d, j) <=> Lives(c, j)
  BY <1>1, Constants DEF Lives, CacheInv, CacheSet
<1>3. NameInv(d)
  BY <1>1, <1>2 DEF CacheInv, NameInv, MemoInv
<1> QED
  BY <1>1, <1>2, <1>3 DEF CacheInv, d

LEMMA UnlockedInv ==
  ASSUME NEW c, CacheInv(c), NEW i \in Elts, Lives(c, i)
  PROVE  LET d == UnlockedElt(c, i) IN CacheInv(d) /\ Keeps(c, d)
<1> DEFINE d == UnlockedElt(c, i)
<1>1. /\ d \in CacheSet /\ QueueInv(d)
      /\ d.names = c.names /\ d.index = c.index /\ d.last = c.last
      /\ d.locks = [c.locks EXCEPT ![i] = Unlocked]
      /\ Len(d.queue) >= Len(c.queue) /\ Queued(d.queue, i)
  BY UnlockedIs DEF CacheInv, Lives
<1> HIDE DEF d
<1>2. \A j \in Elts : Lives(d, j) <=> Lives(c, j)
  BY <1>1, Constants DEF Lives, CacheInv, CacheSet
<1>3. NameInv(d)
  BY <1>1, <1>2 DEF CacheInv, NameInv, MemoInv
<1>4. d.queue # <<>>
  BY <1>1 DEF Queued
<1> QED
  BY <1>1, <1>2, <1>3, <1>4 DEF CacheInv, Keeps, d

(* A lock that is given leaves an element in the queue.                     *)
LEMMA QueueLong ==
  ASSUME NEW q \in Seq(Elts), NEW r \in Seq(Elts), Len(q) > 1, Len(r) >= Len(q) - 1
  PROVE  r # <<>>
OBVIOUS

LEMMA IndexLives ==
  ASSUME NEW c, CacheInv(c), NEW t \in Tiles, c.index[t] # NoElt
  PROVE  c.index[t] \in Elts /\ Lives(c, c.index[t]) /\ c.names[c.index[t]] = t
<1>1. c.index[t] \in Elts /\ c.names[c.index[t]] = t
  BY DEF CacheInv, NameInv, CacheSet
<1> QED
  BY <1>1, Constants DEF CacheInv, NameInv

LEMMA HitInv ==
  ASSUME NEW c, CacheInv(c), NEW t \in Tiles, c.index[t] # NoElt
  PROVE  CacheInv(Hit(c, t)) /\ Keeps(c, Hit(c, t))
<1> DEFINE i == c.index[t]
           d == Looked(c, t)
<1>1. EltOf(c, t) = i /\ i \in Elts /\ Lives(c, i)
  BY MemoTells, IndexLives DEF CacheInv, NameInv
<1>2. CacheInv(d) /\ Keeps(c, d) /\ Lives(d, i)
  BY <1>1, LookedInv DEF Keeps
<1> HIDE DEF d, i
<1>3. CASE d.autoLock /\ d.locks[i] = Unlocked /\ MayLock(d)
  <2> DEFINE e == LockedElt(d, i)
  <2>1. Hit(c, t) = e
    BY <1>1, <1>3 DEF Hit, d
  <2>2. /\ CacheInv(e) /\ e.names = d.names /\ e.index = d.index
        /\ \A j \in Elts : Lives(e, j) <=> Lives(d, j)
        /\ Len(e.queue) >= Len(d.queue) - 1
    BY <1>1, <1>2, LockedInv
  <2> HIDE DEF e
  <2>3. e.queue # <<>>
    <3>1. d.queue \in Seq(Elts) /\ e.queue \in Seq(Elts) /\ Len(d.queue) > 1
      BY <1>2, <1>3, <2>2 DEF CacheInv, CacheSet, MayLock, OneUnlockedOnly
    <3> QED
      BY <2>2, <3>1, QueueLong
  <2> QED
    BY <1>2, <2>1, <2>2, <2>3 DEF Keeps
<1>4. CASE ~(d.autoLock /\ d.locks[i] = Unlocked /\ MayLock(d))
  BY <1>1, <1>2, <1>4 DEF Hit, d
<1> QED
  BY <1>3, <1>4

(* The element that is taken is the head of the queue, and no longer has    *)
(* the name of another tile.                                                *)
LEMMA HeadIs ==
  ASSUME NEW c, CacheInv(c), c.queue # <<>>
  PROVE  Head(c.queue) \in Elts /\ c.locks[Head(c.queue)] # Locked
<1>1. c.queue \in Seq(Elts) /\ Head(c.queue) = c.queue[1] /\ 1 \in DOMAIN c.queue
  BY DEF CacheInv, CacheSet
<1>2. Head(c.queue) \in Elts /\ Queued(c.queue, Head(c.queue))
  BY <1>1 DEF Queued
<1> QED
  BY <1>2 DEF CacheInv, QueueInv

LEMMA TakenInv ==
  ASSUME NEW c, CacheInv(c), NEW t \in Tiles, c.index[t] = NoElt, c.queue # <<>>,
         NEW i, i = Head(c.queue), Lives(c, i) => c.index[c.names[i]] # i
  PROVE  LET d == Taken(c, t, i)
         IN  /\ CacheInv(d)
             /\ d.names = [c.names EXCEPT ![i] = t] /\ d.index = [c.index EXCEPT ![t] = i]
             /\ \A j \in Elts : Lives(d, j) <=> Lives(c, j) \/ j = i
             /\ d.queue # <<>>
<1> DEFINE named == [c EXCEPT !.index[t] = i, !.locks[i] = Unlocked, !.names[i] = t]
           d == LockedElt(named, i)
           e == Looked(d, t)
           u == UnlockedElt(e, i)
<1>0. c \in CacheSet /\ i \in Elts /\ c.locks[i] # Locked
  BY HeadIs DEF CacheInv
<1>1. /\ named \in CacheSet
      /\ named.names = [c.names EXCEPT ![i] = t] /\ named.index = [c.index EXCEPT ![t] = i]
      /\ named.locks = [c.locks EXCEPT ![i] = Unlocked]
      /\ named.queue = c.queue /\ named.last = c.last /\ named.nofUnlocked = c.nofUnlocked
  BY <1>0 DEF CacheSet
<1> HIDE DEF named
<1>2. QueueInv(named)
  BY <1>0, <1>1, Constants DEF CacheInv, QueueInv, CacheSet
<1>3. /\ d \in CacheSet /\ QueueInv(d)
      /\ d.names = [c.names EXCEPT ![i] = t] /\ d.index = [c.index EXCEPT ![t] = i]
      /\ d.last = c.last /\ d.locks = [named.locks EXCEPT ![i] = Locked]
      /\ Len(d.queue) >= Len(c.queue) - 1
  BY <1>0, <1>1, <1>2, LockedIs
<1> HIDE DEF d
<1>4. /\ MemoInv(d) /\ \A j \in Elts : Lives(d, j) <=> d.names[j] # NoTile
      /\ \A s \in Tiles : d.index[s] # NoElt => d.names[d.index[s]] = s
      /\ \A j \in Elts : Lives(d, j) <=> Lives(c, j) \/ j = i
  <2>1. MemoInv(d)
    BY <1>0, <1>3 DEF CacheInv, NameInv, MemoInv, CacheSet
  <2>2. \A j \in Elts : Lives(d, j) <=> Lives(c, j) \/ j = i
    BY <1>0, <1>1, <1>3, Constants DEF Lives, CacheSet
  <2>3. \A j \in Elts : Lives(d, j) <=> d.names[j] # NoTile
    BY <1>0, <1>3, <2>2, Constants DEF CacheInv, NameInv, CacheSet
  <2>4. ASSUME NEW s \in Tiles, d.index[s] # NoElt PROVE d.names[d.index[s]] = s
    <3>1. CASE s = t
      BY <1>0, <1>3, <3>1 DEF CacheSet
    <3>2. CASE s # t
      <4>1. d.index[s] = c.index[s] /\ c.index[s] # NoElt
        BY <1>0, <1>3, <2>4, <3>2 DEF CacheSet
      <4>2. c.index[s] \in Elts /\ Lives(c, c.index[s]) /\ c.names[c.index[s]] = s
        BY <4>1, IndexLives
      <4>3. c.index[s] # i
        BY <4>2
      <4> QED
        BY <1>0, <1>3, <4>1, <4>2, <4>3 DEF CacheSet
    <3> QED
      BY <3>1, <3>2
  <2> QED
    BY <2>1, <2>2, <2>3, <2>4
<1>5. CacheInv(d)
  BY <1>3, <1>4 DEF CacheInv, NameInv
<1>6. CASE c.autoLock /\ MayLock(c)
  <2>1. Taken(c, t, i) = d
    BY <1>6 DEF Taken, d, named
  <2>2. d.queue # <<>>
    BY <1>0, <1>3, <1>6, QueueLong DEF CacheSet, MayLock, OneUnlockedOnly
  <2> QED
    BY <1>3, <1>4, <1>5, <2>1, <2>2
<1>7. CASE ~(c.autoLock /\ MayLock(c))
  <2>1. Taken(c, t, i) = u
    BY <1>7 DEF Taken, d, named
  <2>2. CacheInv(e) /\ Keeps(d, e) /\ e.locks = d.locks
    BY <1>5, LookedInv
  <2> HIDE DEF e
  <2>3. Lives(e, i)
    BY <1>0, <1>4, <2>2 DEF Keeps
  <2>4. CacheInv(u) /\ Keeps(e, u)
    BY <1>0, <2>2, <2>3, UnlockedInv
  <2>5. Queued(u.queue, i)
    BY <1>0, <2>2, <2>3, UnlockedIs DEF CacheInv, Lives
  <2> HIDE DEF u
  <2>6. u.queue # <<>>
    BY <2>5 DEF Queued
  <2> QED
    BY <1>3, <1>4, <2>1, <2>2, <2>4, <2>6 DEF Keeps
<1> QED
  BY <1>6, <1>7

LEMMA RemovedInv ==
  ASSUME NEW c, CacheInv(c), NEW t \in Tiles, c.index[t] # NoElt
  PROVE  LET d == Removed(c, t)
             i == c.index[t]
         IN  /\ CacheInv(d)
             /\ d.names = [c.names EXCEPT ![i] = NoTile]
             /\ d.index = [c.index EXCEPT ![t] = NoElt]
             /\ \A j \in Elts : Lives(d, j) <=> Lives(c, j) /\ j # i
             /\ d.queue # <<>>
<1> DEFINE i == c.index[t]
           l == Looked(c, t)
           e == NameRemoved(l, t)
           q == <<i>> \o Without(e.queue, i)
           n == IF c.locks[i] = Locked THEN e.nofUnlocked + 1 ELSE e.nofUnlocked
           d == [e EXCEPT !.queue = q, !.locks[i] = Inactive, !.names[i] = NoTile, !.nofUnlocked = n]
<1>1. EltOf(c, t) = i /\ i \in Elts /\ Lives(c, i) /\ c.names[i] = t
  BY MemoTells, IndexLives DEF CacheInv, NameInv
<1>2. CacheInv(l) /\ Keeps(c, l) /\ l.locks = c.locks /\ l.queue = c.queue
  BY LookedInv
<1>3. /\ CacheInv(e) /\ e.names = c.names /\ e.locks = c.locks /\ e.queue = c.queue
      /\ e.index = [c.index EXCEPT ![t] = NoElt]
  BY <1>2, NameRemovedInv DEF Keeps
<1>4. Removed(c, t) = d
  BY <1>1 DEF Removed
<1> HIDE DEF e
<1>5. /\ e \in CacheSet /\ QueueOnce(e.queue) /\ e.queue \in Seq(Elts)
      /\ e.nofUnlocked = Len(e.queue) /\ Len(e.queue) \in Nat
      /\ \A j \in Elts : c.locks[j] # Locked <=> Queued(e.queue, j)
  BY <1>3 DEF CacheInv, QueueInv, CacheSet
<1>6. /\ Without(e.queue, i) \in Seq(Elts) /\ QueueOnce(Without(e.queue, i))
      /\ \A j : Queued(Without(e.queue, i), j) <=> Queued(e.queue, j) /\ j # i
      /\ Len(Without(e.queue, i)) = IF Queued(e.queue, i) THEN Len(e.queue) - 1 ELSE Len(e.queue)
  BY <1>5, QueueWithout
<1>7. /\ q \in Seq(Elts) /\ QueueOnce(q)
      /\ \A j : Queued(q, j) <=> Queued(Without(e.queue, i), j) \/ j = i
      /\ Len(q) = Len(Without(e.queue, i)) + 1
  BY <1>1, <1>6, QueuePut
<1> HIDE DEF q
<1>8. n = Len(q) /\ n \in Nat
  BY <1>1, <1>5, <1>6, <1>7
<1> HIDE DEF n, i
<1>9. /\ d \in CacheSet
      /\ d.names = [c.names EXCEPT ![i] = NoTile] /\ d.index = [c.index EXCEPT ![t] = NoElt]
      /\ d.locks = [c.locks EXCEPT ![i] = Inactive] /\ d.queue = q /\ d.last = e.last
      /\ d.nofUnlocked = n
  <2>1. /\ [c.names EXCEPT ![i] = NoTile] \in [Elts -> Tiles \cup {NoTile}]
        /\ [c.locks EXCEPT ![i] = Inactive] \in [Elts -> {Unlocked, Locked, Inactive}]
    BY DEF CacheInv, CacheSet
  <2>2. d = [e EXCEPT !.queue = q, !.locks = [c.locks EXCEPT ![i] = Inactive],
                      !.names = [c.names EXCEPT ![i] = NoTile], !.nofUnlocked = n]
    BY <1>3, <1>5 DEF CacheSet
  <2> HIDE DEF d
  <2> QED
    BY <1>3, <1>5, <1>7, <1>8, <2>1, <2>2 DEF CacheSet
<1> HIDE DEF d
<1>c. c.names \in [Elts -> Tiles \cup {NoTile}] /\ c.index \in [Tiles -> Elts \cup {NoElt}]
      /\ c.locks \in [Elts -> {Unlocked, Locked, Inactive}]
  BY DEF CacheInv, CacheSet
<1>10. QueueInv(d)
  BY <1>1, <1>5, <1>6, <1>7, <1>8, <1>9, <1>c, Constants DEF QueueInv
<1>11. \A j \in Elts : Lives(d, j) <=> Lives(c, j) /\ j # i
  BY <1>1, <1>9, <1>c DEF Lives
<1>12. NameInv(d)
  <2>1. MemoInv(d)
    BY <1>3, <1>9 DEF CacheInv, NameInv, MemoInv
  <2>2. \A j \in Elts : Lives(d, j) <=> d.names[j] # NoTile
    BY <1>1, <1>9, <1>11, <1>c DEF CacheInv, NameInv
  <2>3. \A s \in Tiles : d.index[s] # NoElt => d.names[d.index[s]] = s
    <3> SUFFICES ASSUME NEW s \in Tiles, d.index[s] # NoElt PROVE d.names[d.index[s]] = s
      OBVIOUS
    <3>1. s # t /\ d.index[s] = c.index[s] /\ c.index[s] # NoElt
      BY <1>9, <1>c
    <3>2. c.index[s] \in Elts /\ c.names[c.index[s]] = s
      BY <3>1, IndexLives
    <3> QED
      BY <1>1, <1>9, <1>c, <3>1, <3>2
  <2> QED
    BY <2>1, <2>2, <2>3 DEF NameInv
<1>13. q # <<>>
  BY <1>7 DEF Queued
<1> QED
  BY <1>4, <1>9, <1>10, <1>11, <1>12, <1>13 DEF CacheInv, i

LEMMA StuckInv ==
  ASSUME NEW c, CacheInv(c), NEW t \in Tiles, c.index[t] # NoElt
  PROVE  LET d == StuckElt(c, t)
         IN  /\ CacheInv(d) /\ d.names = c.names /\ d.index = c.index
             /\ \A j \in Elts : Lives(d, j) <=> Lives(c, j)
<1>1. EltOf(c, t) = c.index[t] /\ c.index[t] \in Elts /\ Lives(c, c.index[t])
  BY MemoTells, IndexLives DEF CacheInv, NameInv
<1>2. CacheInv(Looked(c, t)) /\ Keeps(c, Looked(c, t))
  BY LookedInv
<1>3. Lives(Looked(c, t), c.index[t])
  BY <1>1, <1>2 DEF Keeps
<1> QED
  BY <1>1, <1>2, <1>3, LockedInv DEF StuckElt, Keeps

(* A set of natural numbers has a least one.                                *)
LEMMA Least ==
  ASSUME NEW T, T \subseteq Nat, T # {} PROVE \E x \in T : \A y \in T : x <= y
<1> DEFINE R == {ss \in Nat \X Nat : ss[1] < ss[2]}
<1>1. IsWellFoundedOn(R, Nat)
  BY NatLessThanWellFounded DEF OpToRel
<1> HIDE DEF R
<1>2. PICK x \in T : \A y \in T : ~(<<y, x>> \in R)
  BY <1>1, WFMin
<1>3. \A y \in T : ~(y < x)
  BY <1>2 DEF R
<1>4. \A y \in T : x <= y
  BY <1>3
<1> QED
  BY <1>4

(* G3d_unlockAll: one element of the loop, and the loop up to element n.    *)
UnlockStep(c, k) ==
    IF c.locks[k - 1] = Locked THEN UnlockedElt(Looked(c, c.names[k - 1]), k - 1) ELSE c
UnlockedUpTo(g, n) ==
    g = [k \in 0 .. n |-> IF k = 0 THEN cache ELSE UnlockStep(g[k - 1], k)]

LEMMA UnlockAllIs == UnlockedUpTo(AllUnlocked, NElts)
<1>1. ASSUME NEW n \in Nat PROVE \E g : UnlockedUpTo(g, n)
  <2> DEFINE T == {m \in Nat : ~\E g : UnlockedUpTo(g, m)}
  <2>1. SUFFICES ASSUME T # {} PROVE FALSE
    OBVIOUS
  <2>2. PICK x \in T : \A y \in T : x <= y
    BY <2>1, Least
  <2>3. CASE x = 0
    <3> DEFINE g == [k \in 0 .. 0 |-> cache]
    <3>1. \A k \in 0 .. 0 : k = 0
      OBVIOUS
    <3>2. UnlockedUpTo(g, 0)
      BY <3>1 DEF UnlockedUpTo
    <3> QED
      BY <2>3, <3>2
  <2>4. CASE x # 0
    <3>1. x - 1 \in Nat /\ x - 1 \notin T
      BY <2>2, <2>4
    <3>2. PICK g : UnlockedUpTo(g, x - 1)
      BY <3>1
    <3> DEFINE h == [k \in 0 .. x |-> IF k = 0 THEN cache ELSE UnlockStep(g[k - 1], k)]
    <3>3. \A k \in 0 .. x - 1 : h[k] = g[k]
      BY <3>2 DEF UnlockedUpTo
    <3>4. \A k \in 0 .. x : k # 0 => k - 1 \in 0 .. x - 1
      BY <3>1
    <3>5. \A k \in 0 .. x : k # 0 => h[k - 1] = g[k - 1]
      BY <3>3, <3>4
    <3>6. h = [k \in 0 .. x |-> IF k = 0 THEN cache ELSE UnlockStep(h[k - 1], k)]
      BY <3>5
    <3> HIDE DEF h
    <3>7. UnlockedUpTo(h, x)
      BY <3>6 DEF UnlockedUpTo
    <3> QED
      BY <3>7
  <2> QED
    BY <2>3, <2>4
<1>2. NElts \in Nat
  BY G3dCacheAssumption
<1>3. AllUnlocked = CHOOSE g : UnlockedUpTo(g, NElts)
  BY DEF AllUnlocked, UnlockedUpTo, UnlockStep
<1> QED
  BY <1>1, <1>2, <1>3

LEMMA StepInv ==
  ASSUME NEW c, CacheInv(c), NEW k \in 1 .. NElts
  PROVE  CacheInv(UnlockStep(c, k)) /\ Keeps(c, UnlockStep(c, k))
<1> DEFINE i == k - 1
           t == c.names[i]
<1>1. i \in Elts /\ c \in CacheSet
  BY G3dCacheAssumption DEF Elts, CacheInv
<1>2. CASE c.locks[i] = Locked
  <2>1. Lives(c, i) /\ t \in Tiles
    BY <1>1, <1>2, Constants DEF Lives, CacheInv, NameInv, CacheSet
  <2>2. CacheInv(Looked(c, t)) /\ Keeps(c, Looked(c, t))
    BY <2>1, LookedInv
  <2>3. Lives(Looked(c, t), i)
    BY <1>1, <2>1, <2>2 DEF Keeps
  <2>4. LET d == UnlockedElt(Looked(c, t), i) IN CacheInv(d) /\ Keeps(Looked(c, t), d)
    BY <1>1, <2>2, <2>3, UnlockedInv
  <2> QED
    BY <1>2, <2>2, <2>4 DEF UnlockStep, Keeps
<1>3. CASE c.locks[i] # Locked
  BY <1>3 DEF UnlockStep, Keeps
<1> QED
  BY <1>2, <1>3

LEMMA UnlockAllInv ==
  ASSUME CacheInv(cache)
  PROVE  CacheInv(AllUnlocked[NElts]) /\ Keeps(cache, AllUnlocked[NElts])
<1> DEFINE P(k) == CacheInv(AllUnlocked[k]) /\ Keeps(cache, AllUnlocked[k])
           T == {k \in 0 .. NElts : ~P(k)}
<1>1. NElts \in Nat /\ T \subseteq Nat
  BY G3dCacheAssumption
<1>2. CASE T # {}
  <2>1. PICK x \in T : \A y \in T : x <= y
    BY <1>1, <1>2, Least
  <2>2. x \in 0 .. NElts /\ AllUnlocked[x] = IF x = 0 THEN cache ELSE UnlockStep(AllUnlocked[x - 1], x)
    BY UnlockAllIs DEF UnlockedUpTo
  <2>3. CASE x = 0
    BY <2>1, <2>2, <2>3 DEF Keeps
  <2>4. CASE x # 0
    <3>1. x - 1 \in 0 .. NElts /\ x - 1 \notin T /\ x \in 1 .. NElts
      BY <1>1, <2>1, <2>2, <2>4
    <3>2. P(x - 1)
      BY <3>1
    <3>3. LET d == UnlockStep(AllUnlocked[x - 1], x) IN CacheInv(d) /\ Keeps(AllUnlocked[x - 1], d)
      BY <3>1, <3>2, StepInv
    <3> QED
      BY <2>1, <2>2, <2>4, <3>2, <3>3 DEF Keeps
  <2> QED
    BY <2>3, <2>4
<1>3. CASE T = {}
  BY <1>1, <1>3
<1> QED
  BY <1>2, <1>3

(* The queue holds as many elements as are not locked.                      *)
LEMMA QueueCounts ==
  ASSUME NEW c, CacheInv(c)
  PROVE  /\ Len(c.queue) = Cardinality(Elts \ {i \in Elts : c.locks[i] = Locked})
         /\ c.nofUnlocked \in 0 .. NElts
<1> DEFINE S == 1 .. Len(c.queue)
           T == Elts \ {i \in Elts : c.locks[i] = Locked}
<1>1. /\ c.queue \in Seq(Elts) /\ Len(c.queue) \in Nat /\ DOMAIN c.queue = S
      /\ QueueOnce(c.queue) /\ c.nofUnlocked = Len(c.queue)
      /\ \A i \in Elts : c.locks[i] # Locked <=> Queued(c.queue, i)
  BY DEF CacheInv, CacheSet, QueueInv
<1>2. c.queue \in Bijection(S, T)
  <2>1. c.queue \in [S -> T]
    BY <1>1 DEF Queued
  <2>2. \A k, l \in S : c.queue[k] = c.queue[l] => k = l
    BY <1>1 DEF QueueOnce
  <2>3. \A i \in T : \E k \in S : c.queue[k] = i
    BY <1>1 DEF Queued
  <2> QED
    BY <2>1, <2>2, <2>3 DEF Bijection, Injection, Surjection, IsInjective
<1>3. IsFiniteSet(S) /\ Cardinality(S) = Len(c.queue)
  BY <1>1, FS_Interval
<1>4. IsFiniteSet(Elts) /\ Cardinality(Elts) = NElts
  BY FS_Interval, G3dCacheAssumption DEF Elts
<1>5. Cardinality(T) = Len(c.queue)
  <2>1. ExistsBijection(S, T)
    BY <1>2 DEF ExistsBijection
  <2> HIDE DEF S, T
  <2> QED
    BY <1>3, <2>1, FS_Bijection
<1>6. Cardinality(T) <= NElts
  BY <1>4, FS_Subset
<1> QED
  BY <1>1, <1>5, <1>6, G3dCacheAssumption

-----------------------------------------------------------------------------
(***************************************************************************)
(* The files.  A tile is nowhere, in the data file, or in the record of the *)
(* file cache that the index says.                                          *)
(***************************************************************************)
Record == [tile : Tiles, val : Word]
FileSet == [index : [Tiles -> Int], spill : Seq(Record), out : [Tiles -> Word \cup {Unwritten}],
            end : {FileEnd, Beyond}, xdr : Word]

FilesInv(f) ==
    /\ f \in FileSet
    /\ \A p \in 0 .. Len(f.spill) - 1 : f.index[f.spill[p + 1].tile] = AtPos(p)
    /\ \A t \in Tiles : InSpill(f.index, t) =>
          /\ PosOf(f.index, t) \in 0 .. Len(f.spill) - 1
          /\ f.spill[PosOf(f.index, t) + 1].tile = t
    /\ \A t \in Tiles : InData(f.index, t) <=> f.out[t] # Unwritten

(* What a tile shows when it is not in memory.                              *)
Shows(f, t) ==
    IF InSpill(f.index, t) THEN f.spill[PosOf(f.index, t) + 1].val
    ELSE IF InData(f.index, t) THEN f.out[t] ELSE Null

LEMMA Words == /\ Unwritten \notin Word /\ Null \in Word /\ Junk \in Word /\ Values \subseteq Word
BY G3dTilesAssumption DEF Word

LEMMA ShowsWord ==
  ASSUME NEW f, FilesInv(f), NEW t \in Tiles PROVE Shows(f, t) \in Word
<1>1. CASE InSpill(f.index, t)
  <2>1. PosOf(f.index, t) + 1 \in 1 .. Len(f.spill) /\ f.spill \in Seq(Record)
    BY <1>1 DEF FilesInv, FileSet, PosOf
  <2>2. f.spill[PosOf(f.index, t) + 1] \in Record
    BY <2>1
  <2> QED
    BY <1>1, <2>2 DEF Shows, Record
<1>2. CASE ~InSpill(f.index, t)
  BY <1>2, Words DEF Shows, FilesInv, FileSet
<1> QED
  BY <1>1, <1>2

(* The other tiles are left alone, where and as they are.                   *)
Others(f, g, t) ==
    \A u \in Tiles : u # t => /\ g.index[u] = f.index[u] /\ g.out[u] = f.out[u]
                              /\ Shows(g, u) = Shows(f, u)

(* Tile t, which holds v, is saved.                                         *)
SavesTo(f, g, t, v) ==
    /\ FilesInv(g) /\ Others(f, g, t)
    /\ f.index[t] # Nowhere => g = f
    /\ f.index[t] = Nowhere =>
          /\ g.index[t] # Nowhere /\ Shows(g, t) = v
          /\ g.out[t] = v \/ g.out[t] = f.out[t]

(* Tile t goes to the end of the data file, or something else does for it,  *)
(* and the file then ends at e and the xdr buffer holds x.                  *)
PutOut(f, t, v, e, x) ==
    [f EXCEPT !.index[t] = f.end, !.out[t] = v, !.end = e, !.xdr = x]

LEMMA PutOutSaves ==
  ASSUME NEW f, FilesInv(f), NEW t \in Tiles, NEW v \in Word, f.index[t] = Nowhere,
         NEW e \in {FileEnd, Beyond}, NEW x \in Word
  PROVE  LET g == PutOut(f, t, v, e, x)
         IN  SavesTo(f, g, t, v) /\ g.spill = f.spill /\ InData(g.index, t)
<1> DEFINE g == PutOut(f, t, v, e, x)
<1>1. f.end \in Int /\ f.end > Nowhere
  BY DEF FilesInv, FileSet, FileEnd, Beyond, Nowhere
<1>2. /\ g \in FileSet /\ g.spill = f.spill
      /\ g.index = [f.index EXCEPT ![t] = f.end] /\ g.out = [f.out EXCEPT ![t] = v]
  BY <1>1 DEF FilesInv, FileSet, PutOut
<1> HIDE DEF g
<1>3. f.index \in [Tiles -> Int] /\ f.out \in [Tiles -> Word \cup {Unwritten}] /\ f.spill \in Seq(Record)
  BY DEF FilesInv, FileSet
<1>4. /\ g.index[t] = f.end /\ g.out[t] = v
      /\ \A u \in Tiles : u # t => g.index[u] = f.index[u] /\ g.out[u] = f.out[u]
  BY <1>2, <1>3
<1>5. \A p \in 0 .. Len(f.spill) - 1 : f.spill[p + 1].tile \in Tiles /\ f.spill[p + 1].tile # t
  <2> TAKE p \in 0 .. Len(f.spill) - 1
  <2>1. p + 1 \in 1 .. Len(f.spill)
    BY <1>3
  <2>2. f.spill[p + 1] \in Record
    BY <1>3, <2>1
  <2>3. AtPos(p) # Nowhere
    BY <1>3 DEF AtPos, Nowhere
  <2> QED
    BY <2>2, <2>3 DEF FilesInv, Record
<1>6. /\ ~InSpill(g.index, t) /\ InData(g.index, t)
      /\ \A u \in Tiles : u # t => /\ InSpill(g.index, u) = InSpill(f.index, u)
                                   /\ InData(g.index, u) = InData(f.index, u)
                                   /\ PosOf(g.index, u) = PosOf(f.index, u)
  BY <1>1, <1>4 DEF InSpill, PosOf, InData, Nowhere
<1>7. FilesInv(g)
  BY <1>2, <1>4, <1>5, <1>6, Words DEF FilesInv
<1>8. Others(f, g, t) /\ Shows(g, t) = v
  BY <1>2, <1>4, <1>6 DEF Others, Shows
<1>9. g.index[t] # Nowhere
  BY <1>1, <1>4
<1> QED
  BY <1>2, <1>4, <1>6, <1>7, <1>8, <1>9 DEF SavesTo, g

LEMMA WrittenSaves ==
  ASSUME NEW f, FilesInv(f), NEW t \in Tiles, NEW v \in Word
  PROVE  SavesTo(f, Written(f, t, v), t, v) /\ Written(f, t, v).spill = f.spill
<1>1. CASE f.index[t] # Nowhere
  BY <1>1 DEF Written, SavesTo, Others
<1>2. CASE f.index[t] = Nowhere
  <2>1. Encoded(v) \in Word /\ Beyond \in {FileEnd, Beyond}
    BY Words DEF Encoded
  <2>2. Written(f, t, v) = PutOut(f, t, v, Beyond, Encoded(v))
    BY <1>2 DEF Written, PutOut
  <2> QED
    BY <1>2, <2>1, <2>2, PutOutSaves
<1> QED
  BY <1>1, <1>2

LEMMA SpilledSaves ==
  ASSUME NEW f, FilesInv(f), NEW t \in Tiles, NEW v \in Word
  PROVE  SavesTo(f, Spilled(f, t, v), t, v)
<1>1. CASE f.index[t] # Nowhere
  BY <1>1 DEF Spilled, SavesTo, Others
<1>2. CASE f.index[t] = Nowhere
  <2> DEFINE n == Len(f.spill)
             r == [tile |-> t, val |-> v]
             g == [f EXCEPT !.spill = Append(f.spill, r), !.index[t] = AtPos(n)]
  <2>1. Spilled(f, t, v) = g
    BY <1>2 DEF Spilled
  <2>2. /\ f.index \in [Tiles -> Int] /\ f.out \in [Tiles -> Word \cup {Unwritten}] /\ f.spill \in Seq(Record)
        /\ n \in Nat /\ r \in Record /\ DOMAIN f.spill = 1 .. n
    BY DEF FilesInv, FileSet, Record
  <2>3. /\ Append(f.spill, r) \in Seq(Record) /\ Len(Append(f.spill, r)) = n + 1
        /\ Append(f.spill, r)[n + 1] = r /\ \A k \in 1 .. n : Append(f.spill, r)[k] = f.spill[k]
    BY <2>2
  <2> HIDE DEF n
  <2>4. /\ g \in FileSet /\ g.spill = Append(f.spill, r)
        /\ g.index = [f.index EXCEPT ![t] = AtPos(n)] /\ g.out = f.out
    <3>1. AtPos(n) \in Int
      BY <2>2 DEF AtPos
    <3> QED
      BY <2>3, <3>1 DEF FilesInv, FileSet
  <2> HIDE DEF g
  <2>5. /\ g.index[t] = AtPos(n) /\ g.out[t] = f.out[t]
        /\ \A u \in Tiles : u # t => g.index[u] = f.index[u]
    BY <2>2, <2>4
  <2>6. \A p \in 0 .. n - 1 : /\ p + 1 \in 1 .. n /\ f.spill[p + 1].tile \in Tiles
                              /\ f.spill[p + 1].tile # t
    <3> TAKE p \in 0 .. n - 1
    <3>1. p + 1 \in 1 .. n
      BY <2>2
    <3>2. f.spill[p + 1] \in Record
      BY <2>2, <3>1
    <3>3. AtPos(p) # Nowhere
      BY <2>2 DEF AtPos, Nowhere
    <3> QED
      BY <1>2, <3>1, <3>2, <3>3 DEF FilesInv, Record, n
  <2>7. InSpill(g.index, t) /\ PosOf(g.index, t) = n /\ AtPos(n) < 0
    BY <2>2, <2>5 DEF InSpill, PosOf, AtPos, Nowhere
  <2>8. \A u \in Tiles : u # t => /\ InSpill(g.index, u) = InSpill(f.index, u)
                                  /\ PosOf(g.index, u) = PosOf(f.index, u)
    BY <2>5 DEF InSpill, PosOf
  <2>9. \A u \in Tiles : u # t /\ InSpill(g.index, u) =>
           /\ PosOf(g.index, u) \in 0 .. n - 1
           /\ g.spill[PosOf(g.index, u) + 1] = f.spill[PosOf(f.index, u) + 1]
    BY <2>3, <2>4, <2>6, <2>8 DEF FilesInv, n
  <2>10. FilesInv(g)
    <3>2. Len(g.spill) = n + 1
      BY <2>3, <2>4
    <3>3. \A p \in 0 .. n : g.index[g.spill[p + 1].tile] = AtPos(p)
      <4> TAKE p \in 0 .. n
      <4>1. CASE p = n
        BY <2>3, <2>4, <2>5, <4>1
      <4>2. CASE p # n
        <5>1. p \in 0 .. n - 1
          BY <2>2, <4>2
        <5>2. g.spill[p + 1] = f.spill[p + 1]
          BY <2>3, <2>4, <2>6, <5>1
        <5>3. f.index[f.spill[p + 1].tile] = AtPos(p)
          BY <5>1 DEF FilesInv, n
        <5> QED
          BY <2>5, <2>6, <5>1, <5>2, <5>3
      <4> QED
        BY <4>1, <4>2
    <3>4. \A u \in Tiles : InSpill(g.index, u) =>
             PosOf(g.index, u) \in 0 .. n /\ g.spill[PosOf(g.index, u) + 1].tile = u
      <4> SUFFICES ASSUME NEW u \in Tiles, InSpill(g.index, u)
                   PROVE  PosOf(g.index, u) \in 0 .. n /\ g.spill[PosOf(g.index, u) + 1].tile = u
        OBVIOUS
      <4>1. CASE u = t
        BY <2>2, <2>3, <2>4, <2>7, <4>1
      <4>2. CASE u # t
        <5>1. /\ PosOf(g.index, u) \in 0 .. n - 1
              /\ g.spill[PosOf(g.index, u) + 1] = f.spill[PosOf(f.index, u) + 1]
          BY <2>9, <4>2
        <5>2. f.spill[PosOf(f.index, u) + 1].tile = u
          BY <2>8, <4>2 DEF FilesInv
        <5> QED
          BY <2>2, <5>1, <5>2
      <4> QED
        BY <4>1, <4>2
    <3>5. \A u \in Tiles : InData(g.index, u) <=> g.out[u] # Unwritten
      <4>1. \A u \in Tiles : InData(f.index, u) <=> f.out[u] # Unwritten
        BY DEF FilesInv
      <4>2. ~InData(f.index, t) /\ ~InData(g.index, t)
        BY <1>2, <2>2, <2>5 DEF InData, Nowhere, AtPos
      <4>3. \A u \in Tiles : u # t => InData(g.index, u) = InData(f.index, u)
        BY <2>5 DEF InData
      <4> QED
        BY <2>4, <4>1, <4>2, <4>3
    <3>6. n = (n + 1) - 1
      BY <2>2
    <3> QED
      BY <2>4, <3>2, <3>3, <3>4, <3>5, <3>6 DEF FilesInv
  <2>11. Shows(g, t) = v
    BY <2>3, <2>4, <2>7 DEF Shows
  <2>12. Others(f, g, t)
    BY <2>4, <2>5, <2>8, <2>9 DEF Others, Shows, InData
  <2>13. g.index[t] # Nowhere
    BY <2>2, <2>5 DEF AtPos, Nowhere
  <2> QED
    BY <1>2, <2>1, <2>5, <2>10, <2>11, <2>12, <2>13 DEF SavesTo
<1> QED
  BY <1>1, <1>2

(* A tile that is taken out of the file cache leaves the others as they     *)
(* are, though one may be elsewhere.                                        *)
LEMMA UnspilledInv ==
  ASSUME NEW f, FilesInv(f), NEW t \in Tiles
  PROVE  LET g == Unspilled(f, t)
         IN  /\ FilesInv(g) /\ g.out = f.out
             /\ ~InSpill(g.index, t)
             /\ InData(g.index, t) <=> InData(f.index, t)
             /\ \A u \in Tiles : u # t =>
                   /\ Shows(g, u) = Shows(f, u)
                   /\ InSpill(g.index, u) <=> InSpill(f.index, u)
                   /\ InData(g.index, u) <=> InData(f.index, u)
<1>1. CASE ~InSpill(f.index, t)
  BY <1>1 DEF Unspilled
<1>2. CASE InSpill(f.index, t)
  <2> DEFINE n == Len(f.spill)
             p == PosOf(f.index, t)
             rest == [k \in 1 .. n - 1 |-> IF k = p + 1 THEN f.spill[n] ELSE f.spill[k]]
             moved == f.spill[n].tile
             ix == [u \in Tiles |-> IF u = t THEN Nowhere
                                    ELSE IF p < n - 1 /\ u = moved THEN AtPos(p) ELSE f.index[u]]
             last == IF p < n - 1 THEN Raw(f.spill[n].val) ELSE f.xdr
             g == [f EXCEPT !.spill = rest, !.xdr = last, !.index = ix]
  <2>1. Unspilled(f, t) = g
    BY <1>2 DEF Unspilled
  <2>2. /\ f.index \in [Tiles -> Int] /\ f.out \in [Tiles -> Word \cup {Unwritten}]
        /\ f.spill \in Seq(Record) /\ n \in Nat /\ DOMAIN f.spill = 1 .. n
        /\ p \in 0 .. n - 1 /\ f.spill[p + 1].tile = t /\ f.index[t] = AtPos(p)
    BY <1>2 DEF FilesInv, FileSet, PosOf, AtPos
  <2>3. /\ \A k \in 1 .. n : f.spill[k] \in Record /\ f.spill[k].tile \in Tiles
        /\ \A k \in 1 .. n : f.index[f.spill[k].tile] = AtPos(k - 1)
    <3>1. \A k \in 1 .. n : f.spill[k] \in Record
      BY <2>2
    <3>2. \A k \in 1 .. n : k - 1 \in 0 .. Len(f.spill) - 1 /\ (k - 1) + 1 = k
      BY <2>2
    <3> QED
      BY <3>1, <3>2 DEF FilesInv, Record
  <2>4. /\ rest \in Seq(Record) /\ Len(rest) = n - 1 /\ DOMAIN rest = 1 .. n - 1
    <3>1. n - 1 \in Nat /\ n \in 1 .. n /\ \A k \in 1 .. n - 1 : k \in 1 .. n
      BY <2>2
    <3>2. rest \in [1 .. n - 1 -> Record]
      BY <2>3, <3>1
    <3> QED
      BY <3>1, <3>2
  <2>5. /\ ix \in [Tiles -> Int] /\ moved \in Tiles
        /\ ix[t] = Nowhere
        /\ \A u \in Tiles : u # t => ix[u] = IF p < n - 1 /\ u = moved THEN AtPos(p) ELSE f.index[u]
    <3>1. AtPos(p) \in Int /\ Nowhere \in Int /\ n \in 1 .. n
      BY <2>2 DEF AtPos, Nowhere
    <3> QED
      BY <2>2, <2>3, <3>1
  <2>6. \A k \in 1 .. n - 1 : rest[k] = IF k = p + 1 THEN f.spill[n] ELSE f.spill[k]
    OBVIOUS
  <2>14. last \in Word
    BY Words DEF FilesInv, FileSet, Raw, Encoded
  <2> HIDE DEF rest, ix, n, p, moved, last
  <2>7. g \in FileSet /\ g.spill = rest /\ g.index = ix /\ g.out = f.out
    BY <2>4, <2>5, <2>14 DEF FilesInv, FileSet
  <2> HIDE DEF g
  <2>8. f.index[moved] = AtPos(n - 1) /\ n >= 1
    BY <2>2, <2>3 DEF moved
  <2>9. p < n - 1 => moved # t
    BY <2>2, <2>8 DEF AtPos
  <2>10. \A u \in Tiles : u # t /\ u # moved /\ InSpill(f.index, u) =>
            /\ PosOf(f.index, u) \in 0 .. n - 2 /\ PosOf(f.index, u) # p
            /\ ix[u] = f.index[u] /\ f.spill[PosOf(f.index, u) + 1].tile = u
            /\ rest[PosOf(f.index, u) + 1] = f.spill[PosOf(f.index, u) + 1]
    <3> SUFFICES ASSUME NEW u \in Tiles, u # t, u # moved, InSpill(f.index, u)
                 PROVE  /\ PosOf(f.index, u) \in 0 .. n - 2 /\ PosOf(f.index, u) # p
                        /\ ix[u] = f.index[u] /\ f.spill[PosOf(f.index, u) + 1].tile = u
                        /\ rest[PosOf(f.index, u) + 1] = f.spill[PosOf(f.index, u) + 1]
      OBVIOUS
    <3> DEFINE q == PosOf(f.index, u)
    <3>1. q \in 0 .. n - 1 /\ f.spill[q + 1].tile = u
      BY DEF FilesInv, n
    <3> HIDE DEF q
    <3>2. q # p
      BY <2>2, <3>1
    <3>3. q # n - 1
      <4>1. (n - 1) + 1 = n
        BY <2>2
      <4> QED
        BY <3>1, <4>1 DEF moved
    <3>4. q \in 0 .. n - 2 /\ q + 1 \in 1 .. n - 1 /\ q + 1 # p + 1
      BY <2>2, <3>1, <3>2, <3>3
    <3> QED
      BY <2>5, <2>6, <3>1, <3>2, <3>4 DEF q
  <2>11. CASE p = n - 1
    <3>1. moved = t
      BY <2>2, <2>11 DEF moved
    <3>2. \A k \in 1 .. n - 1 : rest[k] = f.spill[k]
      BY <2>2, <2>6, <2>11
    <3>3. \A u \in Tiles : u # t => ix[u] = f.index[u]
      BY <2>2, <2>5, <2>11
    <3>4. \A k \in 1 .. n - 1 : k \in 1 .. n /\ rest[k].tile # t /\ rest[k].tile \in Tiles
      <4> TAKE k \in 1 .. n - 1
      <4>1. k \in 1 .. n /\ k - 1 # p /\ k - 1 \in Int
        BY <2>2, <2>11
      <4>2. f.spill[k].tile # t
        BY <2>2, <2>3, <4>1 DEF AtPos
      <4> QED
        BY <2>3, <3>2, <4>1, <4>2
    <3>5. FilesInv(g)
      <4>2. \A q \in 0 .. (n - 1) - 1 : ix[rest[q + 1].tile] = AtPos(q)
        <5> TAKE q \in 0 .. (n - 1) - 1
        <5>1. q + 1 \in 1 .. n - 1 /\ q + 1 \in 1 .. n /\ (q + 1) - 1 = q
          BY <2>2
        <5> QED
          BY <2>3, <3>2, <3>3, <3>4, <5>1
      <4>3. \A u \in Tiles : InSpill(ix, u) =>
               PosOf(ix, u) \in 0 .. (n - 1) - 1 /\ rest[PosOf(ix, u) + 1].tile = u
        <5> SUFFICES ASSUME NEW u \in Tiles, InSpill(ix, u)
                     PROVE  PosOf(ix, u) \in 0 .. (n - 1) - 1 /\ rest[PosOf(ix, u) + 1].tile = u
          OBVIOUS
        <5>1. u # t
          BY <2>5 DEF InSpill
        <5>2. InSpill(f.index, u) /\ PosOf(ix, u) = PosOf(f.index, u)
          BY <3>3, <5>1 DEF InSpill, PosOf
        <5> QED
          BY <2>2, <2>10, <3>1, <5>1, <5>2
      <4>4. \A u \in Tiles : InData(ix, u) <=> f.out[u] # Unwritten
        BY <2>2, <2>5, <3>3 DEF FilesInv, InData, Nowhere, AtPos
      <4> QED
        BY <2>4, <2>7, <4>2, <4>3, <4>4 DEF FilesInv
    <3>6. \A u \in Tiles : u # t => Shows(g, u) = Shows(f, u)
      <4> SUFFICES ASSUME NEW u \in Tiles, u # t PROVE Shows(g, u) = Shows(f, u)
        OBVIOUS
      <4>1. InSpill(ix, u) = InSpill(f.index, u) /\ PosOf(ix, u) = PosOf(f.index, u)
        BY <3>3 DEF InSpill, PosOf
      <4> QED
        BY <2>7, <2>10, <3>1, <3>3, <4>1 DEF Shows, InData
    <3> QED
      BY <2>1, <2>2, <2>5, <2>7, <3>3, <3>5, <3>6 DEF InSpill, InData, Nowhere, AtPos
  <2>12. CASE p < n - 1
    <3>1. moved # t /\ ix[moved] = AtPos(p) /\ \A u \in Tiles : u # t /\ u # moved => ix[u] = f.index[u]
      BY <2>5, <2>9, <2>12
    <3>2. p + 1 \in 1 .. n - 1 /\ rest[p + 1] = f.spill[n] /\ n \in 1 .. n
      BY <2>2, <2>6, <2>12
    <3>3. InSpill(ix, moved) /\ InSpill(f.index, moved) /\ PosOf(ix, moved) = p /\ PosOf(f.index, moved) = n - 1
          /\ (n - 1) + 1 = n /\ AtPos(p) < Nowhere /\ AtPos(n - 1) < Nowhere
      BY <2>2, <2>8, <3>1 DEF InSpill, PosOf, AtPos, Nowhere
    <3>4. FilesInv(g)
      <4>2. \A q \in 0 .. (n - 1) - 1 : ix[rest[q + 1].tile] = AtPos(q)
        <5> TAKE q \in 0 .. (n - 1) - 1
        <5>1. q + 1 \in 1 .. n - 1 /\ q + 1 \in 1 .. n /\ (q + 1) - 1 = q
          BY <2>2
        <5>2. CASE q = p
          BY <3>1, <3>2, <5>2 DEF moved
        <5>3. CASE q # p
          <6>1. rest[q + 1] = f.spill[q + 1] /\ f.index[f.spill[q + 1].tile] = AtPos(q)
            BY <2>2, <2>3, <2>6, <5>1, <5>3
          <6>2. f.spill[q + 1].tile # t /\ f.spill[q + 1].tile # moved
            <7>1. AtPos(q) # AtPos(p) /\ AtPos(q) # AtPos(n - 1)
              BY <2>2, <5>3 DEF AtPos
            <7> QED
              BY <2>2, <2>8, <6>1, <7>1
          <6> QED
            BY <2>3, <3>1, <5>1, <6>1, <6>2
        <5> QED
          BY <5>2, <5>3
      <4>3. \A u \in Tiles : InSpill(ix, u) =>
               PosOf(ix, u) \in 0 .. (n - 1) - 1 /\ rest[PosOf(ix, u) + 1].tile = u
        <5> SUFFICES ASSUME NEW u \in Tiles, InSpill(ix, u)
                     PROVE  PosOf(ix, u) \in 0 .. (n - 1) - 1 /\ rest[PosOf(ix, u) + 1].tile = u
          OBVIOUS
        <5>1. u # t
          BY <2>5 DEF InSpill
        <5>2. CASE u = moved
          BY <2>2, <2>12, <3>2, <3>3, <5>2 DEF moved
        <5>3. CASE u # moved
          <6>1. InSpill(f.index, u) /\ PosOf(ix, u) = PosOf(f.index, u)
            BY <3>1, <5>1, <5>3 DEF InSpill, PosOf
          <6> QED
            BY <2>2, <2>10, <5>1, <5>3, <6>1
        <5> QED
          BY <5>2, <5>3
      <4>4. \A u \in Tiles : InData(ix, u) <=> InData(f.index, u)
        BY <2>2, <2>5, <2>8, <3>1, <3>3 DEF InData, Nowhere, AtPos
      <4> QED
        BY <2>4, <2>7, <4>2, <4>3, <4>4 DEF FilesInv
    <3>5. \A u \in Tiles : u # t => Shows(g, u) = Shows(f, u)
      <4> SUFFICES ASSUME NEW u \in Tiles, u # t PROVE Shows(g, u) = Shows(f, u)
        OBVIOUS
      <4>1. CASE u = moved
        BY <2>7, <3>2, <3>3, <4>1 DEF Shows
      <4>2. CASE u # moved
        <5>1. ix[u] = f.index[u] /\ InSpill(ix, u) = InSpill(f.index, u) /\ PosOf(ix, u) = PosOf(f.index, u)
          BY <3>1, <4>2 DEF InSpill, PosOf
        <5> QED
          BY <2>7, <2>10, <4>2, <5>1 DEF Shows, InData
      <4> QED
        BY <4>1, <4>2
    <3>6. \A u \in Tiles : u # t => /\ InSpill(ix, u) <=> InSpill(f.index, u)
                                    /\ InData(ix, u) <=> InData(f.index, u)
      <4> SUFFICES ASSUME NEW u \in Tiles, u # t
                   PROVE  (InSpill(ix, u) <=> InSpill(f.index, u)) /\ (InData(ix, u) <=> InData(f.index, u))
        OBVIOUS
      <4>1. CASE u = moved
        BY <2>2, <2>8, <3>1, <3>3, <4>1 DEF InData, Nowhere, AtPos
      <4>2. CASE u # moved
        BY <3>1, <4>2 DEF InSpill, InData
      <4> QED
        BY <4>1, <4>2
    <3>7. ~InSpill(ix, t) /\ ~InData(ix, t) /\ ~InData(f.index, t)
      BY <2>2, <2>5 DEF InSpill, InData, Nowhere, AtPos
    <3>8. /\ ~InSpill(g.index, t)
          /\ InData(g.index, t) <=> InData(f.index, t)
          /\ \A u \in Tiles : u # t =>
                /\ InSpill(g.index, u) <=> InSpill(f.index, u)
                /\ InData(g.index, u) <=> InData(f.index, u)
      <4>1. g.index = ix
        BY <2>7
      <4>2. ~InSpill(g.index, t) /\ ~InData(g.index, t)
        BY <3>7, <4>1
      <4> QED
        BY <3>6, <3>7, <4>1, <4>2
    <3> QED
      BY <2>1, <2>7, <3>4, <3>5, <3>8
  <2> QED
    BY <2>2, <2>11, <2>12
<1> QED
  BY <1>1, <1>2

-----------------------------------------------------------------------------
(***************************************************************************)
(* The cache c with contents b, the files f, and n writes that have failed. *)
(* A tile in memory is not in the file cache; when its name is lost, since  *)
(* it could not be saved, it counts as written.                             *)
(***************************************************************************)
JointAt(c, ix, n, i) ==
    Lives(c, i) =>
        /\ ~InSpill(ix, c.names[i])
        /\ c.index[c.names[i]] # i => InData(ix, c.names[i]) /\ n > 0
Joint(c, ix, n) == \A i \in Elts : JointAt(c, ix, n, i)
JointBut(c, ix, n, i) == \A j \in Elts : j # i => JointAt(c, ix, n, j)

Sound(c, b, f, n) ==
    CacheInv(c) /\ b \in [Elts -> Word] /\ FilesInv(f) /\ n \in Nat /\ Joint(c, f.index, n)

(* What a tile shows, found by the table.                                   *)
Now(c, b, f, u) == IF c.index[u] # NoElt THEN b[c.index[u]] ELSE Shows(f, u)

(* A tile goes to the data file as it is, once, and those of U may then     *)
(* fall back to that.                                                       *)
Settles(c, b, f, d, e, g, U) ==
    /\ \A u \in Tiles : \/ g.out[u] = f.out[u]
                        \/ f.out[u] = Unwritten /\ g.out[u] = Now(c, b, f, u)
    /\ \A u \in U : \/ Now(d, e, g, u) = Now(c, b, f, u)
                    \/ g.out[u] # Unwritten /\ Now(d, e, g, u) = g.out[u]

Puts == {NoPut} \cup {PutOf(v) : v \in Values}

LEMMA PutsAre ==
  ASSUME NEW w \in Puts
  PROVE  w.put \in BOOLEAN /\ w.val \in Word /\ (w.put => w.val \in Values)
<1>1. CASE w = NoPut
  BY <1>1, Words DEF NoPut
<1>2. CASE w \in {PutOf(v) : v \in Values}
  <2>1. PICK v \in Values : w = PutOf(v)
    BY <1>2
  <2>2. w.put = TRUE /\ w.val = v
    BY <2>1 DEF PutOf
  <2> QED
    BY <2>2, Words
<1> QED
  BY <1>1, <1>2 DEF Puts

LEMMA NameIs ==
  ASSUME NEW c, CacheInv(c), NEW i \in Elts, Lives(c, i) PROVE c.names[i] \in Tiles
BY DEF CacheInv, NameInv, CacheSet

(* Calls that leave every tile where it is.                                 *)
LEMMA KeptSound ==
  ASSUME NEW c, NEW b, NEW f, NEW n, Sound(c, b, f, n), NEW d, CacheInv(d),
         d.names = c.names, d.index = c.index, \A i \in Elts : Lives(d, i) <=> Lives(c, i)
  PROVE  Sound(d, b, f, n) /\ \A u : Now(d, b, f, u) = Now(c, b, f, u)
BY DEF Sound, Joint, JointAt, JointBut, Now

(* The contents of the element of one tile change.                          *)
LEMMA ContentsAre ==
  ASSUME NEW c, NEW b, NEW f, NEW n, Sound(c, b, f, n), NEW t \in Tiles, c.index[t] # NoElt,
         NEW w \in Puts
  PROVE  LET e == Contents(b, c.index[t], w)
         IN  /\ Sound(c, e, f, n)
             /\ \A u \in Tiles : u # t => Now(c, e, f, u) = Now(c, b, f, u)
             /\ Now(c, e, f, t) = IF w.put THEN w.val ELSE Now(c, b, f, t)
<1> DEFINE i == c.index[t]
           e == Contents(b, i, w)
<1>1. i \in Elts /\ c.names[i] = t /\ b \in [Elts -> Word] /\ w.val \in Word
  BY IndexLives, PutsAre DEF Sound
<1>2. /\ e \in [Elts -> Word] /\ e[i] = IF w.put THEN w.val ELSE b[i]
      /\ \A j \in Elts : j # i => e[j] = b[j]
  BY <1>1 DEF Contents
<1>3. \A u \in Tiles : u # t /\ c.index[u] # NoElt => c.index[u] \in Elts /\ c.index[u] # i
  BY <1>1, IndexLives DEF Sound
<1> HIDE DEF e
<1>4. \A u \in Tiles : u # t => Now(c, e, f, u) = Now(c, b, f, u)
  BY <1>2, <1>3 DEF Now
<1>5. Now(c, e, f, t) = IF w.put THEN w.val ELSE Now(c, b, f, t)
  BY <1>2 DEF Now
<1>6. Sound(c, e, f, n)
  BY <1>2 DEF Sound
<1> QED
  BY <1>4, <1>5, <1>6 DEF e

LEMMA HitSound ==
  ASSUME NEW c, NEW b, NEW f, NEW n, Sound(c, b, f, n), NEW t \in Tiles, c.index[t] # NoElt,
         NEW w \in Puts
  PROVE  LET d == Hit(c, t)
             e == Contents(b, c.index[t], w)
         IN  /\ Sound(d, e, f, n) /\ Keeps(c, d)
             /\ \A u \in Tiles : u # t => Now(d, e, f, u) = Now(c, b, f, u)
             /\ Now(d, e, f, t) = IF w.put THEN w.val ELSE Now(c, b, f, t)
<1> DEFINE d == Hit(c, t)
<1>1. CacheInv(d) /\ Keeps(c, d)
  BY HitInv DEF Sound
<1> HIDE DEF d
<1>2. Sound(d, b, f, n) /\ d.index = c.index /\ \A u : Now(d, b, f, u) = Now(c, b, f, u)
  BY <1>1, KeptSound DEF Keeps
<1> QED
  BY <1>1, <1>2, ContentsAre DEF d

-----------------------------------------------------------------------------
(* The head of the queue, which holds a tile, is given up for another.      *)
LEMMA GivenUp ==
  ASSUME NEW c, NEW b \in [Elts -> Word], NEW f, NEW n, Sound(c, b, f, n),
         NEW i \in Elts, Lives(c, i), NEW s, s = c.names[i], c.index[s] # NoElt, NEW v, v = b[i], NEW g, SavesTo(f, g, s, v)
  PROVE  LET d == NameRemoved(c, s)
         IN  /\ CacheInv(d) /\ FilesInv(g) /\ JointBut(d, g.index, n, i)
             /\ d.names = c.names /\ d.index = [c.index EXCEPT ![s] = NoElt] /\ d.queue = c.queue
             /\ \A j \in Elts : Lives(d, j) <=> Lives(c, j)
             /\ n = 0 => Settles(c, b, f, d, b, g, Tiles)
<1> DEFINE d == NameRemoved(c, s)
<1>1. s \in Tiles /\ c.index \in [Tiles -> Elts \cup {NoElt}]
  BY NameIs DEF Sound, CacheInv, CacheSet
<1>2. /\ CacheInv(d) /\ d.names = c.names /\ d.index = [c.index EXCEPT ![s] = NoElt]
      /\ d.locks = c.locks /\ d.queue = c.queue
  BY <1>1, NameRemovedInv DEF Sound
<1> HIDE DEF d
<1>3. \A j \in Elts : Lives(d, j) <=> Lives(c, j)
  BY <1>2 DEF Lives
<1>4. JointBut(d, g.index, n, i)
  <2> SUFFICES ASSUME NEW j \in Elts, j # i, Lives(c, j)
               PROVE  /\ ~InSpill(g.index, c.names[j])
                      /\ d.index[c.names[j]] # j => InData(g.index, c.names[j]) /\ n > 0
    BY <1>2, <1>3 DEF Joint, JointAt, JointBut
  <2>1. c.names[j] \in Tiles
    BY NameIs DEF Sound
  <2>2. CASE c.names[j] = s
    <3>1. InData(f.index, s) /\ n > 0
      BY <2>2 DEF Sound, Joint, JointAt, JointBut
    <3>2. g = f
      BY <3>1 DEF SavesTo, InData, Nowhere
    <3> QED
      BY <2>2, <3>1, <3>2 DEF Sound, Joint, JointAt, JointBut
  <2>3. CASE c.names[j] # s
    <3>1. g.index[c.names[j]] = f.index[c.names[j]] /\ d.index[c.names[j]] = c.index[c.names[j]]
      BY <1>1, <1>2, <2>1, <2>3 DEF SavesTo, Others
    <3> QED
      BY <3>1 DEF Sound, Joint, JointAt, JointBut, InSpill, InData
  <2> QED
    BY <2>2, <2>3
<1>5. ASSUME n = 0 PROVE Settles(c, b, f, d, b, g, Tiles)
  <2>1. c.index[s] = i /\ Now(c, b, f, s) = b[i] /\ ~InSpill(f.index, s)
    BY <1>5, Constants DEF Sound, Joint, JointAt, JointBut, Now
  <2>2. ASSUME NEW u \in Tiles, u # s
        PROVE  g.out[u] = f.out[u] /\ Now(d, b, g, u) = Now(c, b, f, u)
    BY <1>1, <1>2, <2>2 DEF SavesTo, Others, Now
  <2>3. Now(d, b, g, s) = Shows(g, s)
    BY <1>1, <1>2 DEF Now
  <2>4. CASE f.index[s] = Nowhere
    <3>1. f.out[s] = Unwritten
      BY <1>1, <2>4 DEF Sound, FilesInv, InData, Nowhere
    <3>2. Shows(g, s) = b[i] /\ (g.out[s] = b[i] \/ g.out[s] = f.out[s])
      BY <2>4 DEF SavesTo
    <3> QED
      BY <2>1, <2>2, <2>3, <3>1, <3>2 DEF Settles
  <2>5. CASE f.index[s] # Nowhere
    <3>1. InData(f.index, s)
      BY <1>1, <2>1, <2>5 DEF Sound, FilesInv, FileSet, InSpill, InData, Nowhere
    <3>2. g = f /\ f.out[s] # Unwritten /\ Shows(f, s) = f.out[s]
      BY <1>1, <2>1, <2>5, <3>1 DEF SavesTo, Sound, FilesInv, Shows
    <3> QED
      BY <2>2, <2>3, <3>2 DEF Settles
  <2> QED
    BY <2>4, <2>5
<1> QED
  BY <1>2, <1>3, <1>4, <1>5 DEF SavesTo, d

(* It is taken for a tile that is not in memory.                            *)
LEMMA TakenSound ==
  ASSUME NEW c, CacheInv(c), NEW b \in [Elts -> Word], NEW f, FilesInv(f), NEW n \in Nat,
         c.queue # <<>>, NEW i, i = Head(c.queue), JointBut(c, f.index, n, i),
         Lives(c, i) => c.index[c.names[i]] # i,
         NEW t \in Tiles, c.index[t] = NoElt, NEW v \in Word,
         NEW e \in [Elts -> Word], e[i] = v, \A j \in Elts : j # i => e[j] = b[j]
  PROVE  LET d == Taken(c, t, i)
             g == Unspilled(f, t)
         IN  /\ Sound(d, e, g, n) /\ d.index[t] = i /\ d.queue # <<>>
             /\ d.names = [c.names EXCEPT ![i] = t]
             /\ g.out = f.out
             /\ \A u \in Tiles : u # t => Now(d, e, g, u) = Now(c, b, f, u)
             /\ Now(d, e, g, t) = v
<1> DEFINE d == Taken(c, t, i)
           g == Unspilled(f, t)
<1>0. /\ i \in Elts /\ c.names \in [Elts -> Tiles \cup {NoTile}]
      /\ c.index \in [Tiles -> Elts \cup {NoElt}]
  BY HeadIs DEF CacheInv, CacheSet
<1>1. /\ CacheInv(d)
      /\ d.names = [c.names EXCEPT ![i] = t] /\ d.index = [c.index EXCEPT ![t] = i]
      /\ \A j \in Elts : Lives(d, j) <=> Lives(c, j) \/ j = i
      /\ d.queue # <<>>
  BY TakenInv
<1>3. /\ FilesInv(g) /\ g.out = f.out
      /\ ~InSpill(g.index, t)
      /\ InData(g.index, t) <=> InData(f.index, t)
      /\ \A u \in Tiles : u # t =>
            /\ Shows(g, u) = Shows(f, u)
            /\ InSpill(g.index, u) <=> InSpill(f.index, u)
            /\ InData(g.index, u) <=> InData(f.index, u)
  BY UnspilledInv
<1> HIDE DEF d, g
<1>4. Joint(d, g.index, n)
  <2> SUFFICES ASSUME NEW j \in Elts, Lives(d, j)
               PROVE  /\ ~InSpill(g.index, d.names[j])
                      /\ d.index[d.names[j]] # j => InData(g.index, d.names[j]) /\ n > 0
    BY DEF Joint, JointAt, JointBut
  <2>1. CASE j = i
    BY <1>0, <1>1, <1>3, <2>1
  <2>2. CASE j # i
    <3>1. Lives(c, j) /\ d.names[j] = c.names[j] /\ c.names[j] \in Tiles
      BY <1>0, <1>1, <2>2, NameIs
    <3>2. /\ ~InSpill(f.index, c.names[j])
          /\ c.index[c.names[j]] # j => InData(f.index, c.names[j]) /\ n > 0
      BY <2>2, <3>1 DEF Joint, JointAt, JointBut
    <3>3. CASE c.names[j] = t
      BY <1>0, <1>3, <3>1, <3>2, <3>3, Constants
    <3>4. CASE c.names[j] # t
      BY <1>0, <1>1, <1>3, <3>1, <3>2, <3>4
    <3> QED
      BY <3>3, <3>4
  <2> QED
    BY <2>1, <2>2
<1>5. \A u \in Tiles : u # t => Now(d, e, g, u) = Now(c, b, f, u)
  <2> SUFFICES ASSUME NEW u \in Tiles, u # t PROVE Now(d, e, g, u) = Now(c, b, f, u)
    OBVIOUS
  <2>1. d.index[u] = c.index[u] /\ Shows(g, u) = Shows(f, u)
    BY <1>0, <1>1, <1>3
  <2>2. c.index[u] # NoElt => c.index[u] \in Elts /\ c.index[u] # i
    BY IndexLives
  <2> QED
    BY <2>1, <2>2 DEF Now
<1>6. d.index[t] = i /\ Now(d, e, g, t) = v
  BY <1>0, <1>1, Constants DEF Now
<1>7. Sound(d, e, g, n)
  BY <1>1, <1>3, <1>4 DEF Sound
<1> QED
  BY <1>1, <1>3, <1>5, <1>6, <1>7 DEF d, g

(* A tile that is flushed leaves the memory.                                *)
LEMMA RemovedSound ==
  ASSUME NEW c, NEW b \in [Elts -> Word], NEW f, NEW n, Sound(c, b, f, n),
         NEW t \in Tiles, c.index[t] # NoElt, NEW i, i = c.index[t],
         NEW v, v = b[i], NEW g, SavesTo(f, g, t, v)
  PROVE  LET d == Removed(c, t)
         IN  /\ Sound(d, b, g, n) /\ d.queue # <<>>
             /\ \A j \in Elts : Lives(d, j) <=> Lives(c, j) /\ j # i
             /\ Settles(c, b, f, d, b, g, Tiles)
<1> DEFINE d == Removed(c, t)
<1>1. /\ CacheInv(d)
      /\ d.names = [c.names EXCEPT ![i] = NoTile] /\ d.index = [c.index EXCEPT ![t] = NoElt]
      /\ \A j \in Elts : Lives(d, j) <=> Lives(c, j) /\ j # i
      /\ d.queue # <<>>
  BY RemovedInv DEF Sound
<1>2. /\ i \in Elts /\ c.names[i] = t /\ Lives(c, i)
      /\ c.names \in [Elts -> Tiles \cup {NoTile}] /\ c.index \in [Tiles -> Elts \cup {NoElt}]
  BY IndexLives DEF Sound, CacheInv, CacheSet
<1> HIDE DEF d
<1>4. Joint(d, g.index, n)
  <2> SUFFICES ASSUME NEW j \in Elts, Lives(c, j), j # i
               PROVE  /\ ~InSpill(g.index, c.names[j])
                      /\ d.index[c.names[j]] # j => InData(g.index, c.names[j]) /\ n > 0
    BY <1>1, <1>2 DEF Joint, JointAt, JointBut
  <2>1. c.names[j] \in Tiles
    BY NameIs DEF Sound
  <2>2. CASE c.names[j] = t
    <3>1. InData(f.index, t) /\ n > 0
      BY <2>2 DEF Sound, Joint, JointAt, JointBut
    <3>2. g = f
      BY <3>1 DEF SavesTo, InData, Nowhere
    <3> QED
      BY <2>2, <3>1, <3>2 DEF Sound, Joint, JointAt, JointBut
  <2>3. CASE c.names[j] # t
    <3>1. g.index[c.names[j]] = f.index[c.names[j]] /\ d.index[c.names[j]] = c.index[c.names[j]]
      BY <1>1, <1>2, <2>1, <2>3 DEF SavesTo, Others
    <3> QED
      BY <3>1 DEF Sound, Joint, JointAt, JointBut, InSpill, InData
  <2> QED
    BY <2>2, <2>3
<1>5. Settles(c, b, f, d, b, g, Tiles)
  <2>1. Now(c, b, f, t) = b[i] /\ ~InSpill(f.index, t)
    BY <1>2 DEF Sound, Joint, JointAt, JointBut, Now
  <2>2. ASSUME NEW u \in Tiles, u # t
        PROVE  g.out[u] = f.out[u] /\ Now(d, b, g, u) = Now(c, b, f, u)
    <3>1. d.index[u] = c.index[u] /\ g.out[u] = f.out[u] /\ Shows(g, u) = Shows(f, u)
      BY <1>1, <1>2, <2>2 DEF SavesTo, Others
    <3>2. c.index[u] # NoElt => c.index[u] \in Elts /\ c.index[u] # i
      BY <1>2, <2>2, IndexLives DEF Sound
    <3> QED
      BY <3>1, <3>2 DEF Now
  <2>3. Now(d, b, g, t) = Shows(g, t)
    BY <1>1, <1>2 DEF Now
  <2>4. CASE f.index[t] = Nowhere
    <3>1. f.out[t] = Unwritten
      BY <2>4 DEF Sound, FilesInv, InData, Nowhere
    <3>2. Shows(g, t) = b[i] /\ (g.out[t] = b[i] \/ g.out[t] = f.out[t])
      BY <2>4 DEF SavesTo
    <3> QED
      BY <2>1, <2>2, <2>3, <3>1, <3>2 DEF Settles
  <2>5. CASE f.index[t] # Nowhere
    <3>1. InData(f.index, t)
      BY <2>1, <2>5 DEF Sound, FilesInv, FileSet, InSpill, InData, Nowhere
    <3>2. g = f /\ f.out[t] # Unwritten /\ Shows(f, t) = f.out[t]
      BY <2>1, <2>5, <3>1 DEF SavesTo, Sound, FilesInv, Shows
    <3> QED
      BY <2>2, <2>3, <3>2 DEF Settles
  <2> QED
    BY <2>4, <2>5
<1>6. Sound(d, b, g, n)
  BY <1>1, <1>4 DEF Sound, SavesTo
<1> QED
  BY <1>1, <1>5, <1>6 DEF d

(* A tile that cannot be written counts as written, whether its name is     *)
(* lost or not.                                                             *)
LEMMA FailSound ==
  ASSUME NEW c, NEW b, NEW f, NEW n, Sound(c, b, f, n), NEW t \in Tiles, f.index[t] = Nowhere,
         NEW d, CacheInv(d), d.names = c.names, \A i \in Elts : Lives(d, i) <=> Lives(c, i),
         \A u \in Tiles : u # t => d.index[u] = c.index[u],
         NEW e \in {FileEnd, Beyond}, NEW x \in Word, NEW g, g = PutOut(f, t, Junk, e, x), NEW m \in Nat, m > 0
  PROVE  Sound(d, b, g, m)
<1>2. FilesInv(g) /\ Others(f, g, t) /\ InData(g.index, t)
  <2>1. Junk \in Word /\ FilesInv(f)
    BY Words DEF Sound
  <2> QED
    BY <2>1, PutOutSaves DEF SavesTo
<1>4. Joint(d, g.index, m)
  <2> SUFFICES ASSUME NEW j \in Elts, Lives(c, j)
               PROVE  /\ ~InSpill(g.index, c.names[j])
                      /\ d.index[c.names[j]] # j => InData(g.index, c.names[j])
    BY DEF Joint, JointAt, JointBut
  <2>1. c.names[j] \in Tiles
    BY NameIs DEF Sound
  <2>2. CASE c.names[j] = t
    BY <1>2, <2>1, <2>2 DEF FilesInv, FileSet, InSpill, InData, Nowhere
  <2>3. CASE c.names[j] # t
    <3>1. g.index[c.names[j]] = f.index[c.names[j]] /\ d.index[c.names[j]] = c.index[c.names[j]]
      BY <1>2, <2>1, <2>3 DEF Others
    <3> QED
      BY <3>1 DEF Sound, Joint, JointAt, JointBut, InSpill, InData
  <2> QED
    BY <2>2, <2>3
<1> QED
  BY <1>2, <1>4 DEF Sound

-----------------------------------------------------------------------------
(***************************************************************************)
(* The invariant: the cache and the files are sound, what a flush is at is  *)
(* there, and while no write has failed an element can be found and a flush *)
(* leaves behind it what AllFlushed asks for at its end.                    *)
(***************************************************************************)
Control ==
    /\ pc \in PCs /\ toOutput \in BOOLEAN /\ faults \in 0 .. MaxFaults /\ cur \in Nat
    /\ pc \in {"idle", "flushFile"} => cur = 0
    /\ pc \in {"flushTile", "flushFileTile"} => cur \in Tiles /\ cache.index[cur] # NoElt
    /\ pc = "flushElts" => cur \in 0 .. NElts
    /\ pc \in {"flushFile", "flushFileTile", "flushElts"} => toOutput
Unfailing ==
    faults = 0 =>
        /\ cache.queue # <<>> /\ pc \notin {"fatal", "undefined"}
        /\ pc = "flushElts" => spill = <<>> /\ \A i \in Elts : i < cur => ~Lives(cache, i)

TilesInv == Sound(cache, buf, Files, faults) /\ Control /\ Unfailing

(* What every step does beside: a locked element keeps its tile, except in  *)
(* a flush, and the tiles are the store's.                                  *)
Holds == \A i \in Elts : cache.locks[i] = Locked => cache'.names[i] = cache.names[i]
Moves(U) == Settles(cache, buf, Files, cache', buf', Files', U)
Stores(t, w) ==
    IF w.put THEN Moves(Tiles \ {t}) /\ Now(cache', buf', Files', t) = w.val ELSE Moves(Tiles)
Stored ==
    Compressed /\ faults' = 0 => Moves(Tiles) \/ \E t \in Tiles, w \in Puts : Stores(t, w)
Flushing == pc \in {"flushTile", "flushFileTile", "flushElts"}
Goes == TilesInv' /\ (Holds \/ Flushing) /\ Stored

LEMMA FilesNext ==
  ASSUME NEW g, FilesInv(g), FilesAre(g) PROVE Files' = g
BY DEF FilesInv, FileSet, FilesAre, Files

LEMMA FilesStay == ASSUME UNCHANGED files PROVE Files' = Files
BY DEF files, Files

LEMMA SavedSaves ==
  ASSUME NEW f, FilesInv(f), NEW t \in Tiles, NEW v \in Word
  PROVE  SavesTo(f, Saved(f, t, v), t, v) /\ (toOutput => Saved(f, t, v).spill = f.spill)
BY WrittenSaves, SpilledSaves DEF Saved

LEMMA LoadedIs ==
  ASSUME NEW f, FilesInv(f), NEW t \in Tiles, NEW old \in Word, NEW v \in Loaded(f, t, old)
  PROVE  v \in Word /\ (Compressed /\ faults = 0 => v = Shows(f, t))
<1>1. CASE InSpill(f.index, t)
  BY <1>1, ShowsWord DEF Loaded, Shows
<1>2. CASE ~InSpill(f.index, t) /\ f.index[t] = Nowhere
  BY <1>2, Words DEF Loaded, Shows, InData, Nowhere
<1>3. CASE ~InSpill(f.index, t) /\ f.index[t] # Nowhere
  <2>1. InData(f.index, t)
    BY <1>3 DEF FilesInv, FileSet, InSpill, InData, Nowhere
  <2>2. f.out[t] \in Word /\ f.xdr \in Word
    BY <2>1 DEF FilesInv, FileSet
  <2> QED
    BY <1>3, <2>1, <2>2 DEF Loaded, Shows, Torn
<1> QED
  BY <1>1, <1>2, <1>3

(* Nothing changes for the tiles.                                           *)
LEMMA SameMoves ==
  ASSUME Files' = Files, \A u \in Tiles : Now(cache', buf', Files', u) = Now(cache, buf, Files, u)
  PROVE  Moves(Tiles)
BY DEF Moves, Settles

(* G3d_cache_elt_ptr of a tile in memory ...                                *)
LEMMA PtrHitGoes ==
  ASSUME TilesInv, NEW t \in Tiles, NEW w \in Puts, PtrHit(t, w)
  PROVE  /\ Sound(cache', buf', Files', faults') /\ faults' = faults
         /\ cache'.index[t] # NoElt /\ (cache.queue # <<>> => cache'.queue # <<>>)
         /\ Holds /\ Stores(t, w)
<1>1. /\ EltOf(cache, t) = cache.index[t] /\ cache.index[t] # NoElt
      /\ Sound(cache, buf, Files, faults)
  BY MemoTells DEF PtrHit, TilesInv, Sound, CacheInv, NameInv
<1>2. /\ cache' = Hit(cache, t) /\ buf' = Contents(buf, cache.index[t], w) /\ Files' = Files
      /\ faults' = faults
  BY <1>1, FilesStay DEF PtrHit, NoFault
<1>3. /\ Sound(cache', buf', Files, faults) /\ Keeps(cache, cache')
      /\ \A u \in Tiles : u # t => Now(cache', buf', Files, u) = Now(cache, buf, Files, u)
      /\ Now(cache', buf', Files, t) = IF w.put THEN w.val ELSE Now(cache, buf, Files, t)
  BY <1>1, <1>2, HitSound
<1>4. Holds /\ cache'.index[t] # NoElt /\ (cache.queue # <<>> => cache'.queue # <<>>)
  BY <1>1, <1>3 DEF Keeps, Holds
<1>5. Stores(t, w)
  BY <1>2, <1>3, PutsAre DEF Stores, Moves, Settles
<1> QED
  BY <1>2, <1>3, <1>4, <1>5

(* ... and of one that is not.                                              *)
LEMMA PtrMissGoes ==
  ASSUME TilesInv, NEW t \in Tiles, NEW w \in Puts, PtrMiss(t, w)
  PROVE  /\ Sound(cache', buf', Files', faults') /\ faults' = faults
         /\ cache'.index[t] # NoElt /\ cache'.queue # <<>>
         /\ Holds /\ (Compressed /\ faults = 0 => Stores(t, w))
<1> DEFINE i == Head1
           s == cache.names[i]
           f == IF Dirty THEN Saved(Files, s, buf[i]) ELSE Files
           c == IF Dirty THEN NameRemoved(cache, s) ELSE cache
           g == Unspilled(f, t)
<1>1. /\ Sound(cache, buf, Files, faults) /\ CacheInv(cache) /\ cache.queue # <<>>
      /\ cache.index[t] = NoElt
      /\ i \in Elts /\ cache.locks[i] # Locked /\ buf \in [Elts -> Word]
  <2>1. Sound(cache, buf, Files, faults) /\ CacheInv(cache) /\ cache.queue # <<>>
    BY DEF PtrMiss, Misses, TilesInv, Sound
  <2>2. cache.index[t] = NoElt
    BY <2>1, MemoTells DEF PtrMiss, Misses, CacheInv, NameInv
  <2> QED
    BY <2>1, <2>2, HeadIs DEF Head1, Sound
<1>2. /\ CacheInv(c) /\ FilesInv(f) /\ JointBut(c, f.index, faults, i)
      /\ c.queue = cache.queue /\ c.names = cache.names /\ c.index[t] = NoElt
      /\ Lives(c, i) => c.index[c.names[i]] # i
      /\ faults = 0 => Settles(cache, buf, Files, c, buf, f, Tiles)
  <2>1. CASE Dirty
    <3>1. Lives(cache, i) /\ cache.index[s] # NoElt /\ s \in Tiles
      BY <1>1, <2>1, NameIs DEF Dirty, Lives, PtrMiss, NameKnown
    <3>2. SavesTo(Files, f, s, buf[i])
      BY <1>1, <2>1, <3>1, SavedSaves DEF Sound
    <3>3. c = NameRemoved(cache, s)
      BY <2>1
    <3> HIDE DEF c, f, s, i
    <3>4. /\ CacheInv(c) /\ FilesInv(f) /\ JointBut(c, f.index, faults, i)
          /\ c.names = cache.names /\ c.index = [cache.index EXCEPT ![s] = NoElt]
          /\ c.queue = cache.queue
          /\ faults = 0 => Settles(cache, buf, Files, c, buf, f, Tiles)
      <4>1. s = cache.names[i]
        BY DEF s
      <4> DEFINE x == buf[i]
      <4>2. SavesTo(Files, f, s, x) /\ x = buf[i]
        BY <3>2
      <4> HIDE DEF x
      <4> QED
        BY <1>1, <3>1, <3>3, <4>1, <4>2, GivenUp
    <3>5. c.index[t] = NoElt /\ c.index[s] = NoElt
      BY <1>1, <3>1, <3>4 DEF CacheInv, CacheSet
    <3>6. c.names[i] = s
      BY <3>4 DEF s
    <3> QED
      BY <1>1, <3>4, <3>5, <3>6, Constants
  <2>2. CASE ~Dirty
    <3>1. ~Lives(cache, i) /\ c = cache /\ f = Files
      BY <2>2 DEF Dirty, Lives
    <3>2. Settles(cache, buf, Files, c, buf, f, Tiles)
      BY <3>1 DEF Settles
    <3> HIDE DEF c, f
    <3> QED
      BY <1>1, <3>1, <3>2 DEF Sound, Joint, JointAt, JointBut
  <2> QED
    BY <2>1, <2>2
<1>3. PICK v \in Loaded(f, t, buf[i]) : buf' = Contents([buf EXCEPT ![i] = v], i, w)
  BY DEF PtrMiss
<1>4. cache' = Taken(c, t, i) /\ FilesAre(g) /\ faults' = faults
  BY DEF PtrMiss, NoFault
<1> HIDE DEF c, f
<1>5. v \in Word /\ (Compressed /\ faults = 0 => v = Shows(f, t))
  BY <1>1, <1>2, <1>3, LoadedIs
<1>6. i = Head(c.queue) /\ c.queue # <<>> /\ faults \in Nat
  BY <1>1, <1>2 DEF Head1, Sound
<1>7. /\ Sound(cache', buf', g, faults) /\ cache'.index[t] = i /\ cache'.queue # <<>>
      /\ cache'.names = [cache.names EXCEPT ![i] = t]
      /\ g.out = f.out
      /\ \A u \in Tiles : u # t => Now(cache', buf', g, u) = Now(c, buf, f, u)
      /\ Now(cache', buf', g, t) = IF w.put THEN w.val ELSE v
  <2> DEFINE x == IF w.put THEN w.val ELSE v
  <2>1. /\ x \in Word /\ buf' \in [Elts -> Word] /\ buf'[i] = x
        /\ \A j \in Elts : j # i => buf'[j] = buf[j]
    BY <1>1, <1>3, <1>5, PutsAre DEF Contents
  <2> HIDE DEF i, x
  <2>2. /\ Sound(cache', buf', g, faults) /\ cache'.index[t] = i /\ cache'.queue # <<>>
        /\ cache'.names = [c.names EXCEPT ![i] = t]
        /\ g.out = f.out
        /\ \A u \in Tiles : u # t => Now(cache', buf', g, u) = Now(c, buf, f, u)
        /\ Now(cache', buf', g, t) = x
    BY <1>1, <1>2, <1>4, <1>6, <2>1, TakenSound
  <2> QED
    BY <1>2, <2>2 DEF x
<1>8. Files' = g
  BY <1>4, <1>7, FilesNext DEF Sound
<1>9. Holds
  BY <1>1, <1>7 DEF Holds, CacheInv, CacheSet
<1>10. ASSUME Compressed, faults = 0 PROVE Stores(t, w)
  <2>1. Now(c, buf, f, t) = v
    BY <1>2, <1>5, <1>10 DEF Now
  <2> HIDE DEF g
  <2> QED
    BY <1>2, <1>7, <1>8, <1>10, <2>1, PutsAre DEF Stores, Moves, Settles
<1> QED
  BY <1>1, <1>4, <1>7, <1>8, <1>9, <1>10, Constants

(* A write that fails, in WriteTile, G3d_cache_elt_ptr or G3d_cache_flush.  *)
LEMMA WriteFailsGoes ==
  ASSUME TilesInv, NEW t \in Tiles, NEW v \in Word, WriteFails(t, v), UNCHANGED buf, CacheInv(cache'),
         cache'.names = cache.names, \A i \in Elts : Lives(cache', i) <=> Lives(cache, i),
         \A u \in Tiles : u # t => cache'.index[u] = cache.index[u]
  PROVE  /\ Sound(cache', buf', Files', faults') /\ faults' \in 0 .. MaxFaults /\ faults' # 0
         /\ Holds /\ Stored
<1>1. Sound(cache, buf, Files, faults) /\ FilesInv(Files) /\ faults \in Nat
  BY DEF TilesInv, Sound
<1>2. /\ faults' = faults + 1 /\ faults' \in Nat /\ faults' > 0 /\ faults' \in 0 .. MaxFaults
  BY <1>1, G3dTilesAssumption DEF WriteFails, Fault
<1>7. PICK e \in {end, Beyond} :
         FilesAre([Files EXCEPT !.index[t] = end, !.out[t] = Junk, !.end = e, !.xdr = Encoded(v)])
  BY DEF WriteFails
<1> DEFINE g == PutOut(Files, t, Junk, e, Encoded(v))
<1>3. FilesAre(g) /\ Files.index[t] = Nowhere
  BY <1>7 DEF WriteFails, PutOut, Files
<1>8. e \in {FileEnd, Beyond} /\ Encoded(v) \in Word
  BY <1>1, Words DEF FilesInv, FileSet, Files, Encoded
<1> HIDE DEF g
<1>4. Sound(cache', buf, g, faults')
  BY <1>1, <1>2, <1>3, <1>8, FailSound DEF g
<1>5. Files' = g
  BY <1>3, <1>4, FilesNext DEF Sound
<1>6. faults' # 0
  BY <1>2
<1> QED
  BY <1>2, <1>4, <1>5, <1>6 DEF Holds, Stored

LEMMA TilePtrGoes ==
  ASSUME TilesInv, NEW t \in Tiles, NEW w \in Puts, NEW then, NEW next, NEW else,
         TilePtr(t, w, then, next, else), UNCHANGED toOutput,
         \/ then = "idle" /\ next = 0
         \/ then \in {"flushTile", "flushFileTile"} /\ next = t /\ (then = "flushFileTile" => toOutput),
         else \in {"idle", "fatal"}
  PROVE  Goes
<1>1. CASE (PtrHit(t, w) \/ PtrMiss(t, w)) /\ pc' = then /\ cur' = next
  <2>1. /\ Sound(cache', buf', Files', faults') /\ faults' = faults
        /\ cache'.index[t] # NoElt /\ (cache.queue # <<>> => cache'.queue # <<>>)
        /\ Holds /\ (Compressed /\ faults = 0 => Stores(t, w))
    BY <1>1, PtrHitGoes, PtrMissGoes
  <2>2. /\ pc' \in PCs /\ toOutput' \in BOOLEAN /\ faults' \in 0 .. MaxFaults /\ cur' \in Nat
        /\ pc' \in {"idle", "flushFile"} => cur' = 0
        /\ pc' \in {"flushTile", "flushFileTile"} => cur' = t
        /\ pc' # "flushElts" /\ pc' \notin {"fatal", "undefined"}
        /\ pc' \in {"flushFile", "flushFileTile", "flushElts"} => toOutput'
    BY <1>1, <2>1, G3dCacheAssumption DEF TilesInv, Control, PCs, Tiles
  <2>3. Control'
    BY <2>1, <2>2 DEF Control
  <2>4. Unfailing'
    BY <2>1, <2>2 DEF TilesInv, Unfailing
  <2>5. Stored
    BY <2>1 DEF Stored
  <2> QED
    BY <2>1, <2>3, <2>4, <2>5 DEF Goes, TilesInv
<1>2. CASE PtrFails(t) /\ pc' = else /\ cur' = 0
  <2> DEFINE s == cache.names[Head1]
  <2>1. /\ WriteFails(s, buf[Head1]) /\ UNCHANGED buf /\ cache' = NameRemoved(cache, s)
        /\ cache.queue # <<>> /\ Dirty /\ CacheInv(cache)
    BY <1>2 DEF PtrFails, Misses, TilesInv, Sound
  <2>2. s \in Tiles /\ buf[Head1] \in Word
    <3>1. Head1 \in Elts
      BY <2>1, HeadIs DEF Head1
    <3> QED
      BY <2>1, <3>1, NameIs DEF Dirty, Lives, TilesInv, Sound
  <2> HIDE DEF s
  <2>3. /\ CacheInv(cache') /\ cache'.names = cache.names /\ cache'.locks = cache.locks
        /\ cache'.index = [cache.index EXCEPT ![s] = NoElt]
    BY <2>1, <2>2, NameRemovedInv
  <2>4. \A u \in Tiles : u # s => cache'.index[u] = cache.index[u]
    BY <2>1, <2>3 DEF CacheInv, CacheSet
  <2>5. \A i \in Elts : Lives(cache', i) <=> Lives(cache, i)
    BY <2>3 DEF Lives
  <2>6. /\ Sound(cache', buf', Files', faults') /\ faults' \in 0 .. MaxFaults /\ faults' # 0
        /\ Holds /\ Stored
    BY <2>1, <2>2, <2>3, <2>4, <2>5, WriteFailsGoes
  <2>7. Control' /\ Unfailing'
    BY <1>2, <2>6 DEF TilesInv, Control, PCs, Unfailing
  <2> QED
    BY <2>6, <2>7 DEF Goes, TilesInv
<1> QED
  BY <1>1, <1>2 DEF TilePtr

(* While no write has failed a tile that is reused is found under its name, *)
(* and there is one to be reused.                                           *)
LEMMA PtrEndsGoes == ASSUME TilesInv, NEW t \in Tiles, PtrEnds(t) PROVE Goes
<1>1. UNCHANGED <<cache, buf, toOutput, faults>> /\ Files' = Files
  BY FilesStay DEF PtrEnds, NoFault
<1>2. faults # 0
  <2> SUFFICES ASSUME faults = 0 PROVE FALSE
    OBVIOUS
  <2>1. cache.queue # <<>> /\ ~NameKnown
    BY DEF PtrEnds, TilesInv, Unfailing
  <2>2. Head1 \in Elts /\ Lives(cache, Head1) /\ cache.index[cache.names[Head1]] = NoElt
    BY <2>1, HeadIs DEF TilesInv, Sound, Head1, NameKnown, Dirty, Lives
  <2>3. cache.index[cache.names[Head1]] = Head1
    BY <2>2 DEF TilesInv, Sound, Joint, JointAt
  <2> QED
    BY <2>2, <2>3, Constants
<1>3. cur' = 0 /\ pc' \in {"fatal", "undefined"}
  BY DEF PtrEnds
<1>4. Control' /\ Unfailing'
  BY <1>1, <1>2, <1>3 DEF TilesInv, Control, Unfailing, PCs
<1> QED
  BY <1>1, <1>2, <1>4 DEF Goes, TilesInv, Holds, Stored

(* Calls that leave every tile where it is.                                 *)
LEMMA OnlyGoes ==
  ASSUME TilesInv, NEW d, CacheInv(d), Keeps(cache, d), Only(d)
  PROVE  Goes
<1>1. UNCHANGED <<pc, cur, buf, toOutput, faults>> /\ Files' = Files /\ pc = "idle" /\ cache' = d
  BY FilesStay DEF Only, NoFault
<1>2. /\ Sound(cache', buf', Files', faults')
      /\ \A u \in Tiles : Now(cache', buf', Files', u) = Now(cache, buf, Files, u)
  BY <1>1, KeptSound DEF TilesInv, Keeps
<1>3. Control'
  BY <1>1 DEF TilesInv, Control
<1>4. Unfailing'
  BY <1>1 DEF TilesInv, Unfailing, Keeps
<1>5. Stored
  BY <1>1, <1>2, SameMoves DEF Stored
<1>6. Holds
  BY <1>1 DEF Holds, Keeps
<1> QED
  BY <1>2, <1>3, <1>4, <1>5, <1>6 DEF Goes, TilesInv

LEMMA AccessGoes ==
  ASSUME TilesInv, NEW t \in Tiles, NEW w \in Puts, Access(t, w) PROVE Goes
BY TilePtrGoes, PtrEndsGoes DEF Access

LEMMA LockTileGoes == ASSUME TilesInv, NEW t \in Tiles, LockTile(t) PROVE Goes
<1> DEFINE i == EltOf(cache, t)
           c == Looked(cache, t)
           d == IF i # NoElt /\ (c.locks[i] = Locked \/ MayLock(c)) THEN LockedElt(c, i) ELSE c
<1>1. CacheInv(cache) /\ i = cache.index[t]
  BY MemoTells DEF TilesInv, Sound, CacheInv, NameInv
<1>2. CacheInv(c) /\ Keeps(cache, c)
  BY <1>1, LookedInv
<1>3. Only(d)
  BY DEF LockTile
<1> HIDE DEF i, c
<1>4. CASE i # NoElt /\ (c.locks[i] = Locked \/ MayLock(c))
  <2>1. i \in Elts /\ Lives(c, i)
    BY <1>1, <1>2, <1>4, IndexLives DEF Keeps
  <2>2. LET e == LockedElt(c, i)
        IN  /\ CacheInv(e) /\ e.names = c.names /\ e.index = c.index
            /\ \A j \in Elts : Lives(e, j) <=> Lives(c, j)
            /\ Len(e.queue) >= Len(c.queue) - 1
    BY <1>2, <2>1, LockedInv
  <2>3. c.queue # <<>> => LockedElt(c, i).queue # <<>>
    <3>1. CASE c.locks[i] = Locked
      BY <3>1 DEF LockedElt
    <3>2. CASE MayLock(c)
      <4>1. /\ c.queue \in Seq(Elts) /\ LockedElt(c, i).queue \in Seq(Elts) /\ Len(c.queue) > 1
        BY <1>2, <2>2, <3>2 DEF CacheInv, CacheSet, MayLock, OneUnlockedOnly
      <4> QED
        BY <2>2, <4>1, QueueLong
    <3> QED
      BY <1>4, <3>1, <3>2
  <2>4. d = LockedElt(c, i)
    BY <1>4
  <2> HIDE DEF d
  <2> QED
    BY <1>2, <1>3, <2>2, <2>3, <2>4, OnlyGoes DEF Keeps
<1>5. CASE ~(i # NoElt /\ (c.locks[i] = Locked \/ MayLock(c)))
  <2>1. d = c
    BY <1>5
  <2> HIDE DEF d
  <2> QED
    BY <1>2, <1>3, <2>1, OnlyGoes
<1> QED
  BY <1>4, <1>5

LEMMA UnlockTileGoes == ASSUME TilesInv, NEW t \in Tiles, UnlockTile(t) PROVE Goes
<1> DEFINE i == EltOf(cache, t)
           c == Looked(cache, t)
           d == IF i = NoElt THEN cache ELSE UnlockedElt(c, i)
<1>1. CacheInv(cache) /\ i = cache.index[t]
  BY MemoTells DEF TilesInv, Sound, CacheInv, NameInv
<1>2. CacheInv(c) /\ Keeps(cache, c)
  BY <1>1, LookedInv
<1>3. Only(d)
  BY DEF UnlockTile
<1> HIDE DEF i, c
<1>4. CASE i # NoElt
  <2>1. i \in Elts /\ Lives(c, i)
    BY <1>1, <1>2, <1>4, IndexLives DEF Keeps
  <2>2. CacheInv(UnlockedElt(c, i)) /\ Keeps(c, UnlockedElt(c, i))
    BY <1>2, <2>1, UnlockedInv
  <2>3. d = UnlockedElt(c, i)
    BY <1>4
  <2> HIDE DEF d
  <2> QED
    BY <1>2, <1>3, <2>2, <2>3, OnlyGoes DEF Keeps
<1>5. CASE i = NoElt
  <2>1. d = cache
    BY <1>5
  <2> HIDE DEF d
  <2> QED
    BY <1>1, <1>3, <2>1, OnlyGoes DEF Keeps
<1> QED
  BY <1>4, <1>5

LEMMA UnlockAllGoes == ASSUME TilesInv, UnlockAll PROVE Goes
<1>1. CacheInv(cache)
  BY DEF TilesInv, Sound
<1>2. CacheInv(AllUnlocked[NElts]) /\ Keeps(cache, AllUnlocked[NElts])
  BY <1>1, UnlockAllInv
<1> DEFINE d == AllUnlocked[NElts]
<1>3. Only(d)
  BY DEF UnlockAll
<1> HIDE DEF d
<1> QED
  BY <1>2, <1>3, OnlyGoes DEF d

LEMMA AutolockGoes == ASSUME TilesInv, NEW on \in BOOLEAN, Autolock(on) PROVE Goes
<1> DEFINE d == [cache EXCEPT !.autoLock = on]
<1>1. CacheInv(cache) /\ cache \in CacheSet
  BY DEF TilesInv, Sound, CacheInv
<1>2. /\ d \in CacheSet /\ d.names = cache.names /\ d.locks = cache.locks /\ d.queue = cache.queue
      /\ d.index = cache.index /\ d.last = cache.last /\ d.nofUnlocked = cache.nofUnlocked
  BY <1>1 DEF CacheSet
<1>3. Only(d)
  BY DEF Autolock
<1> HIDE DEF d
<1>4. CacheInv(d) /\ Keeps(cache, d)
  BY <1>1, <1>2 DEF CacheInv, QueueInv, NameInv, MemoInv, Lives, Keeps
<1> QED
  BY <1>3, <1>4, OnlyGoes

LEMMA FlushTileGoes == ASSUME TilesInv, NEW t \in Tiles, FlushTile(t) PROVE Goes
<1>1. NoPut \in Puts
  BY DEF Puts
<1> QED
  BY <1>1, TilePtrGoes, PtrEndsGoes DEF FlushTile

LEMMA FlushLoadGoes == ASSUME TilesInv, FlushLoad PROVE Goes
<1> DEFINE t == spill[Len(spill)].tile
<1>1. t \in Tiles
  <2>1. spill \in Seq(Record) /\ spill # <<>>
    BY DEF FlushLoad, TilesInv, Sound, FilesInv, FileSet, Files
  <2>2. Len(spill) \in 1 .. Len(spill)
    BY <2>1
  <2>3. spill[Len(spill)] \in Record
    BY <2>1, <2>2
  <2> QED
    BY <2>3 DEF Record
<1>2. /\ pc = "flushFile"
      /\ \/ TilePtr(t, NoPut, "flushFileTile", t, "idle") /\ UNCHANGED toOutput
         \/ PtrEnds(t)
  BY DEF FlushLoad
<1> HIDE DEF t
<1>3. NoPut \in Puts
  BY DEF Puts
<1>4. toOutput
  BY <1>2 DEF TilesInv, Control
<1> QED
  BY <1>1, <1>2, <1>3, <1>4, TilePtrGoes, PtrEndsGoes

(* The end of a tile in memory, by G3d_flushTile or G3d_cache_flush.        *)
LEMMA RemovedGoes ==
  ASSUME TilesInv, NEW t \in Tiles, cache.index[t] # NoElt,
         NEW g, SavesTo(Files, g, t, buf[EltOf(cache, t)]), FilesAre(g),
         cache' = Removed(cache, t), UNCHANGED buf, NoFault
  PROVE  /\ Sound(cache', buf', Files', faults') /\ faults' = faults /\ cache'.queue # <<>>
         /\ \A j \in Elts : Lives(cache', j) <=> Lives(cache, j) /\ j # cache.index[t]
         /\ Stored /\ Files' = g
<1>1. /\ Sound(cache, buf, Files, faults) /\ EltOf(cache, t) = cache.index[t]
      /\ cache.index[t] \in Elts /\ buf \in [Elts -> Word]
  BY MemoTells, IndexLives DEF TilesInv, Sound, CacheInv, NameInv
<1> DEFINE i == cache.index[t]
           x == buf[i]
<1>2. SavesTo(Files, g, t, x) /\ x = buf[i] /\ i = cache.index[t]
  BY <1>1
<1> HIDE DEF x, i
<1> DEFINE d == Removed(cache, t)
<1>5. /\ Sound(d, buf, g, faults) /\ d.queue # <<>>
      /\ \A j \in Elts : Lives(d, j) <=> Lives(cache, j) /\ j # i
      /\ Settles(cache, buf, Files, d, buf, g, Tiles)
  <2> HIDE DEF d
  <2>1. d = Removed(cache, t) /\ i \in Elts
    BY <1>1, <1>2 DEF d
  <2> QED
    BY <1>1, <1>2, <2>1, RemovedSound
<1>3. /\ Sound(cache', buf, g, faults) /\ cache'.queue # <<>>
      /\ \A j \in Elts : Lives(cache', j) <=> Lives(cache, j) /\ j # i
      /\ Settles(cache, buf, Files, cache', buf, g, Tiles)
  BY <1>5
<1>4. Files' = g /\ faults' = faults /\ buf' = buf
  BY <1>3, FilesNext DEF Sound, NoFault
<1> QED
  BY <1>3, <1>4 DEF Stored, Moves, i

LEMMA WriteTileGoes == ASSUME TilesInv, WriteTile PROVE Goes
<1> DEFINE x == buf[EltOf(cache, cur)]
           g == Written(Files, cur, x)
<1>1. /\ cur \in Tiles /\ cache.index[cur] # NoElt /\ FilesInv(Files) /\ pc = "flushTile"
      /\ x \in Word
  <2>1. /\ cur \in Tiles /\ cache.index[cur] # NoElt /\ FilesInv(Files) /\ pc = "flushTile"
        /\ buf \in [Elts -> Word] /\ CacheInv(cache)
    BY DEF WriteTile, TilesInv, Control, Sound
  <2>2. EltOf(cache, cur) = cache.index[cur] /\ cache.index[cur] \in Elts
    BY <2>1, MemoTells, IndexLives DEF CacheInv, NameInv
  <2> QED
    BY <2>1, <2>2
<1>2. SavesTo(Files, g, cur, x)
  BY <1>1, WrittenSaves
<1>3. /\ FilesAre(g) /\ cache' = Removed(cache, cur) /\ UNCHANGED buf
      /\ NoFault /\ pc' = "idle" /\ cur' = 0 /\ UNCHANGED toOutput
  BY DEF WriteTile
<1>4. /\ Sound(cache', buf', Files', faults') /\ faults' = faults /\ cache'.queue # <<>>
      /\ Stored
  <2> HIDE DEF g
  <2> QED
    BY <1>1, <1>2, <1>3, RemovedGoes
<1>5. Control' /\ Unfailing'
  BY <1>3, <1>4 DEF TilesInv, Control, PCs, Unfailing
<1> QED
  BY <1>1, <1>4, <1>5 DEF Goes, TilesInv, Flushing

LEMMA WriteTileFailsGoes == ASSUME TilesInv, WriteTileFails PROVE Goes
<1>1. /\ cur \in Tiles /\ WriteFails(cur, buf[EltOf(cache, cur)])
      /\ UNCHANGED <<cache, buf, toOutput>>
      /\ pc' = "idle" /\ cur' = 0 /\ CacheInv(cache) /\ cache.index[cur] # NoElt
      /\ buf \in [Elts -> Word]
  BY DEF WriteTileFails, TilesInv, Control, Sound
<1>4. buf[EltOf(cache, cur)] \in Word
  BY <1>1, MemoTells, IndexLives DEF CacheInv, NameInv
<1>2. /\ Sound(cache', buf', Files', faults') /\ faults' \in 0 .. MaxFaults /\ faults' # 0
      /\ Holds /\ Stored
  BY <1>1, <1>4, WriteFailsGoes
<1>3. Control' /\ Unfailing'
  BY <1>1, <1>2 DEF TilesInv, Control, PCs, Unfailing
<1> QED
  BY <1>2, <1>3 DEF Goes, TilesInv

LEMMA FlushAllGoes == ASSUME TilesInv, FlushAll PROVE Goes
<1>1. /\ UNCHANGED <<cur, cache, buf, files, faults>> /\ Files' = Files
      /\ pc = "idle" /\ pc' = "flushFile" /\ toOutput'
  BY FilesStay DEF FlushAll
<1>2. Control' /\ Unfailing'
  BY <1>1 DEF FlushAll, TilesInv, Control, PCs, Unfailing
<1> QED
  BY <1>1, <1>2, SameMoves DEF Goes, TilesInv, Holds, Stored

LEMMA FlushFileEndsGoes == ASSUME TilesInv, FlushFileEnds PROVE Goes
<1>1. /\ UNCHANGED <<cur, cache, buf, files, toOutput, faults>> /\ Files' = Files
      /\ pc = "flushFile" /\ pc' = "flushElts" /\ spill = <<>> /\ spill' = spill
  BY FilesStay DEF FlushFileEnds, files
<1>2. Control'
  BY <1>1, G3dCacheAssumption DEF TilesInv, Control, PCs
<1>3. \A i \in Elts : ~(i < cur)
  BY <1>1 DEF TilesInv, Control, Elts
<1>4. Unfailing'
  BY <1>1, <1>3 DEF TilesInv, Unfailing
<1> QED
  BY <1>1, <1>2, <1>4, SameMoves DEF Goes, TilesInv, Holds, Stored

LEMMA FlushEndsGoes == ASSUME TilesInv, FlushEnds PROVE Goes
<1>1. /\ UNCHANGED <<cache, buf, files, faults>> /\ Files' = Files
      /\ pc' = "idle" /\ cur' = 0 /\ toOutput' = FALSE
  BY FilesStay DEF FlushEnds
<1>2. Control' /\ Unfailing'
  BY <1>1 DEF TilesInv, Control, PCs, Unfailing
<1> QED
  BY <1>1, <1>2, SameMoves DEF Goes, TilesInv, Holds, Stored

(* G3d_cache_flush: it stops at a tile whose name is lost or that cannot be *)
(* written.                                                                 *)
LEMMA FlushedGoes ==
  ASSUME TilesInv, NEW t \in Tiles, NEW then, NEW next, Flushed(t, then, next)
  PROVE  /\ Sound(cache', buf', Files', faults') /\ faults' \in 0 .. MaxFaults /\ Stored
         /\ \/ /\ pc' = "idle" /\ cur' = 0
               /\ faults' = 0 => faults = 0 /\ cache' = cache
            \/ /\ pc' = then /\ cur' = next /\ faults' = faults /\ cache'.queue # <<>>
               /\ toOutput => spill' = spill
               /\ \A j \in Elts : Lives(cache', j) <=> Lives(cache, j) /\ j # cache.index[t]
<1> DEFINE i == EltOf(cache, t)
<1>1. /\ Sound(cache, buf, Files, faults) /\ CacheInv(cache) /\ FilesInv(Files)
      /\ i = cache.index[t] /\ buf \in [Elts -> Word] /\ faults \in 0 .. MaxFaults
  BY MemoTells DEF TilesInv, Sound, CacheInv, NameInv, Control
<1>2. CASE i = NoElt /\ pc' = "idle" /\ cur' = 0 /\ NoFault /\ UNCHANGED <<cache, buf, files>>
  <2>1. Files' = Files /\ cache' = cache /\ buf' = buf /\ faults' = faults
    BY <1>2, FilesStay DEF NoFault
  <2>2. Stored
    BY <2>1, SameMoves DEF Stored
  <2> QED
    BY <1>1, <1>2, <2>1, <2>2
<1>3. CASE /\ i # NoElt /\ FilesAre(Saved(Files, t, buf[i])) /\ cache' = Removed(cache, t)
           /\ UNCHANGED buf /\ pc' = then /\ cur' = next /\ NoFault
  <2> DEFINE g == Saved(Files, t, buf[i])
  <2>1. buf[i] \in Word
    BY <1>1, <1>3, IndexLives
  <2>2. SavesTo(Files, g, t, buf[i]) /\ (toOutput => g.spill = Files.spill)
    BY <1>1, <2>1, SavedSaves
  <2>3. FilesAre(g) /\ cache.index[t] # NoElt
    BY <1>1, <1>3
  <2> HIDE DEF g
  <2>4. /\ Sound(cache', buf', Files', faults') /\ faults' = faults /\ cache'.queue # <<>>
        /\ \A j \in Elts : Lives(cache', j) <=> Lives(cache, j) /\ j # cache.index[t]
        /\ Stored /\ Files' = g
    BY <1>3, <2>2, <2>3, RemovedGoes
  <2>5. toOutput => spill' = spill
    BY <2>2, <2>3 DEF FilesAre, Files
  <2> QED
    BY <1>1, <1>3, <2>4, <2>5
<1>4. CASE /\ i # NoElt /\ WriteFails(t, buf[i]) /\ cache' = StuckElt(cache, t)
           /\ pc' = "idle" /\ cur' = 0 /\ UNCHANGED buf
  <2>1. /\ CacheInv(cache') /\ cache'.names = cache.names /\ cache'.index = cache.index
        /\ \A j \in Elts : Lives(cache', j) <=> Lives(cache, j)
    BY <1>1, <1>4, StuckInv
  <2>3. buf[i] \in Word
    BY <1>1, <1>4, IndexLives
  <2>2. /\ Sound(cache', buf', Files', faults') /\ faults' \in 0 .. MaxFaults /\ faults' # 0
        /\ Stored
    BY <1>4, <2>1, <2>3, WriteFailsGoes
  <2> QED
    BY <1>4, <2>2
<1> QED
  BY <1>2, <1>3, <1>4 DEF Flushed

LEMMA FlushLoadedGoes == ASSUME TilesInv, FlushLoaded PROVE Goes
<1>1. /\ pc = "flushFileTile" /\ cur \in Tiles /\ UNCHANGED toOutput /\ toOutput
      /\ Flushed(cur, "flushFile", 0)
  BY DEF FlushLoaded, TilesInv, Control
<1>2. /\ Sound(cache', buf', Files', faults') /\ faults' \in 0 .. MaxFaults /\ Stored
      /\ \/ /\ pc' = "idle" /\ cur' = 0
            /\ faults' = 0 => faults = 0 /\ cache' = cache
         \/ /\ pc' = "flushFile" /\ cur' = 0 /\ faults' = faults /\ cache'.queue # <<>>
  BY <1>1, FlushedGoes
<1>3. Control' /\ Unfailing'
  BY <1>1, <1>2 DEF TilesInv, Control, PCs, Unfailing
<1> QED
  BY <1>1, <1>2, <1>3 DEF Goes, TilesInv, Flushing

LEMMA FlushEltGoes == ASSUME TilesInv, FlushElt PROVE Goes
<1>1. /\ pc = "flushElts" /\ cur \in Elts /\ cur + 1 \in 0 .. NElts /\ cur \in Nat /\ cur + 1 \in Nat
      /\ UNCHANGED toOutput /\ toOutput /\ CacheInv(cache)
      /\ \A i \in Elts : i < cur + 1 => i < cur \/ i = cur
  BY G3dCacheAssumption DEF FlushElt, TilesInv, Control, Elts, Sound
<1>2. CASE /\ cache.locks[cur] = Inactive
           /\ cur' = cur + 1 /\ UNCHANGED <<pc, cache, buf, files, faults>>
  <2>1. Files' = Files /\ spill' = spill /\ ~Lives(cache, cur)
    BY <1>2, FilesStay DEF files, Lives
  <2>2. Control'
    BY <1>1, <1>2 DEF TilesInv, Control
  <2>3. Unfailing'
    BY <1>1, <1>2, <2>1 DEF TilesInv, Unfailing
  <2> QED
    BY <1>2, <2>1, <2>2, <2>3, SameMoves DEF Goes, TilesInv, Holds, Stored
<1>3. CASE cache.locks[cur] # Inactive /\ Flushed(cache.names[cur], "flushElts", cur + 1)
  <2> DEFINE t == cache.names[cur]
  <2>1. Lives(cache, cur) /\ t \in Tiles
    BY <1>1, <1>3, NameIs DEF Lives
  <2>2. faults = 0 => cache.index[t] = cur
    BY <1>1, <2>1 DEF TilesInv, Sound, Joint, JointAt
  <2> HIDE DEF t
  <2>3. /\ Sound(cache', buf', Files', faults') /\ faults' \in 0 .. MaxFaults /\ Stored
        /\ \/ /\ pc' = "idle" /\ cur' = 0
              /\ faults' = 0 => faults = 0 /\ cache' = cache
           \/ /\ pc' = "flushElts" /\ cur' = cur + 1 /\ faults' = faults /\ cache'.queue # <<>>
              /\ toOutput => spill' = spill
              /\ \A j \in Elts : Lives(cache', j) <=> Lives(cache, j) /\ j # cache.index[t]
    BY <1>3, <2>1, FlushedGoes DEF t
  <2>4. CASE /\ pc' = "idle" /\ cur' = 0
             /\ faults' = 0 => faults = 0 /\ cache' = cache
    <3>1. Control' /\ Unfailing'
      BY <1>1, <2>3, <2>4 DEF TilesInv, Control, PCs, Unfailing
    <3> QED
      BY <1>1, <2>3, <3>1 DEF Goes, TilesInv, Flushing
  <2>5. CASE /\ pc' = "flushElts" /\ cur' = cur + 1 /\ faults' = faults /\ cache'.queue # <<>>
             /\ toOutput => spill' = spill
             /\ \A j \in Elts : Lives(cache', j) <=> Lives(cache, j) /\ j # cache.index[t]
    <3>1. Control'
      BY <1>1, <2>3, <2>5 DEF TilesInv, Control, PCs
    <3>2. Unfailing'
      BY <1>1, <2>2, <2>5 DEF TilesInv, Unfailing
    <3> QED
      BY <1>1, <2>3, <3>1, <3>2 DEF Goes, TilesInv, Flushing
  <2> QED
    BY <2>3, <2>4, <2>5
<1> QED
  BY <1>2, <1>3 DEF FlushElt

-----------------------------------------------------------------------------
(* A map just opened.                                                       *)
LEMMA Opened == Init => TilesInv
<1> SUFFICES ASSUME Init PROVE TilesInv
  OBVIOUS
<1>0. NElts \in Nat /\ NElts > 0
  BY G3dCacheAssumption
<1>1. PICK n \in Minima : cache = [FreshCache EXCEPT !.minUnlocked = n]
  BY DEF Init
<1>2. /\ cache.names = [i \in Elts |-> NoTile] /\ cache.locks = [i \in Elts |-> Inactive]
      /\ cache.queue = [k \in 1 .. NElts |-> k - 1] /\ cache.index = [t \in Tiles |-> NoElt]
      /\ cache.last = NoMemo /\ cache.nofUnlocked = NElts
  BY <1>1 DEF FreshCache
<1>3. /\ cache.queue \in Seq(Elts) /\ Len(cache.queue) = NElts
      /\ DOMAIN cache.queue = 1 .. NElts /\ cache.queue # <<>>
      /\ \A k \in 1 .. NElts : cache.queue[k] = k - 1
  <2>1. \A k \in 1 .. NElts : k - 1 \in Elts
    BY <1>0 DEF Elts
  <2>2. cache.queue \in [1 .. NElts -> Elts]
    BY <1>2, <2>1
  <2>3. cache.queue \in Seq(Elts) /\ Len(cache.queue) = NElts
    BY <1>0, <2>2
  <2> QED
    BY <1>0, <1>2, <2>3
<1>4. QueueInv(cache)
  <2>1. QueueOnce(cache.queue)
    <3> SUFFICES ASSUME NEW k \in 1 .. NElts, NEW l \in 1 .. NElts, k - 1 = l - 1 PROVE k = l
      BY <1>3 DEF QueueOnce
    <3> QED
      BY <1>0
  <2>2. \A i \in Elts : i + 1 \in 1 .. NElts /\ (i + 1) - 1 = i
    BY <1>0 DEF Elts
  <2>3. \A i \in Elts : Queued(cache.queue, i)
    BY <1>3, <2>2 DEF Queued
  <2> QED
    BY <1>2, <1>3, <2>1, <2>3, Constants DEF QueueInv
<1>5. NameInv(cache)
  BY <1>2 DEF NameInv, MemoInv, Lives
<1>6. cache \in CacheSet
  <2>1. /\ cache.names \in [Elts -> Tiles \cup {NoTile}]
        /\ cache.locks \in [Elts -> {Unlocked, Locked, Inactive}]
        /\ cache.index \in [Tiles -> Elts \cup {NoElt}]
        /\ cache.last \in [tile : Tiles \cup {NoTile}, elt : Elts \cup {NoElt}]
    BY <1>2 DEF NoMemo
  <2>2. cache.minUnlocked = n /\ cache.autoLock = FALSE /\ n \in Int
    BY <1>1, G3dTilesAssumption DEF FreshCache
  <2>3. cache = [names |-> cache.names, locks |-> cache.locks, queue |-> cache.queue,
                 index |-> cache.index, last |-> cache.last, nofUnlocked |-> cache.nofUnlocked,
                 minUnlocked |-> cache.minUnlocked, autoLock |-> cache.autoLock]
    BY <1>1 DEF FreshCache
  <2> QED
    BY <1>0, <1>2, <1>3, <2>1, <2>2, <2>3 DEF CacheSet
<1>7. FilesInv(Files)
  <2>1. /\ Files.index = [t \in Tiles |-> Nowhere] /\ Files.spill = <<>>
        /\ Files.out = [t \in Tiles |-> Unwritten]
    BY DEF Init, Files
  <2>2. Files \in FileSet
    BY Words DEF Init, Files, FileSet, Nowhere
  <2>3. Len(Files.spill) = 0
    BY <2>1
  <2> QED
    BY <2>1, <2>2, <2>3 DEF FilesInv, InSpill, Nowhere, InData
<1>8. buf \in [Elts -> Word] /\ faults \in Nat
  BY Words DEF Init
<1>9. \A i \in Elts : ~Lives(cache, i)
  BY <1>2 DEF Lives
<1>10. Control /\ Unfailing
  <2>1. pc = "idle" /\ cur = 0 /\ toOutput = FALSE /\ faults = 0 /\ faults \in 0 .. MaxFaults
    BY G3dTilesAssumption DEF Init
  <2>2. Control
    BY <2>1 DEF Control, PCs
  <2>3. Unfailing
    BY <1>3, <2>1 DEF Unfailing
  <2> QED
    BY <2>2, <2>3
<1> QED
  BY <1>4, <1>5, <1>6, <1>7, <1>8, <1>9, <1>10 DEF TilesInv, Sound, CacheInv, Joint, JointAt

LEMMA Puttable == NoPut \in Puts /\ \A v \in Values : PutOf(v) \in Puts
BY DEF Puts

LEMMA StepGoes == ASSUME TilesInv, Next PROVE Goes
<1>1. ASSUME NEW t \in Tiles, Get(t) \/ LockTile(t) \/ UnlockTile(t) \/ FlushTile(t) PROVE Goes
  BY <1>1, Puttable, AccessGoes, LockTileGoes, UnlockTileGoes, FlushTileGoes DEF Get
<1>2. ASSUME NEW t \in Tiles, NEW v \in Values, Put(t, v) PROVE Goes
  BY <1>2, Puttable, AccessGoes DEF Put
<1>3. ASSUME NEW on \in BOOLEAN, Autolock(on) PROVE Goes
  BY <1>3, AutolockGoes
<1>4. CASE Flush
  BY <1>4, WriteTileGoes, WriteTileFailsGoes, FlushLoadGoes, FlushLoadedGoes, FlushFileEndsGoes,
     FlushEltGoes, FlushEndsGoes DEF Flush
<1> QED
  BY <1>1, <1>2, <1>3, <1>4, UnlockAllGoes, FlushAllGoes DEF Next

LEMMA Stays == ASSUME TilesInv, UNCHANGED vars PROVE TilesInv'
<1>1. UNCHANGED <<pc, cur, cache, buf, toOutput, faults, spill>> /\ Files' = Files
  BY DEF vars, Files
<1> QED
  BY <1>1 DEF TilesInv, Control, Unfailing

LEMMA TilesSound == Spec => []TilesInv
<1>1. TilesInv /\ [Next]_vars => TilesInv'
  BY StepGoes, Stays DEF Goes
<1> QED
  BY Opened, <1>1, PTL DEF Spec

-----------------------------------------------------------------------------
(* Type correctness of the tiles and their cache.                           *)
THEOREM TypeCorrect == Spec => []TypeOK
<1>1. TilesInv => TypeOK
  <2> SUFFICES ASSUME TilesInv PROVE TypeOK
    OBVIOUS
  <2>1. cache \in CacheSet /\ cache.nofUnlocked \in 0 .. NElts
    BY QueueCounts DEF TilesInv, Sound, CacheInv
  <2>2. cache \in Cache
    BY <2>1 DEF CacheSet, Cache
  <2>3. /\ index \in [Tiles -> Int] /\ spill \in Seq([tile : Tiles, val : Word])
        /\ out \in [Tiles -> Word \cup {Unwritten}]
        /\ end \in {FileEnd, Beyond} /\ xdr \in Word
    BY DEF TilesInv, Sound, FilesInv, FileSet, Files, Record
  <2> QED
    BY <2>2, <2>3 DEF TypeOK, TilesInv, Sound, Control
<1> QED
  BY TilesSound, <1>1, PTL

(* A tile in memory is found by the table while no write has failed.        *)
LEMMA HeldIs ==
  ASSUME TilesInv, NEW t \in Tiles
  PROVE  /\ cache.index[t] # NoElt => cache.index[t] \in Holding(t)
         /\ InMemory(t) /\ faults = 0 => Holding(t) = {cache.index[t]}
<1>1. cache.index[t] # NoElt => cache.index[t] \in Holding(t)
  BY IndexLives DEF TilesInv, Sound, Holding, Active, Lives
<1>2. ASSUME InMemory(t), faults = 0 PROVE Holding(t) = {cache.index[t]}
  <2>1. ASSUME NEW i \in Holding(t) PROVE i = cache.index[t]
    BY <1>2 DEF TilesInv, Sound, Joint, JointAt, Holding, Active, Lives
  <2> QED
    BY <1>2, <2>1 DEF InMemory
<1> QED
  BY <1>1, <1>2

(* The queue of the cache, its count, its table and its memo agree          *)
(* (cache.c, cachehash.c), for any number of tiles and elements.            *)
THEOREM CacheConsistent == Spec => []CacheAgrees
<1>1. TilesInv => CacheAgrees
  <2> SUFFICES ASSUME TilesInv PROVE CacheAgrees
    OBVIOUS
  <2>1. CacheInv(cache)
    BY DEF TilesInv, Sound
  <2>2. QueueAgrees
    <3>1. Len(cache.queue) = Cardinality(Elts \ LockedElts)
      BY <2>1, QueueCounts DEF LockedElts
    <3> QED
      BY <2>1, <3>1 DEF CacheInv, QueueInv, Queued, QueueAgrees
  <2>3. NamesAgree
    BY <2>1, HeldIs DEF CacheInv, NameInv, MemoInv, NamesAgree
  <2> QED
    BY <2>2, <2>3 DEF CacheAgrees
<1> QED
  BY TilesSound, <1>1, PTL

(* The invariant of g3dcache.c: a tile is in no file, in the data file or   *)
(* in the record of the file cache that the index says, also when a record  *)
(* was moved into a hole (cacheWrite_readFun) or a write has failed.        *)
THEOREM FileCacheConsistent == Spec => []FileCacheIndexed
<1>1. TilesInv => FileCacheIndexed
  <2> SUFFICES ASSUME TilesInv PROVE FileCacheIndexed
    OBVIOUS
  <2>1. /\ FilesInv(Files) /\ Files.index = index /\ Files.spill = spill /\ Files.out = out
        /\ index \in [Tiles -> Int]
    BY DEF TilesInv, Sound, Files, FilesInv, FileSet
  <2>2. ASSUME NEW t \in Tiles, InSpill(index, t) PROVE ~InMemory(t)
    BY <2>1, <2>2 DEF TilesInv, Sound, Joint, JointAt, InMemory, Holding, Active, Lives
  <2>3. \A t \in Tiles : InData(index, t) <=> out[t] # Unwritten
    BY <2>1 DEF FilesInv, InData
  <2> QED
    BY <2>1, <2>2, <2>3 DEF FilesInv, FileCacheIndexed
<1> QED
  BY TilesSound, <1>1, PTL

(* The locks of the caller, automatic ones too, always leave an element     *)
(* for the next tile, and a tile that is reused is found under its name.    *)
THEOREM ElementLeft == Spec => []OneElementLeft
<1>1. TilesInv => OneElementLeft
  BY DEF TilesInv, Unfailing, OneElementLeft
<1> QED
  BY TilesSound, <1>1, PTL

(* G3d_flushAllTiles, when no write fails, leaves no tile in memory nor in  *)
(* the file cache.                                                          *)
THEOREM FlushComplete == Spec => []AllFlushed
<1>1. TilesInv => AllFlushed
  BY G3dCacheAssumption DEF TilesInv, Unfailing, AllFlushed, Elts, Lives, Active
<1> QED
  BY TilesSound, <1>1, PTL

(* A locked element keeps its tile until a flush: the pointer the caller    *)
(* got from G3d_getTilePtr remains good.                                    *)
THEOREM LocksHold == Spec => LockHolds
<1> DEFINE A == \A i \in Elts : cache.locks[i] = Locked /\ cache'.names[i] # cache.names[i]
                   => pc \in {"flushTile", "flushFileTile", "flushElts"}
<1>1. TilesInv /\ [Next]_vars => [A]_vars
  BY StepGoes DEF Goes, Holds, Flushing
<1> QED
  BY TilesSound, <1>1, PTL DEF Spec, LockHolds

-----------------------------------------------------------------------------
(* What a tile shows is found by the table, while no write has failed.      *)
HeldBy(c, t) == {i \in Elts : c.locks[i] # Inactive /\ c.names[i] = t}
ViewOf(c, b, f, t) ==
    IF HeldBy(c, t) # {} THEN b[CHOOSE i \in Elts : i \in HeldBy(c, t)] ELSE Shows(f, t)

LEMMA ViewIsNow ==
  ASSUME NEW c, NEW b, NEW f, Sound(c, b, f, 0), NEW t \in Tiles
  PROVE  ViewOf(c, b, f, t) = Now(c, b, f, t)
<1>1. ASSUME NEW i \in HeldBy(c, t) PROVE i \in Elts /\ i = c.index[t] /\ c.index[t] # NoElt
  BY <1>1, Constants DEF HeldBy, Sound, Joint, JointAt, Lives
<1>2. c.index[t] # NoElt => c.index[t] \in HeldBy(c, t)
  BY IndexLives DEF Sound, HeldBy, Lives
<1>3. CASE c.index[t] # NoElt
  <2>1. (CHOOSE i \in Elts : i \in HeldBy(c, t)) = c.index[t]
    BY <1>1, <1>2, <1>3
  <2>2. ViewOf(c, b, f, t) = b[CHOOSE i \in Elts : i \in HeldBy(c, t)]
    BY <1>2, <1>3 DEF ViewOf
  <2>3. Now(c, b, f, t) = b[c.index[t]]
    BY <1>3 DEF Now
  <2> QED
    BY <2>1, <2>2, <2>3
<1>4. CASE c.index[t] = NoElt
  <2>1. HeldBy(c, t) = {}
    BY <1>1, <1>4
  <2> QED
    BY <1>4, <2>1 DEF ViewOf, Now
<1> QED
  BY <1>3, <1>4

LEMMA ViewIs == ASSUME NEW t \in Tiles PROVE View(t) = ViewOf(cache, buf, Files, t)
BY DEF View, ViewOf, InMemory, Holding, Active, HeldBy, Shows, Files

LEMMA ViewIsNext == ASSUME NEW t \in Tiles PROVE View(t)' = ViewOf(cache', buf', Files', t)
BY DEF View, ViewOf, InMemory, Holding, Active, HeldBy, Shows, Files

(* Failed writes are never forgotten.                                       *)
LEMMA FaultsGrow == ASSUME TilesInv, Next, faults' = 0 PROVE faults = 0
<1>1. faults' = faults \/ faults' = faults + 1
  BY DEF Next, Get, Put, Access, TilePtr, PtrHit, PtrMiss, PtrFails, PtrEnds, LockTile, UnlockTile,
     Autolock, UnlockAll, Only, FlushTile, FlushAll, Flush, WriteTile, WriteTileFails, FlushLoad,
     FlushLoaded, FlushFileEnds, FlushElt, FlushEnds, Flushed, WriteFails, Fault, NoFault
<1> QED
  BY <1>1 DEF TilesInv, Control

(* The tiles of a compressed map are those of a store: what is put into     *)
(* them is there until they are flushed, through the file cache and back,   *)
(* and what goes to the data file goes there once, as it was.               *)
THEOREM TilesAreStored == Compressed => (Spec => Implements)
<1> SUFFICES ASSUME Compressed PROVE Spec => Implements
  OBVIOUS
<1> DEFINE val == [t \in Tiles |-> View(t)]
<1>1. Init => Store!Init
  <2> SUFFICES ASSUME Init PROVE Store!Init
    OBVIOUS
  <2>1. TilesInv /\ faults = 0
    BY Opened DEF Init
  <2>2. ASSUME NEW t \in Tiles PROVE View(t) = Null
    <3>1. View(t) = Now(cache, buf, Files, t)
      BY <2>1, ViewIs, ViewIsNow DEF TilesInv
    <3>2. cache.index[t] = NoElt
      BY DEF Init, FreshCache
    <3>3. Shows(Files, t) = Null
      BY DEF Init, Files, Shows, InSpill, Nowhere, InData
    <3> QED
      BY <3>1, <3>2, <3>3 DEF Now
  <2> QED
    BY <2>2 DEF Init, Store!Init
<1>2. ASSUME TilesInv, Next, faults' = 0 PROVE Store!Next
  <2>1. TilesInv' /\ Stored
    BY <1>2, StepGoes DEF Goes
  <2>2. faults = 0
    BY <1>2, FaultsGrow
  <2>3. \A t \in Tiles : View(t) = Now(cache, buf, Files, t)
    BY <1>2, <2>2, ViewIs, ViewIsNow DEF TilesInv
  <2>4. \A t \in Tiles : View(t)' = Now(cache', buf', Files', t)
    BY <1>2, <2>1, ViewIsNext, ViewIsNow DEF TilesInv
  <2>5. /\ out \in [Tiles -> Word \cup {Unwritten}] /\ out' \in [Tiles -> Word \cup {Unwritten}]
        /\ Files.out = out /\ Files'.out = out'
    BY <1>2, <2>1 DEF TilesInv, Sound, FilesInv, FileSet, Files
  <2>6. ASSUME NEW U \in SUBSET Tiles, Moves(U) PROVE Store!Settle(U)
    <3>1. \A t \in Tiles : \/ out'[t] = out[t]
                           \/ out[t] = Unwritten /\ out'[t] = View(t)
      BY <2>3, <2>5, <2>6 DEF Moves, Settles
    <3>2. \A t \in U : \/ View(t)' = View(t)
                       \/ out'[t] # Unwritten /\ View(t)' = out'[t]
      BY <2>3, <2>4, <2>5, <2>6 DEF Moves, Settles
    <3> QED
      BY <2>5, <3>1, <3>2 DEF Store!Settle, Store!Kept, Store!Flushed, Store!FallsBack
  <2>7. CASE Moves(Tiles)
    BY <2>6, <2>7 DEF Store!Next, Store!Tidy
  <2>8. ASSUME NEW t \in Tiles, NEW w \in Puts, w.put, Stores(t, w) PROVE Store!Next
    <3>1. Moves(Tiles \ {t}) /\ View(t)' = w.val /\ w.val \in Values
      BY <2>4, <2>8, PutsAre DEF Stores
    <3>2. Store!Settle(Tiles \ {t})
      BY <2>6, <3>1
    <3>3. Store!Put(t, w.val)
      BY <3>1, <3>2 DEF Store!Put
    <3> QED
      BY <3>1, <3>3 DEF Store!Next
  <2>9. Moves(Tiles) \/ \E t \in Tiles, w \in Puts : w.put /\ Stores(t, w)
    BY <1>2, <2>1 DEF Stored, Stores
  <2> QED
    BY <2>7, <2>8, <2>9
<1>3. ASSUME UNCHANGED vars PROVE UNCHANGED <<val, out>>
  <2>1. \A t \in Tiles : View(t)' = View(t)
    BY <1>3 DEF vars, View, InMemory, Holding, Active
  <2> QED
    BY <1>3, <2>1 DEF vars
<1>4. TilesInv /\ [Next]_vars => [ShownStep]_<<val, out>>
  BY <1>2, <1>3 DEF ShownStep
<1> QED
  BY TilesSound, <1>1, <1>4, PTL DEF Spec, Implements
=============================================================================

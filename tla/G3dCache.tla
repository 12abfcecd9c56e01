------------------------------ MODULE G3dCache ------------------------------
(***************************************************************************)
(* The tile cache of lib/g3d (cache.c, cachehash.c): NElts elements that    *)
(* are active or not, those not locked in a queue from which the next one   *)
(* to be reused is taken, a table from tiles (names) to elements and the    *)
(* memo of its last look-up.  Its operations are functions on the record    *)
(* of its bookkeeping; the contents of the elements are in G3dTiles.        *)
(***************************************************************************)
EXTENDS Integers, Sequences, FiniteSets

CONSTANTS NTiles,       \* tiles of the map (nofNames)
          NElts         \* elements of the cache (nofElts)

ASSUME G3dCacheAssumption == NTiles \in Nat \ {0} /\ NElts \in Nat \ {0}

Tiles == 0 .. NTiles - 1
Elts  == 0 .. NElts - 1
NoTile == -1
NoElt  == -1

(* c->locks *)
Unlocked == 0
Locked   == 1
Inactive == 2

NoMemo == [tile |-> NoTile, elt |-> NoElt]

Cache == [names : [Elts -> Tiles \cup {NoTile}],
          locks : [Elts -> {Unlocked, Locked, Inactive}],
          queue : Seq(Elts),
          index : [Tiles -> Elts \cup {NoElt}],
          last : [tile : Tiles \cup {NoTile}, elt : Elts \cup {NoElt}],
          nofUnlocked : 0 .. NElts, minUnlocked : Int, autoLock : BOOLEAN]

(* G3d_cache_reset *)
FreshCache ==
    [names |-> [i \in Elts |-> NoTile], locks |-> [i \in Elts |-> Inactive],
     queue |-> [k \in 1 .. NElts |-> k - 1],
     index |-> [t \in Tiles |-> NoElt], last |-> NoMemo,
     nofUnlocked |-> NElts, minUnlocked |-> 1, autoLock |-> FALSE]

-----------------------------------------------------------------------------
(* A mistake: the memo outlives the name. *)
NameRemovedMemoKept(c, t) == [c EXCEPT !.index[t] = NoElt]

(* G3d_cache_hash_remove_name *)
NameRemoved(c, t) ==
    [c EXCEPT !.index[t] = NoElt,
              !.last = IF @.tile = t THEN NoMemo ELSE @]

(* G3d_cache_hash_name2index: the memo is looked at first, and set. *)
EltOf(c, t) == IF c.last.tile = t THEN c.last.elt ELSE c.index[t]
Looked(c, t) == IF EltOf(c, t) = NoElt THEN c
                ELSE [c EXCEPT !.last = [tile |-> t, elt |-> EltOf(c, t)]]

-----------------------------------------------------------------------------
(* The queue without element i, which is in it once or (when it is locked)  *)
(* not at all.                                                              *)
Without(q, i) ==
    LET k == CHOOSE k \in DOMAIN q : q[k] = i
    IN  IF \A m \in DOMAIN q : q[m] # i THEN q
        ELSE [m \in 1 .. Len(q) - 1 |-> IF m < k THEN q[m] ELSE q[m + 1]]

(* A mistake: one lock too many. *)
LastMayLock(c) == c.nofUnlocked >= c.minUnlocked

OneUnlockedOnly(c) == Len(c.queue) <= 1
AreMinUnlocked(c)  == c.nofUnlocked <= c.minUnlocked
MayLock(c) == ~OneUnlockedOnly(c) /\ ~AreMinUnlocked(c)

(* A mistake: the element stays in the queue. *)
LockedInQueue(c, i) ==
    IF c.locks[i] = Locked THEN c
    ELSE [c EXCEPT !.locks[i] = Locked, !.nofUnlocked = @ - 1]

(* G3d_cache_lock_intern *)
LockedElt(c, i) ==
    IF c.locks[i] = Locked THEN c
    ELSE [c EXCEPT !.queue = Without(@, i), !.locks[i] = Locked, !.nofUnlocked = @ - 1]

(* G3d_cache_unlock, of an element that was found. *)
UnlockedElt(c, i) ==
    IF c.locks[i] = Unlocked THEN c
    ELSE [c EXCEPT !.queue = Append(@, i), !.locks[i] = Unlocked,
                   !.nofUnlocked = IF c.locks[i] = Locked THEN @ + 1 ELSE @]

(* G3d_cache_elt_ptr of a tile that was found. *)
Hit(c, t) ==
    LET i == EltOf(c, t)
        d == Looked(c, t)
    IN  IF d.autoLock /\ d.locks[i] = Unlocked /\ MayLock(d) THEN LockedElt(d, i) ELSE d

(* ... of one that was not: it takes element i, the head of the queue, to   *)
(* whose old tile nothing refers any more.                                  *)
Taken(c, t, i) ==
    LET named == [c EXCEPT !.index[t] = i, !.locks[i] = Unlocked, !.names[i] = t]
        d     == LockedElt(named, i)
    IN  IF c.autoLock /\ MayLock(c) THEN d ELSE UnlockedElt(Looked(d, t), i)

(* A mistake: an element that is removed is always counted. *)
RemovedRecounted(c, t) ==
    LET i == EltOf(c, t)
    IN  [NameRemoved(Looked(c, t), t) EXCEPT
           !.queue = <<i>> \o Without(@, i), !.locks[i] = Inactive, !.names[i] = NoTile,
           !.nofUnlocked = @ + 1]

(* cache_remove_elt: the element of the tile becomes the first to be used   *)
(* again.  (What its name was does not matter any more.)                    *)
Removed(c, t) ==
    LET i == EltOf(c, t)
    IN  [NameRemoved(Looked(c, t), t) EXCEPT
           !.queue = <<i>> \o Without(@, i), !.locks[i] = Inactive, !.names[i] = NoTile,
           !.nofUnlocked = IF c.locks[i] = Locked THEN @ + 1 ELSE @]

(* ... and how it leaves it when the tile cannot be flushed. *)
StuckElt(c, t) == LockedElt(Looked(c, t), EltOf(c, t))
=============================================================================

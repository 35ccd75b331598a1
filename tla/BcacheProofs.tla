---------------------------- MODULE BcacheProofs -----------------------------
(***************************************************************************)
(* Proofs about the buffer cache and the IDE driver (Bcache): the cache    *)
(* and the request queue are consistent for every number of processes,     *)
(* blocks and buffers, and together they implement BlockStore.             *)
(*                                                                         *)
(* BufferInv is inductive on its own.  What a clean buffer holds           *)
(* (CleanInv) needs a drive whose reads succeed.                           *)
(***************************************************************************)
EXTENDS Bcache, TLAPS, FiniteSetTheorems, WellFoundedInduction

\* The pcs of a user that has its buffer's sleep-lock.
Locking == {"bread", "io", "io_asleep", "hold", "changed"}

\* Buffer b is in the request queue.
Queued(b) == \E i \in 1..Len(idequeue) : idequeue[i] = b

\* A user that is using a buffer uses one that has a block, and so has every
\* buffer with contents.
BlockInv ==
  /\ \A u \in Users : pc[u] # "idle" => blockno[buf[u]] \in Blocks
  /\ \A b \in Bufs : valid[b] => blockno[b] \in Blocks

\* The sleep-lock of a buffer and the user that has it know each other.
HolderInv ==
  /\ \A u \in Users : pc[u] \in Locking => holder[buf[u]] = u
  /\ \A b \in Bufs : holder[b] # Nobody
       => pc[holder[b]] \in Locking /\ buf[holder[b]] = b

\* Flags against the place of the user that has the buffer: what iderw() and
\* bwrite() rely on.
FlagsInv ==
  /\ \A b \in Bufs : dirty[b] => valid[b]
  /\ \A b \in Bufs : Queued(b) => ~valid[b] \/ dirty[b]
  /\ \A u \in Users : pc[u] \in {"hold", "changed"} => valid[buf[u]]
  /\ \A u \in Users : pc[u] = "io" => valid[buf[u]] /\ ~dirty[buf[u]]

\* The queue has no buffer twice; the holder of a queued buffer sleeps for it.
RequestInv ==
  /\ \A i, j \in 1..Len(idequeue) : idequeue[i] = idequeue[j] => i = j
  /\ \A i \in 1..Len(idequeue) :
       /\ holder[idequeue[i]] \in Users
       /\ pc[holder[idequeue[i]]] = "io_asleep"

\* The drive's command is the first request as it was started and as it still
\* is; once the drive has interrupted, a write has reached the disk.
CommandInv ==
  /\ cmd = <<>> <=> idequeue = <<>>
  /\ irq => cmd # <<>>
  /\ cmd # <<>> =>
       /\ cmd[1].block = blockno[idequeue[1]]
       /\ cmd[1].write = dirty[idequeue[1]]
       /\ cmd[1].write => cmd[1].data = data[idequeue[1]]
       /\ irq /\ cmd[1].write => platter[cmd[1].block] = cmd[1].data

\* The users that changed buffer b and did not yet mark it.
Changing(b) == \E u \in Users : pc[u] = "changed" /\ buf[u] = b

\* What is valid, not dirty and not being changed is what is on the disk.
CleanInv ==
  \A b \in Bufs : valid[b] /\ ~dirty[b] /\ ~Changing(b)
    => data[b] = platter[blockno[b]]

\* The dirty buffers that wait for the log and not for the drive.
Pinned == {b \in Bufs : dirty[b] /\ ~Queued(b)}

\* log_write() keeps no more than MaxPinned of them.
PinnedInv == Cardinality(Pinned) <= MaxPinned

\* Every buffer is on the list.
ListInv == \A b \in Bufs : \E i \in Bufs : lru[i] = b

\* The inductive invariant.
BufferInv ==
  /\ CacheInv
  /\ BlockInv
  /\ HolderInv
  /\ FlagsInv
  /\ RequestInv
  /\ CommandInv
  /\ NoMissedWakeup
  /\ PinnedInv
  /\ ListInv

-----------------------------------------------------------------------------
(* Counting. *)

\* A set of naturals has a least element.
LEMMA LeastNatural ==
  ASSUME NEW S \in SUBSET Nat, S # {}
  PROVE  \E s \in S : \A t \in S : s <= t
<1> DEFINE R == OpToRel(<, Nat)
<1>1. IsWellFoundedOn(R, Nat)
  BY NatLessThanWellFounded, Zenon
<1>2. R = {ss \in Nat \X Nat : ss[1] < ss[2]}
  BY Zenon DEF OpToRel
<1> HIDE DEF R
<1>3. \A s, t \in Nat : t < s => <<t, s>> \in R
  BY <1>2
<1>4. PICK s \in S : \A t \in S : ~(<<t, s>> \in R)
  BY <1>1, WFMin
<1>5. \A t \in S : ~(t < s)
  BY <1>3, <1>4
<1> QED
  BY <1>5

\* There are NBUF buffers.
LEMMA BufsFinite == IsFiniteSet(Bufs) /\ Cardinality(Bufs) = NBUF
BY FS_Interval, CacheAssumption DEF Bufs

\* The users are finitely many, all in all and of one buffer.
LEMMA UsersFinite ==
  /\ IsFiniteSet(Users)
  /\ \A b : IsFiniteSet(Having(b)) /\ Having(b) \in SUBSET Users
<1>1. IsFiniteSet({1, 2})
  <2>1. IsFiniteSet({1} \cup {2})
    BY FS_Singleton, FS_AddElement
  <2>2. {1, 2} = {1} \cup {2}
    OBVIOUS
  <2> QED BY <2>1, <2>2
<1>2. IsFiniteSet(Procs \X {1, 2})
  BY <1>1, FS_Product, CacheAssumption
<1>3. IsFiniteSet(Users)
  BY <1>2, FS_Subset DEF Users
<1>4. ASSUME NEW b PROVE IsFiniteSet(Having(b)) /\ Having(b) \in SUBSET Users
  <2>1. Having(b) \in SUBSET Users
    BY DEF Having
  <2> QED BY <2>1, <1>3, FS_Subset
<1> QED BY <1>3, <1>4

\* A step in which nobody starts or stops using a buffer keeps the counts right.
LEMMA UsersKept ==
  ASSUME CountsUsers, UNCHANGED <<refcnt, buf>>,
         \A q \in Users : pc'[q] = "idle" <=> pc[q] = "idle"
  PROVE  CountsUsers'
<1>1. \A b \in Bufs : Having(b)' = Having(b)
  BY DEF Having
<1> QED BY <1>1 DEF CountsUsers

\* A buffer nobody counts has no user, and one with a user is counted.
LEMMA Unreferenced ==
  ASSUME CountsUsers, NEW b \in Bufs
  PROVE  refcnt[b] = 0 <=> \A q \in Users : pc[q] # "idle" => buf[q] # b
<1>1. Cardinality(Having(b)) = 0 <=> Having(b) = {}
  BY UsersFinite, FS_EmptySet
<1> QED BY <1>1 DEF CountsUsers, Having

\* Fewer pinned buffers are not more than the log has room for.
LEMMA PinnedLess ==
  ASSUME PinnedInv, Pinned' \subseteq Pinned
  PROVE  PinnedInv'
<1>1. IsFiniteSet(Pinned)
  BY BufsFinite, FS_Subset DEF Pinned
<1>2. IsFiniteSet(Pinned') /\ Cardinality(Pinned') <= Cardinality(Pinned)
  BY <1>1, FS_Subset
<1>3. Cardinality(Pinned) \in Nat /\ Cardinality(Pinned') \in Nat /\ MaxPinned \in Nat
  BY <1>1, <1>2, FS_CardinalityType, CacheAssumption
<1> QED BY <1>2, <1>3 DEF PinnedInv

\* A step that does not touch the flags or the queue keeps what follows from
\* them alone.
LEMMA QueueKept ==
  ASSUME PinnedInv, UNCHANGED <<dirty, idequeue>>
  PROVE  PinnedInv'
<1>1. Pinned' = Pinned
  BY DEF Pinned, Queued
<1> QED BY <1>1, PinnedLess

\* The parts of the invariant at the start.
LEMMA BufferInit == Init => BufferInv
<1> SUFFICES ASSUME Init PROVE BufferInv OBVIOUS
<1>1. TypeOK
  <2>1. (CHOOSE v \in Vals : TRUE) \in Vals
    BY CacheAssumption
  <2>2. lru \in [Bufs -> Bufs]
    BY CacheAssumption DEF Init, Bufs
  <2>3. 1 \in Bufs
    BY CacheAssumption DEF Bufs
  <2>4. "idle" \in PCs
    BY DEF PCs
  <2>5. idequeue \in Seq(Bufs) /\ cmd \in Seq([block : Blocks, write : BOOLEAN, data : Vals])
        /\ Len(cmd) <= 1
    BY DEF Init
  <2> QED BY <2>1, <2>2, <2>3, <2>4, <2>5, CacheAssumption DEF Init, TypeOK
<1>2. \A b \in Bufs : Having(b) = {}
  BY DEF Init, Having
<1>3. CountsUsers
  BY <1>2, FS_EmptySet DEF CountsUsers, Init
<1>4. CacheInv
  BY <1>1, <1>3 DEF CacheInv, NoPanic, OneBuffer, Init
<1>5. \A b \in Bufs : ~Queued(b)
  BY DEF Queued, Init
<1>6. Pinned = {}
  BY DEF Pinned, Init
<1>7. PinnedInv
  BY <1>6, FS_EmptySet, CacheAssumption DEF PinnedInv
<1>8. ListInv
  <2> SUFFICES ASSUME NEW b \in Bufs PROVE \E i \in Bufs : lru[i] = b
    BY DEF ListInv
  <2>1. NBUF + 1 - b \in Bufs /\ lru[NBUF + 1 - b] = b
    BY CacheAssumption DEF Bufs, Init
  <2> QED BY <2>1
<1> QED
  BY <1>4, <1>5, <1>7, <1>8, CacheAssumption
  DEF BufferInv, BlockInv, HolderInv, FlagsInv, RequestInv, CommandInv,
      NoMissedWakeup, Locking, Init
-----------------------------------------------------------------------------
(* bget(). *)

\* bget() finds block n in buffer b.
bget_hit(u, b) ==
  /\ refcnt' = referenced(b)
  /\ buf' = [buf EXCEPT ![u] = b]
  /\ Goto(u, "acquiresleep")
  /\ UNCHANGED <<blockno, valid, dirty, panicked, data, holder, lru, disk>>

\* bget() uses buffer b for block n.
bget_recycle(u, n, b) ==
  /\ blockno' = [blockno EXCEPT ![b] = n]
  /\ valid' = [valid EXCEPT ![b] = FALSE]
  /\ dirty' = [dirty EXCEPT ![b] = FALSE]
  /\ refcnt' = [refcnt EXCEPT ![b] = 1]
  /\ buf' = [buf EXCEPT ![u] = b]
  /\ Goto(u, "acquiresleep")
  /\ UNCHANGED <<panicked, data, holder, lru, disk>>

\* Buffer b gets user u, who was idle.
LEMMA UserAdded ==
  ASSUME TypeOK, CountsUsers, NEW u \in Users, pc[u] = "idle", NEW b \in Bufs,
         buf' = [buf EXCEPT ![u] = b], Goto(u, "acquiresleep"),
         refcnt' = [refcnt EXCEPT ![b] = refcnt[b] + 1]
  PROVE  CountsUsers'
<1> SUFFICES ASSUME NEW c \in Bufs PROVE refcnt'[c] = Cardinality(Having(c)')
  BY DEF CountsUsers
<1>1. \A q \in Users : pc'[q] = IF q = u THEN "acquiresleep" ELSE pc[q]
  BY DEF Goto, TypeOK
<1>2. \A q \in Users : buf'[q] = IF q = u THEN b ELSE buf[q]
  BY DEF TypeOK
<1>3. refcnt'[c] = IF c = b THEN refcnt[c] + 1 ELSE refcnt[c]
  BY DEF TypeOK
<1>4. refcnt[c] = Cardinality(Having(c)) /\ u \notin Having(c)
  BY DEF CountsUsers, Having
<1>5. CASE c = b
  <2>1. Having(c)' = Having(c) \cup {u}
    BY <1>1, <1>2, <1>5 DEF Having
  <2>2. Cardinality(Having(c) \cup {u}) = Cardinality(Having(c)) + 1
    BY <1>4, UsersFinite, FS_AddElement
  <2> QED BY <2>1, <2>2, <1>3, <1>4, <1>5
<1>6. CASE c # b
  <2>1. Having(c)' = Having(c)
    BY <1>1, <1>2, <1>4, <1>6 DEF Having
  <2> QED BY <2>1, <1>3, <1>4, <1>6
<1> QED BY <1>5, <1>6

\* A hit keeps the invariant.
LEMMA HitKeeps ==
  ASSUME BufferInv, NEW u \in Users, NEW b \in Bufs, At(u, "idle"),
         blockno[b] \in Blocks, bget_hit(u, b)
  PROVE  BufferInv'
<1>0. TypeOK /\ pc[u] = "idle"
  BY DEF BufferInv, CacheInv, At
<1>1. \A q \in Users : pc'[q] = IF q = u THEN "acquiresleep" ELSE pc[q]
  BY <1>0 DEF bget_hit, Goto, TypeOK
<1>2. \A q \in Users : buf'[q] = IF q = u THEN b ELSE buf[q]
  BY <1>0 DEF bget_hit, TypeOK
<1>3. UNCHANGED <<blockno, valid, dirty, panicked, data, holder, lru,
                  idequeue, cmd, irq, platter>>
  BY DEF bget_hit, disk
<1>4. refcnt' = [refcnt EXCEPT ![b] = refcnt[b] + 1]
  BY DEF bget_hit, referenced
<1>5. TypeOK'
  <2>1. refcnt' \in [Bufs -> Nat]
    BY <1>0, <1>4 DEF TypeOK
  <2>2. pc' \in [Users -> PCs]
    BY <1>0 DEF bget_hit, Goto, TypeOK, PCs
  <2>3. buf' \in [Users -> Bufs]
    BY <1>0 DEF bget_hit, TypeOK
  <2> QED BY <1>0, <1>3, <2>1, <2>2, <2>3 DEF TypeOK
<1>6. CountsUsers'
  BY <1>0, <1>4, UserAdded DEF bget_hit, BufferInv, CacheInv
<1>7. CacheInv'
  <2>1. panicked' = "no"
    BY DEF bget_hit, At
  <2>2. NoPanic'
    BY <2>1 DEF NoPanic
  <2> QED BY <1>3, <1>5, <1>6, <2>2 DEF BufferInv, CacheInv, OneBuffer
<1>8. BlockInv'
  BY <1>1, <1>2, <1>3 DEF BufferInv, BlockInv
<1>9. HolderInv'
  <2>1. HolderInv /\ \A c \in Bufs : holder[c] # Nobody => holder[c] \in Users
    BY <1>0 DEF BufferInv, TypeOK
  <2> QED BY <1>0, <1>1, <1>2, <1>3, <2>1 DEF HolderInv, Locking
<1>10. FlagsInv'
  BY <1>1, <1>2, <1>3 DEF BufferInv, FlagsInv, Queued
<1>11. RequestInv'
  BY <1>0, <1>1, <1>3 DEF BufferInv, RequestInv
<1>12. NoMissedWakeup'
  BY <1>1, <1>2, <1>3 DEF BufferInv, NoMissedWakeup
<1>13. CommandInv' /\ ListInv'
  BY <1>3 DEF BufferInv, CommandInv, ListInv
<1>14. PinnedInv'
  BY <1>3, QueueKept DEF BufferInv
<1> QED
  BY <1>7, <1>8, <1>9, <1>10, <1>11, <1>12, <1>13, <1>14 DEF BufferInv

\* Recycling an unused buffer that is not dirty, for a block that is in no
\* buffer, keeps the invariant.
LEMMA RecycleKeeps ==
  ASSUME BufferInv, NEW u \in Users, NEW n \in Blocks, NEW b \in Bufs, At(u, "idle"),
         cached(n) = {}, refcnt[b] = 0, ~dirty[b], bget_recycle(u, n, b)
  PROVE  BufferInv'
<1>0. TypeOK /\ pc[u] = "idle" /\ CountsUsers
  BY DEF BufferInv, CacheInv, At
<1>1. \A q \in Users : pc'[q] = IF q = u THEN "acquiresleep" ELSE pc[q]
  BY <1>0 DEF bget_recycle, Goto, TypeOK
<1>2. \A q \in Users : buf'[q] = IF q = u THEN b ELSE buf[q]
  BY <1>0 DEF bget_recycle, TypeOK
<1>3. UNCHANGED <<panicked, data, holder, lru, idequeue, cmd, irq, platter>>
  BY DEF bget_recycle, disk
<1>4. refcnt' = [refcnt EXCEPT ![b] = refcnt[b] + 1]
  BY <1>0 DEF bget_recycle, TypeOK
<1>5. \A q \in Users : pc[q] # "idle" => buf[q] # b
  BY <1>0, Unreferenced
<1>6. \A c \in Bufs : /\ blockno'[c] = IF c = b THEN n ELSE blockno[c]
                      /\ valid'[c] = IF c = b THEN FALSE ELSE valid[c]
                      /\ dirty'[c] = IF c = b THEN FALSE ELSE dirty[c]
  BY <1>0 DEF bget_recycle, TypeOK
<1>7. \A i \in 1..Len(idequeue) : idequeue[i] # b /\ idequeue[i] \in Bufs
  <2> SUFFICES ASSUME NEW i \in 1..Len(idequeue)
               PROVE  idequeue[i] # b /\ idequeue[i] \in Bufs
    OBVIOUS
  <2>1. idequeue[i] \in Bufs
    BY <1>0 DEF TypeOK
  <2>2. holder[idequeue[i]] \in Users /\ pc[holder[idequeue[i]]] = "io_asleep"
    BY DEF BufferInv, RequestInv
  <2>3. buf[holder[idequeue[i]]] = idequeue[i]
    BY <2>1, <2>2, CacheAssumption DEF BufferInv, HolderInv
  <2> QED BY <1>5, <2>1, <2>2, <2>3
<1>8. TypeOK'
  <2>1. refcnt' \in [Bufs -> Nat]
    BY <1>0, <1>4 DEF TypeOK
  <2>2. pc' \in [Users -> PCs]
    BY <1>0 DEF bget_recycle, Goto, TypeOK, PCs
  <2>3. buf' \in [Users -> Bufs] /\ blockno' \in [Bufs -> Blocks \union {NoBlock}]
        /\ valid' \in [Bufs -> BOOLEAN] /\ dirty' \in [Bufs -> BOOLEAN]
    BY <1>0 DEF bget_recycle, TypeOK
  <2> QED BY <1>0, <1>3, <2>1, <2>2, <2>3 DEF TypeOK
<1>9. CountsUsers'
  BY <1>0, <1>4, UserAdded DEF bget_recycle
<1>10. OneBuffer'
  BY <1>6, CacheAssumption DEF BufferInv, CacheInv, OneBuffer, cached
<1>11. CacheInv'
  <2>1. panicked' = "no"
    BY DEF bget_recycle, At
  <2>2. NoPanic'
    BY <2>1 DEF NoPanic
  <2> QED BY <1>3, <1>8, <1>9, <1>10, <2>2 DEF BufferInv, CacheInv
<1>12. BlockInv'
  <2>1. BlockInv /\ \A q \in Users : buf[q] \in Bufs
    BY <1>0 DEF BufferInv, TypeOK
  <2>2. \A q \in Users : pc'[q] # "idle" => blockno'[buf'[q]] \in Blocks
    BY <1>0, <1>1, <1>2, <1>6, <2>1 DEF BlockInv
  <2>3. \A c \in Bufs : valid'[c] => blockno'[c] \in Blocks
    BY <1>6, <2>1 DEF BlockInv
  <2> QED BY <2>2, <2>3 DEF BlockInv
<1>13. HolderInv'
  <2>1. HolderInv /\ \A c \in Bufs : holder[c] # Nobody => holder[c] \in Users
    BY <1>0 DEF BufferInv, TypeOK
  <2> QED BY <1>0, <1>1, <1>2, <1>3, <2>1 DEF HolderInv, Locking
<1>14. FlagsInv'
  <2>1. \A q \in Users : buf[q] \in Bufs
    BY <1>0 DEF TypeOK
  <2>2. FlagsInv
    BY DEF BufferInv
  <2>3. \A c \in Bufs : Queued(c)' => Queued(c) /\ c # b
    BY <1>3, <1>7 DEF Queued
  <2>4. \A c \in Bufs : dirty'[c] => valid'[c]
    BY <1>6, <2>2 DEF FlagsInv
  <2>5. \A c \in Bufs : Queued(c)' => ~valid'[c] \/ dirty'[c]
    BY <1>6, <2>2, <2>3 DEF FlagsInv
  <2>6. \A q \in Users : pc'[q] \in {"hold", "changed"} => valid'[buf'[q]]
    BY <1>1, <1>2, <1>5, <1>6, <2>1, <2>2 DEF FlagsInv
  <2>7. \A q \in Users : pc'[q] = "io" => valid'[buf'[q]] /\ ~dirty'[buf'[q]]
    BY <1>1, <1>2, <1>5, <1>6, <2>1, <2>2 DEF FlagsInv
  <2> QED BY <2>4, <2>5, <2>6, <2>7 DEF FlagsInv
<1>15. RequestInv'
  BY <1>0, <1>1, <1>3 DEF BufferInv, RequestInv
<1>16. NoMissedWakeup'
  BY <1>1, <1>2, <1>3 DEF BufferInv, NoMissedWakeup
<1>17. CommandInv'
  <2>1. idequeue # <<>> => 1 \in 1..Len(idequeue)
    BY <1>0 DEF TypeOK
  <2>2. CommandInv
    BY DEF BufferInv
  <2> QED BY <1>3, <1>6, <1>7, <2>1, <2>2 DEF CommandInv
<1>18. ListInv'
  BY <1>3 DEF BufferInv, ListInv
<1>19. PinnedInv'
  <2>1. Pinned' \subseteq Pinned
    BY <1>3, <1>6 DEF Pinned, Queued
  <2> QED BY <2>1, PinnedLess DEF BufferInv
<1> QED
  BY <1>11, <1>12, <1>13, <1>14, <1>15, <1>16, <1>17, <1>18, <1>19 DEF BufferInv

\* If no buffer is unused, every buffer is kept for the log or had by a user.
LEMMA BuffersRunOut ==
  ASSUME BufferInv, unused = {}
  PROVE  NBUF <= Cardinality(Kept) + Cardinality(Busy)
<1> DEFINE Used == {b \in Bufs : \E q \in Busy : buf[q] = b}
           f == [q \in Busy |-> buf[q]]
<1>0. TypeOK /\ CountsUsers
  BY DEF BufferInv, CacheInv
<1>1. IsFiniteSet(Busy)
  BY UsersFinite, FS_Subset DEF Busy
<1>2. f \in Surjection(Busy, Used)
  BY <1>0 DEF Surjection, TypeOK, Busy
<1>3. IsFiniteSet(Used) /\ Cardinality(Used) <= Cardinality(Busy)
  BY <1>1, <1>2, FS_Surjection
<1>4. IsFiniteSet(Kept)
  BY BufsFinite, FS_Subset DEF Kept
<1>5. Bufs = Used \cup Kept
  <2> SUFFICES ASSUME NEW b \in Bufs, b \notin Used PROVE b \in Kept
    BY DEF Kept
  <2>1. PICK i \in Bufs : lru[i] = b
    BY DEF BufferInv, ListInv
  <2>2. Having(b) = {}
    BY DEF Having, Busy
  <2>3. refcnt[b] = 0
    BY <1>0, <2>2, Unreferenced DEF Having
  <2>4. dirty[b]
    BY <2>1, <2>3 DEF unused
  <2> QED BY <2>2, <2>4 DEF Kept
<1> HIDE DEF Used, f
<1>6. Cardinality(Used \cup Kept)
        = Cardinality(Used) + Cardinality(Kept) - Cardinality(Used \cap Kept)
  BY <1>3, <1>4, FS_Union
<1>7. /\ Cardinality(Used) \in Nat /\ Cardinality(Kept) \in Nat
      /\ Cardinality(Used \cap Kept) \in Nat /\ Cardinality(Busy) \in Nat
  BY <1>1, <1>3, <1>4, FS_Intersection, FS_CardinalityType
<1>8. Cardinality(Used \cup Kept) = NBUF
  BY <1>5, BufsFinite
<1> QED BY <1>3, <1>6, <1>7, <1>8

\* bget()'s second loop, from the end of the list, finds a buffer that is not
\* referenced and not dirty if there is one.
LEMMA LastUnused ==
  ASSUME TypeOK, unused # {}
  PROVE  LET b == lru[CHOOSE i \in unused : \A j \in unused : j <= i]
         IN  b \in Bufs /\ refcnt[b] = 0 /\ ~dirty[b]
<1>1. unused \subseteq Bufs
  BY DEF unused
<1> DEFINE S == {NBUF - i : i \in unused}
<1>2. S \in SUBSET Nat /\ S # {}
  <2>1. \A i \in unused : NBUF - i \in Nat
    BY <1>1, CacheAssumption DEF Bufs
  <2>2. PICK i \in unused : TRUE
    OBVIOUS
  <2>3. S \subseteq Nat
    BY <2>1
  <2>4. NBUF - i \in S
    BY <2>2
  <2> QED BY <2>3, <2>4, Zenon
<1>3. PICK s \in S : \A t \in S : s <= t
  BY <1>2, LeastNatural
<1>4. PICK i \in unused : s = NBUF - i
  OBVIOUS
<1>5. \A j \in unused : j <= i
  <2> SUFFICES ASSUME NEW j \in unused PROVE j <= i
    OBVIOUS
  <2>1. s <= NBUF - j
    BY <1>3
  <2> QED BY <2>1, <1>1, <1>4, CacheAssumption DEF Bufs
<1> DEFINE k == CHOOSE i_1 \in unused : \A j \in unused : j <= i_1
<1>6. k \in unused
  BY <1>5
<1> HIDE DEF k
<1>7. lru[k] \in Bufs /\ refcnt[lru[k]] = 0 /\ ~dirty[lru[k]]
  BY <1>1, <1>6 DEF unused, TypeOK
<1> QED BY <1>7 DEF k

\* bget() hits, recycles or panics.
LEMMA BgetCases ==
  ASSUME TypeOK, NEW u \in Users, NEW n \in Blocks, bget(u, n)
  PROVE  /\ pc[u] = "idle"
         /\ \/ /\ At(u, "idle")
               /\ \E b \in Bufs : blockno[b] = n /\ bget_hit(u, b)
            \/ /\ At(u, "idle")
               /\ \E b \in Bufs : /\ cached(n) = {} /\ refcnt[b] = 0 /\ ~dirty[b]
                                  /\ bget_recycle(u, n, b)
            \/ /\ unused = {} /\ panicked' = "bget"
               /\ UNCHANGED <<blockno, valid, dirty, refcnt, data, holder, lru, idequeue,
                              cmd, irq, platter, pc, buf>>
<1>1. pc[u] = "idle" /\ Resting(u)
  BY DEF bget
<1>2. CASE \E b \in cached(n) :
             /\ panicked = "no"
             /\ refcnt' = referenced(b)
             /\ buf' = [buf EXCEPT ![u] = b]
             /\ Goto(u, "acquiresleep")
             /\ UNCHANGED <<blockno, valid, dirty, panicked>>
  <2>1. UNCHANGED <<data, holder, lru, disk>>
    BY DEF bget
  <2> QED BY <1>1, <1>2, <2>1 DEF bget_hit, cached, At
<1>3. CASE /\ panicked = "no" /\ cached(n) = {} /\ unused # {}
           /\ LET b == lru[CHOOSE i \in unused : \A j \in unused : j <= i] IN
                /\ blockno' = [blockno EXCEPT ![b] = n]
                /\ valid' = [valid EXCEPT ![b] = FALSE]
                /\ dirty' = [dirty EXCEPT ![b] = FALSE]
                /\ refcnt' = [refcnt EXCEPT ![b] = 1]
                /\ buf' = [buf EXCEPT ![u] = b]
           /\ Goto(u, "acquiresleep")
           /\ UNCHANGED panicked
  <2>1. UNCHANGED <<data, holder, lru, disk>>
    BY DEF bget
  <2> DEFINE b == lru[CHOOSE i \in unused : \A j \in unused : j <= i]
  <2>2. b \in Bufs /\ refcnt[b] = 0 /\ ~dirty[b]
    BY <1>3, LastUnused
  <2>3. bget_recycle(u, n, b)
    BY <1>3, <2>1 DEF bget_recycle
  <2>4. At(u, "idle")
    BY <1>1, <1>3 DEF At
  <2> QED BY <1>1, <1>3, <2>2, <2>3, <2>4
<1>4. CASE /\ cached(n) = {} /\ unused = {}
           /\ panicked' = "bget"
           /\ UNCHANGED <<blockno, valid, dirty, refcnt, buf, pc>>
  <2>1. UNCHANGED <<data, holder, lru, idequeue, cmd, irq, platter>>
    BY DEF bget, disk
  <2> QED BY <1>1, <1>4, <2>1
<1> QED BY <1>2, <1>3, <1>4 DEF bget

\* A step that changes nothing but panicked, and that only where it may, keeps
\* the invariant.
LEMMA PanicKeeps ==
  ASSUME BufferInv, panicked' \in {"no", "bget", "iderw"}, NoPanic',
         UNCHANGED <<blockno, valid, dirty, refcnt, data, holder, lru, idequeue,
                     cmd, irq, platter, pc, buf>>
  PROVE  BufferInv'
<1>1. TypeOK'
  BY DEF BufferInv, CacheInv, TypeOK
<1>2. CountsUsers'
  BY UsersKept DEF BufferInv, CacheInv
<1>3. CacheInv'
  BY <1>1, <1>2 DEF BufferInv, CacheInv, OneBuffer
<1>4. PinnedInv'
  BY QueueKept DEF BufferInv
<1>5. BlockInv' /\ HolderInv' /\ FlagsInv' /\ RequestInv'
  BY DEF BufferInv, BlockInv, HolderInv, FlagsInv, RequestInv, Queued
<1>6. CommandInv' /\ NoMissedWakeup' /\ ListInv'
  BY DEF BufferInv, CommandInv, NoMissedWakeup, ListInv
<1> QED BY <1>3, <1>4, <1>5, <1>6 DEF BufferInv

\* bget() keeps the invariant.
LEMMA BgetKeeps ==
  ASSUME BufferInv, NEW u \in Users, NEW n \in Blocks, bget(u, n)
  PROVE  BufferInv'
<1>0. TypeOK
  BY DEF BufferInv, CacheInv
<1>1. pc[u] = "idle"
  BY <1>0, BgetCases
<1>2. CASE At(u, "idle") /\ \E b \in Bufs : blockno[b] = n /\ bget_hit(u, b)
  BY <1>2, HitKeeps
<1>3. CASE /\ At(u, "idle")
           /\ \E b \in Bufs : /\ cached(n) = {} /\ refcnt[b] = 0 /\ ~dirty[b]
                              /\ bget_recycle(u, n, b)
  BY <1>3, RecycleKeeps
<1>4. CASE /\ unused = {} /\ panicked' = "bget"
           /\ UNCHANGED <<blockno, valid, dirty, refcnt, data, holder, lru, idequeue,
                          cmd, irq, platter, pc, buf>>
  <2>1. NBUF <= Cardinality(Kept) + Cardinality(Busy) /\ Busy # Users
    BY <1>1, <1>4, BuffersRunOut DEF Busy
  <2>2. Kept' = Kept /\ Busy' = Busy
    BY <1>4 DEF Kept, Busy, Having
  <2>3. NoPanic'
    BY <1>4, <2>1, <2>2 DEF NoPanic
  <2>4. panicked' \in {"no", "bget", "iderw"}
    BY <1>4
  <2> QED BY <1>4, <2>3, <2>4, PanicKeeps
<1> QED BY <1>0, <1>2, <1>3, <1>4, BgetCases
-----------------------------------------------------------------------------
(* Sleep-locks and the holder of a buffer. *)

\* What every state of BufferInv says about a user u and its buffer.
LEMMA HolderFacts ==
  ASSUME BufferInv
  PROVE  /\ \A c \in Bufs : holder[c] # Nobody => holder[c] \in Users
         /\ \A q \in Users : buf[q] \in Bufs
         /\ \A i \in 1..Len(idequeue) :
              /\ idequeue[i] \in Bufs /\ holder[idequeue[i]] \in Users
              /\ buf[holder[idequeue[i]]] = idequeue[i]
         /\ idequeue # <<>> => 1 \in 1..Len(idequeue)
<1>0. TypeOK
  BY DEF BufferInv, CacheInv
<1>1. \A i \in 1..Len(idequeue) : idequeue[i] \in Bufs
  BY <1>0 DEF TypeOK
<1>2. \A i \in 1..Len(idequeue) : holder[idequeue[i]] \in Users
  BY DEF BufferInv, RequestInv
<1>3. \A i \in 1..Len(idequeue) : buf[holder[idequeue[i]]] = idequeue[i]
  BY <1>1, <1>2, CacheAssumption DEF BufferInv, HolderInv
<1>4. idequeue # <<>> => 1 \in 1..Len(idequeue)
  BY <1>0 DEF TypeOK
<1> QED BY <1>0, <1>1, <1>2, <1>3, <1>4 DEF TypeOK

\* acquiresleep() keeps the invariant.
LEMMA AcquiresleepKeeps ==
  ASSUME BufferInv, NEW u \in Users, acquiresleep(u)
  PROVE  BufferInv'
<1>0. TypeOK /\ pc[u] = "acquiresleep" /\ buf[u] \in Bufs
  BY HolderFacts DEF BufferInv, CacheInv, acquiresleep, At
<1>1. UNCHANGED <<blockno, valid, dirty, refcnt, data, lru, idequeue, cmd, irq,
                  platter, buf, panicked>>
  BY DEF acquiresleep, bufs, disk
<1>2. PICK l \in {"bread", "lk_asleep"} :
        /\ \A q \in Users : pc'[q] = IF q = u THEN l ELSE pc[q]
        /\ pc' \in [Users -> PCs]
        /\ l = "bread" => holder[buf[u]] = Nobody /\ holder' = [holder EXCEPT ![buf[u]] = u]
        /\ l = "lk_asleep" => holder[buf[u]] # Nobody /\ holder' = holder
  <2>1. CASE holder[buf[u]] = Nobody
    <3>1. holder' = [holder EXCEPT ![buf[u]] = u] /\ pc' = [pc EXCEPT ![u] = "bread"]
      BY <2>1 DEF acquiresleep, Goto
    <3>2. pc' \in [Users -> PCs] /\ \A q \in Users : pc'[q] = IF q = u THEN "bread" ELSE pc[q]
      BY <1>0, <3>1 DEF TypeOK, PCs
    <3> QED BY <2>1, <3>1, <3>2
  <2>2. CASE holder[buf[u]] # Nobody
    <3>1. holder' = holder /\ pc' = [pc EXCEPT ![u] = "lk_asleep"]
      BY <2>2 DEF acquiresleep, Goto
    <3>2. pc' \in [Users -> PCs] /\ \A q \in Users : pc'[q] = IF q = u THEN "lk_asleep" ELSE pc[q]
      BY <1>0, <3>1 DEF TypeOK, PCs
    <3> QED BY <2>2, <3>1, <3>2
  <2> QED BY <2>1, <2>2
<1>3. \A c \in Bufs : holder'[c] = IF l = "bread" /\ c = buf[u] THEN u ELSE holder[c]
  BY <1>0, <1>2 DEF TypeOK
<1>4. TypeOK'
  <2>1. holder' \in [Bufs -> Users \union {Nobody}]
    BY <1>0, <1>2 DEF TypeOK
  <2> QED BY <1>0, <1>1, <1>2, <2>1 DEF TypeOK
<1>5. CountsUsers'
  BY <1>0, <1>1, <1>2, UsersKept DEF BufferInv, CacheInv
<1>6. CacheInv'
  <2>1. panicked' = "no"
    BY DEF acquiresleep, At
  <2>2. NoPanic'
    BY <2>1 DEF NoPanic
  <2> QED BY <1>1, <1>4, <1>5, <2>2 DEF BufferInv, CacheInv, OneBuffer
<1>7. BlockInv'
  BY <1>0, <1>1, <1>2 DEF BufferInv, BlockInv
<1>8. HolderInv'
  <2>1. HolderInv
    BY DEF BufferInv
  <2>2. \A q \in Users : pc'[q] \in Locking => holder'[buf'[q]] = q
    BY <1>0, <1>1, <1>2, <1>3, <2>1, HolderFacts, CacheAssumption DEF HolderInv, Locking
  <2>3. \A c \in Bufs : holder'[c] # Nobody
          => pc'[holder'[c]] \in Locking /\ buf'[holder'[c]] = c
    BY <1>0, <1>1, <1>2, <1>3, <2>1, HolderFacts, CacheAssumption DEF HolderInv, Locking
  <2> QED BY <2>2, <2>3 DEF HolderInv
<1>9. FlagsInv'
  BY <1>1, <1>2 DEF BufferInv, FlagsInv, Queued
<1>10. RequestInv'
  <2>1. RequestInv
    BY DEF BufferInv
  <2>2. \A i \in 1..Len(idequeue) : holder'[idequeue[i]] = holder[idequeue[i]]
    BY <1>3, <1>2, <2>1, HolderFacts, CacheAssumption DEF RequestInv
  <2> QED BY <1>0, <1>1, <1>2, <2>1, <2>2 DEF RequestInv
<1>11. NoMissedWakeup'
  <2>1. NoMissedWakeup
    BY DEF BufferInv
  <2> QED BY <1>0, <1>1, <1>2, <1>3, <2>1, HolderFacts, CacheAssumption DEF NoMissedWakeup
<1>12. CommandInv' /\ ListInv'
  BY <1>1 DEF BufferInv, CommandInv, ListInv
<1>13. PinnedInv'
  BY <1>1, QueueKept DEF BufferInv
<1> QED
  BY <1>6, <1>7, <1>8, <1>9, <1>10, <1>11, <1>12, <1>13 DEF BufferInv

\* A user that has its buffer's lock goes on, with no effect but the one on
\* its own pc: the invariant is kept if the flags of the buffer fit there.
LEMMA HolderMoves ==
  ASSUME BufferInv, NEW u \in Users, pc[u] \in {"bread", "io"}, panicked = "no",
         valid[buf[u]] /\ pc' = [pc EXCEPT ![u] = "hold"],
         UNCHANGED <<blockno, valid, dirty, refcnt, data, holder, lru, idequeue,
                     cmd, irq, platter, buf, panicked>>
  PROVE  BufferInv'
<1>0. TypeOK /\ buf[u] \in Bufs
  BY HolderFacts DEF BufferInv, CacheInv
<1>1. pc' \in [Users -> PCs] /\ \A q \in Users : pc'[q] = IF q = u THEN "hold" ELSE pc[q]
  BY <1>0 DEF TypeOK, PCs
<1>2. TypeOK'
  BY <1>0, <1>1 DEF TypeOK
<1>3. CountsUsers'
  BY <1>1, UsersKept DEF BufferInv, CacheInv
<1>4. CacheInv'
  <2>1. panicked' = "no"
    OBVIOUS
  <2>2. NoPanic'
    BY <2>1 DEF NoPanic
  <2> QED BY <1>2, <1>3, <2>2 DEF BufferInv, CacheInv, OneBuffer
<1>5. BlockInv' /\ FlagsInv' /\ NoMissedWakeup'
  BY <1>1 DEF BufferInv, BlockInv, FlagsInv, NoMissedWakeup, Queued
<1>6. HolderInv'
  <2>1. HolderInv
    BY DEF BufferInv
  <2> QED BY <1>0, <1>1, <2>1, HolderFacts DEF HolderInv, Locking
<1>7. RequestInv'
  <2>1. RequestInv
    BY DEF BufferInv
  <2> QED BY <1>1, <2>1 DEF RequestInv
<1>8. CommandInv' /\ ListInv'
  BY DEF BufferInv, CommandInv, ListInv
<1>9. PinnedInv'
  BY QueueKept DEF BufferInv
<1> QED
  BY <1>4, <1>5, <1>6, <1>7, <1>8, <1>9 DEF BufferInv

\* iderw() keeps the invariant when a woken user goes on.
LEMMA IoKeeps ==
  ASSUME BufferInv, NEW u \in Users, io(u)
  PROVE  BufferInv'
<1>1. pc[u] = "io" /\ panicked = "no"
  BY DEF io, At
<1>2. valid[buf[u]] /\ ~dirty[buf[u]]
  BY <1>1 DEF BufferInv, FlagsInv
<1>3. pc' = [pc EXCEPT ![u] = "hold"]
  BY <1>2 DEF io, Goto
<1>4. UNCHANGED <<blockno, valid, dirty, refcnt, data, holder, lru, idequeue,
                  cmd, irq, platter, buf, panicked>>
  BY DEF io, bufs, disk
<1> QED BY <1>1, <1>2, <1>3, <1>4, HolderMoves

\* The caller's change keeps the invariant: the buffer is not queued.
LEMMA ChangeKeeps ==
  ASSUME BufferInv, NEW u \in Users, NEW v \in Vals, Change(u, v)
  PROVE  BufferInv'
<1>0. TypeOK /\ pc[u] = "hold" /\ buf[u] \in Bufs
  BY HolderFacts DEF BufferInv, CacheInv, Change, At
<1>1. UNCHANGED <<blockno, valid, dirty, refcnt, holder, lru, idequeue, cmd, irq,
                  platter, buf, panicked>>
  BY DEF Change, disk
<1>2. pc' \in [Users -> PCs] /\ \A q \in Users : pc'[q] = IF q = u THEN "changed" ELSE pc[q]
  BY <1>0 DEF Change, Goto, TypeOK, PCs
<1>3. data' \in [Bufs -> Vals] /\ \A c \in Bufs : data'[c] = IF c = buf[u] THEN v ELSE data[c]
  BY <1>0 DEF Change, TypeOK
<1>4. TypeOK'
  BY <1>0, <1>1, <1>2, <1>3 DEF TypeOK
<1>5. CountsUsers'
  BY <1>0, <1>1, <1>2, UsersKept DEF BufferInv, CacheInv
<1>6. CacheInv'
  <2>1. panicked' = "no"
    BY DEF Change, At
  <2>2. NoPanic'
    BY <2>1 DEF NoPanic
  <2> QED BY <1>1, <1>4, <1>5, <2>2 DEF BufferInv, CacheInv, OneBuffer
<1>7. BlockInv' /\ FlagsInv' /\ NoMissedWakeup'
  BY <1>0, <1>1, <1>2 DEF BufferInv, BlockInv, FlagsInv, NoMissedWakeup, Queued
<1>8. HolderInv'
  <2>1. HolderInv
    BY DEF BufferInv
  <2> QED BY <1>0, <1>1, <1>2, <2>1, HolderFacts DEF HolderInv, Locking
<1>9. RequestInv'
  <2>1. RequestInv
    BY DEF BufferInv
  <2> QED BY <1>0, <1>1, <1>2, <2>1 DEF RequestInv
<1>10. \A i \in 1..Len(idequeue) : idequeue[i] # buf[u]
  <2>1. RequestInv /\ HolderInv
    BY DEF BufferInv
  <2> QED BY <1>0, <2>1, HolderFacts DEF RequestInv, HolderInv, Locking
<1>11. CommandInv'
  <2>1. CommandInv
    BY DEF BufferInv
  <2> QED BY <1>0, <1>1, <1>3, <1>10, <2>1, HolderFacts DEF CommandInv
<1>12. ListInv'
  BY <1>1 DEF BufferInv, ListInv
<1>13. PinnedInv'
  BY <1>1, QueueKept DEF BufferInv
<1> QED
  BY <1>6, <1>7, <1>8, <1>9, <1>11, <1>12, <1>13 DEF BufferInv

\* log_write() keeps the invariant: it pins one buffer more, in a log with room.
LEMMA LogWriteKeeps ==
  ASSUME BufferInv, NEW u \in Users, log_write(u)
  PROVE  BufferInv'
<1>0. TypeOK /\ pc[u] = "changed" /\ buf[u] \in Bufs
  BY HolderFacts DEF BufferInv, CacheInv, log_write, At
<1>1. UNCHANGED <<blockno, valid, refcnt, data, holder, lru, idequeue, cmd, irq,
                  platter, buf, panicked>>
  BY DEF log_write, disk
<1>2. pc' \in [Users -> PCs] /\ \A q \in Users : pc'[q] = IF q = u THEN "hold" ELSE pc[q]
  BY <1>0 DEF log_write, Goto, TypeOK, PCs
<1>3. /\ dirty' \in [Bufs -> BOOLEAN]
      /\ \A c \in Bufs : dirty'[c] = IF c = buf[u] THEN TRUE ELSE dirty[c]
  BY <1>0 DEF log_write, TypeOK
<1>4. TypeOK'
  BY <1>0, <1>1, <1>2, <1>3 DEF TypeOK
<1>5. CountsUsers'
  BY <1>0, <1>1, <1>2, UsersKept DEF BufferInv, CacheInv
<1>6. CacheInv'
  <2>1. panicked' = "no"
    BY DEF log_write, At
  <2>2. NoPanic'
    BY <2>1 DEF NoPanic
  <2> QED BY <1>1, <1>4, <1>5, <2>2 DEF BufferInv, CacheInv, OneBuffer
<1>7. BlockInv' /\ NoMissedWakeup'
  BY <1>0, <1>1, <1>2 DEF BufferInv, BlockInv, NoMissedWakeup
<1>8. HolderInv'
  <2>1. HolderInv
    BY DEF BufferInv
  <2> QED BY <1>0, <1>1, <1>2, <2>1, HolderFacts DEF HolderInv, Locking
<1>9. RequestInv'
  <2>1. RequestInv
    BY DEF BufferInv
  <2> QED BY <1>0, <1>1, <1>2, <2>1 DEF RequestInv
<1>10. \A i \in 1..Len(idequeue) : idequeue[i] # buf[u]
  <2>1. RequestInv /\ HolderInv
    BY DEF BufferInv
  <2> QED BY <1>0, <2>1, HolderFacts DEF RequestInv, HolderInv, Locking
<1>11. CommandInv'
  <2>1. CommandInv
    BY DEF BufferInv
  <2> QED BY <1>0, <1>1, <1>3, <1>10, <2>1, HolderFacts DEF CommandInv
<1>12. ListInv'
  BY <1>1 DEF BufferInv, ListInv
<1>13. FlagsInv'
  <2>1. FlagsInv /\ HolderInv
    BY DEF BufferInv
  <2>2. \A q \in Users : pc[q] = "io" => buf[q] # buf[u]
    BY <1>0, <2>1 DEF HolderInv, Locking
  <2>3. \A q \in Users : pc'[q] = "io" => valid'[buf'[q]] /\ ~dirty'[buf'[q]]
    <3> SUFFICES ASSUME NEW q \in Users, pc'[q] = "io"
                 PROVE  valid[buf[q]] /\ ~dirty'[buf[q]]
      BY <1>1
    <3>1. pc[q] = "io" /\ buf[q] # buf[u] /\ buf[q] \in Bufs
      BY <1>2, <2>2, HolderFacts
    <3>2. dirty'[buf[q]] = dirty[buf[q]]
      BY <1>3, <3>1
    <3> QED BY <2>1, <3>1, <3>2 DEF FlagsInv
  <2>4. /\ \A c \in Bufs : dirty'[c] => valid'[c]
        /\ \A c \in Bufs : Queued(c)' => ~valid'[c] \/ dirty'[c]
    <3> SUFFICES ASSUME NEW c \in Bufs
                 PROVE  (dirty'[c] => valid[c]) /\ (Queued(c) => ~valid[c] \/ dirty'[c])
      BY <1>1 DEF Queued
    <3>1. valid[buf[u]]
      BY <1>0, <2>1 DEF FlagsInv
    <3>2. CASE c = buf[u]
      BY <1>3, <3>1, <3>2
    <3>3. CASE c # buf[u]
      BY <1>3, <2>1, <3>3 DEF FlagsInv
    <3> QED BY <3>2, <3>3
  <2>5. \A q \in Users : pc'[q] \in {"hold", "changed"} => valid'[buf'[q]]
    BY <1>0, <1>1, <1>2, <2>1 DEF FlagsInv
  <2> QED BY <2>3, <2>4, <2>5 DEF FlagsInv
<1>14. PinnedInv'
  <2> DEFINE D == {b \in Bufs \ {buf[u]} : dirty[b]}
  <2>1. Cardinality(D) < MaxPinned
    BY DEF log_write
  <2>2. IsFiniteSet(D)
    BY BufsFinite, FS_Subset
  <2>3. IsFiniteSet(D \cup {buf[u]}) /\ Cardinality(D \cup {buf[u]}) = Cardinality(D) + 1
    BY <2>2, FS_AddElement
  <2>4. Pinned' \subseteq D \cup {buf[u]}
    BY <1>3 DEF Pinned
  <2>5. Cardinality(Pinned') <= Cardinality(D \cup {buf[u]}) /\ IsFiniteSet(Pinned')
    BY <2>3, <2>4, FS_Subset
  <2>6. Cardinality(D) \in Nat /\ Cardinality(Pinned') \in Nat /\ MaxPinned \in Nat
    BY <2>2, <2>5, FS_CardinalityType, CacheAssumption
  <2> HIDE DEF D
  <2> QED BY <2>1, <2>3, <2>5, <2>6 DEF PinnedInv
<1> QED
  BY <1>6, <1>7, <1>8, <1>9, <1>11, <1>12, <1>13, <1>14 DEF BufferInv

\* releasesleep() keeps the invariant: whoever slept for the lock is awake.
LEMMA ReleasesleepKeeps ==
  ASSUME BufferInv, NEW u \in Users, releasesleep(u)
  PROVE  BufferInv'
<1>0. TypeOK /\ pc[u] = "hold" /\ buf[u] \in Bufs /\ holder[buf[u]] = u
  <2>1. pc[u] = "hold"
    BY DEF releasesleep, At
  <2> QED BY <2>1, HolderFacts DEF BufferInv, CacheInv, HolderInv, Locking
<1>1. UNCHANGED <<blockno, valid, dirty, refcnt, data, lru, idequeue, cmd, irq,
                  platter, buf, panicked>>
  BY DEF releasesleep, bufs, disk
<1>2. \A q \in Users :
        pc'[q] = IF q = u THEN "brelse"
                 ELSE IF pc[q] = "lk_asleep" /\ buf[q] = buf[u] THEN "acquiresleep"
                 ELSE pc[q]
  BY DEF releasesleep, releasesleep_wake, Wake
<1>3. pc' \in [Users -> PCs]
  BY <1>0 DEF releasesleep, releasesleep_wake, Wake, TypeOK, PCs
<1>4. \A c \in Bufs : holder'[c] = IF c = buf[u] THEN Nobody ELSE holder[c]
  BY <1>0 DEF releasesleep, TypeOK
<1>5. TypeOK'
  <2>1. holder' \in [Bufs -> Users \union {Nobody}]
    BY <1>0 DEF releasesleep, TypeOK
  <2> QED BY <1>0, <1>1, <1>3, <2>1 DEF TypeOK
<1>6. CountsUsers'
  BY <1>0, <1>1, <1>2, UsersKept DEF BufferInv, CacheInv
<1>7. CacheInv'
  <2>1. panicked' = "no"
    BY DEF releasesleep, At
  <2>2. NoPanic'
    BY <2>1 DEF NoPanic
  <2> QED BY <1>1, <1>5, <1>6, <2>2 DEF BufferInv, CacheInv, OneBuffer
<1>8. BlockInv' /\ FlagsInv'
  BY <1>0, <1>1, <1>2 DEF BufferInv, BlockInv, FlagsInv, Queued
<1>9. HolderInv'
  <2>1. HolderInv
    BY DEF BufferInv
  <2>2. \A q \in Users : pc'[q] \in Locking => holder'[buf'[q]] = q
    BY <1>0, <1>1, <1>2, <1>4, <2>1, HolderFacts DEF HolderInv, Locking
  <2>3. \A c \in Bufs : holder'[c] # Nobody
          => pc'[holder'[c]] \in Locking /\ buf'[holder'[c]] = c
    BY <1>0, <1>1, <1>2, <1>4, <2>1, HolderFacts DEF HolderInv, Locking
  <2> QED BY <2>2, <2>3 DEF HolderInv
<1>10. RequestInv'
  <2>1. RequestInv
    BY DEF BufferInv
  <2>2. \A i \in 1..Len(idequeue) : holder'[idequeue[i]] = holder[idequeue[i]]
    BY <1>0, <1>4, <2>1, HolderFacts DEF RequestInv
  <2> QED BY <1>0, <1>1, <1>2, <2>1, <2>2 DEF RequestInv
<1>11. NoMissedWakeup'
  <2>1. NoMissedWakeup
    BY DEF BufferInv
  <2> QED BY <1>0, <1>1, <1>2, <1>4, <2>1, HolderFacts DEF NoMissedWakeup
<1>12. CommandInv' /\ ListInv'
  BY <1>1 DEF BufferInv, CommandInv, ListInv
<1>13. PinnedInv'
  BY <1>1, QueueKept DEF BufferInv
<1> QED
  BY <1>7, <1>8, <1>9, <1>10, <1>11, <1>12, <1>13 DEF BufferInv

\* The list still has every buffer after one was moved to its front.
LEMMA MovedKeeps ==
  ASSUME TypeOK, ListInv, NEW b \in Bufs
  PROVE  /\ moved(b) \in [Bufs -> Bufs]
         /\ \A c \in Bufs : \E i \in Bufs : moved(b)[i] = c
<1> DEFINE k == CHOOSE i \in Bufs : lru[i] = b
<1>1. k \in Bufs /\ lru[k] = b
  BY DEF ListInv
<1>2. moved(b) = [i \in Bufs |-> IF i = 1 THEN b ELSE IF i <= k THEN lru[i - 1] ELSE lru[i]]
  BY DEF moved
<1> HIDE DEF k
<1>3. lru \in [Bufs -> Bufs] /\ 1 \in Bufs /\ Bufs \subseteq Int
  <2>1. 1 \in Bufs /\ \A i \in Bufs : i \in Int
    BY CacheAssumption DEF Bufs
  <2> QED BY <2>1 DEF TypeOK
<1>4. \A i \in Bufs : i # 1 => i - 1 \in Bufs
  BY CacheAssumption DEF Bufs
<1>5. moved(b) \in [Bufs -> Bufs]
  BY <1>2, <1>3, <1>4
<1>6. ASSUME NEW c \in Bufs PROVE \E i \in Bufs : moved(b)[i] = c
  <2>1. PICK i \in Bufs : lru[i] = c
    BY DEF ListInv
  <2>2. CASE c = b
    <3>1. moved(b)[1] = c
      BY <1>2, <1>3, <2>2
    <3> QED BY <3>1, <1>3
  <2>3. CASE c # b /\ i < k
    <3>1. i + 1 \in Bufs /\ i + 1 # 1 /\ i + 1 <= k /\ (i + 1) - 1 = i
      BY <1>1, <2>3, CacheAssumption DEF Bufs
    <3>2. moved(b)[i + 1] = c
      BY <1>2, <2>1, <3>1
    <3> QED BY <3>1, <3>2
  <2>4. CASE c # b /\ k < i
    <3>1. i # 1 /\ ~(i <= k)
      BY <1>1, <2>4, CacheAssumption DEF Bufs
    <3>2. moved(b)[i] = c
      BY <1>2, <2>1, <3>1
    <3> QED BY <3>2
  <2>5. c # b => i < k \/ k < i
    BY <1>1, <1>3, <2>1
  <2> QED BY <2>2, <2>3, <2>4, <2>5
<1> QED BY <1>5, <1>6

\* brelse() keeps the invariant: the reference it drops was its own.
LEMMA BrelseKeeps ==
  ASSUME BufferInv, NEW u \in Users, brelse(u)
  PROVE  BufferInv'
<1>0. TypeOK /\ pc[u] = "brelse" /\ buf[u] \in Bufs /\ CountsUsers
  BY HolderFacts DEF BufferInv, CacheInv, brelse, At
<1>1. UNCHANGED <<blockno, valid, dirty, data, holder, idequeue, cmd, irq,
                  platter, panicked>>
  BY DEF brelse, disk
<1>2. pc' \in [Users -> PCs] /\ \A q \in Users : pc'[q] = IF q = u THEN "idle" ELSE pc[q]
  BY <1>0 DEF brelse, Goto, TypeOK, PCs
<1>3. buf' \in [Users -> Bufs] /\ \A q \in Users : q # u => buf'[q] = buf[q]
  <2>1. 1 \in Bufs
    BY CacheAssumption DEF Bufs
  <2> QED BY <1>0, <2>1 DEF brelse, TypeOK
<1>4. ListInv' /\ lru' \in [Bufs -> Bufs]
  <2>1. lru' = moved(buf[u]) \/ lru' = lru
    BY DEF brelse
  <2>2. ListInv /\ lru \in [Bufs -> Bufs]
    BY <1>0 DEF BufferInv, TypeOK
  <2>3. CASE lru' = lru
    BY <2>2, <2>3 DEF ListInv
  <2>4. CASE lru' = moved(buf[u])
    <3>1. moved(buf[u]) \in [Bufs -> Bufs] /\ \A c \in Bufs : \E i \in Bufs : moved(buf[u])[i] = c
      BY <1>0, <2>2, MovedKeeps
    <3> QED BY <2>4, <3>1 DEF ListInv
  <2> QED BY <2>1, <2>3, <2>4
<1>5. refcnt' \in [Bufs -> Nat] /\ CountsUsers'
  <2>1. \A c \in Bufs : refcnt'[c] = IF c = buf[u] THEN refcnt[c] - 1 ELSE refcnt[c]
    BY <1>0 DEF brelse, dropped, TypeOK
  <2>2. refcnt[buf[u]] # 0
    BY <1>0, Unreferenced
  <2>3. refcnt' \in [Bufs -> Nat]
    <3>1. refcnt[buf[u]] - 1 \in Nat
      BY <1>0, <2>2 DEF TypeOK
    <3> QED BY <1>0, <3>1 DEF brelse, dropped, TypeOK
  <2>4. ASSUME NEW c \in Bufs PROVE refcnt'[c] = Cardinality(Having(c)')
    <3>1. refcnt[c] = Cardinality(Having(c))
      BY <1>0 DEF CountsUsers
    <3>2. CASE c = buf[u]
      <4>1. Having(c)' = Having(c) \ {u} /\ u \in Having(c)
        BY <1>0, <1>2, <1>3, <3>2 DEF Having
      <4>2. Cardinality(Having(c) \ {u}) = Cardinality(Having(c)) - 1
        BY <4>1, UsersFinite, FS_RemoveElement
      <4> QED BY <2>1, <3>1, <3>2, <4>1, <4>2
    <3>3. CASE c # buf[u]
      <4>1. Having(c)' = Having(c)
        BY <1>0, <1>2, <1>3, <3>3 DEF Having
      <4> QED BY <2>1, <3>1, <3>3, <4>1
    <3> QED BY <3>2, <3>3
  <2> QED BY <2>3, <2>4 DEF CountsUsers
<1>6. TypeOK'
  BY <1>0, <1>1, <1>2, <1>3, <1>4, <1>5 DEF TypeOK
<1>7. CacheInv'
  <2>1. panicked' = "no"
    BY DEF brelse, At
  <2>2. NoPanic'
    BY <2>1 DEF NoPanic
  <2> QED BY <1>1, <1>5, <1>6, <2>2 DEF BufferInv, CacheInv, OneBuffer
<1>8. BlockInv' /\ FlagsInv' /\ NoMissedWakeup'
  BY <1>0, <1>1, <1>2, <1>3 DEF BufferInv, BlockInv, FlagsInv, NoMissedWakeup, Queued
<1>9. HolderInv'
  <2>1. HolderInv
    BY DEF BufferInv
  <2>2. \A q \in Users : pc'[q] \in Locking => holder'[buf'[q]] = q
    BY <1>0, <1>1, <1>2, <1>3, <2>1 DEF HolderInv, Locking
  <2>3. \A c \in Bufs : holder'[c] # Nobody
          => pc'[holder'[c]] \in Locking /\ buf'[holder'[c]] = c
    BY <1>0, <1>1, <1>2, <1>3, <2>1, HolderFacts DEF HolderInv, Locking
  <2> QED BY <2>2, <2>3 DEF HolderInv
<1>10. RequestInv'
  <2>1. RequestInv
    BY DEF BufferInv
  <2> QED BY <1>0, <1>1, <1>2, <2>1 DEF RequestInv
<1>11. CommandInv'
  BY <1>1 DEF BufferInv, CommandInv
<1>12. PinnedInv'
  BY <1>1, QueueKept DEF BufferInv
<1> QED
  BY <1>4, <1>7, <1>8, <1>9, <1>10, <1>11, <1>12 DEF BufferInv
-----------------------------------------------------------------------------
(* The drive and the driver. *)

\* There is one command, of the first request.
LEMMA CommandFacts ==
  ASSUME BufferInv, cmd # <<>>
  PROVE  /\ idequeue # <<>> /\ idequeue[1] \in Bufs
         /\ cmd[1] \in [block : Blocks, write : BOOLEAN, data : Vals]
         /\ cmd[1].block = blockno[idequeue[1]]
         /\ cmd[1].write <=> dirty[idequeue[1]]
         /\ cmd[1].write => cmd[1].data = data[idequeue[1]]
<1>1. TypeOK /\ CommandInv
  BY DEF BufferInv, CacheInv
<1>2. cmd[1] \in [block : Blocks, write : BOOLEAN, data : Vals]
  <2> DEFINE R == [block : Blocks, write : BOOLEAN, data : Vals]
  <2>1. cmd \in Seq(R)
    BY <1>1 DEF TypeOK
  <2> HIDE DEF R
  <2>2. cmd[1] \in R
    BY <2>1
  <2> QED BY <2>2 DEF R
<1>3. idequeue # <<>> /\ idequeue[1] \in Bufs
  BY <1>1, HolderFacts DEF CommandInv
<1> QED BY <1>1, <1>2, <1>3 DEF CommandInv

\* The drive's step keeps the invariant.
LEMMA DriveKeeps ==
  ASSUME BufferInv, drive
  PROVE  BufferInv'
<1>0. TypeOK /\ cmd # <<>> /\ CommandInv
  BY DEF BufferInv, CacheInv, drive
<1>1. UNCHANGED <<blockno, valid, dirty, refcnt, data, holder, lru, idequeue, cmd,
                  pc, buf, panicked>>
  BY DEF drive, bufs
<1>2. platter' \in [Blocks -> Vals] /\ (cmd[1].write => platter'[cmd[1].block] = cmd[1].data)
  <2>1. cmd[1].block \in Blocks /\ cmd[1].data \in Vals /\ cmd[1].write \in BOOLEAN
    BY <1>0, CommandFacts
  <2> QED BY <1>0, <2>1 DEF drive, TypeOK
<1>3. irq' = TRUE
  BY DEF drive
<1>4. TypeOK'
  BY <1>0, <1>1, <1>2, <1>3 DEF TypeOK
<1>5. CountsUsers'
  BY <1>1, UsersKept DEF BufferInv, CacheInv
<1>6. CacheInv'
  <2>1. Kept' = Kept /\ Busy' = Busy
    BY <1>1 DEF Kept, Busy, Having
  <2>2. NoPanic'
    BY <1>1, <2>1 DEF BufferInv, CacheInv, NoPanic
  <2> QED BY <1>1, <1>4, <1>5, <2>2 DEF BufferInv, CacheInv, OneBuffer
<1>7. BlockInv' /\ FlagsInv' /\ NoMissedWakeup' /\ HolderInv' /\ RequestInv' /\ ListInv'
  BY <1>1 DEF BufferInv, BlockInv, FlagsInv, NoMissedWakeup, Queued, HolderInv,
              RequestInv, ListInv
<1>8. CommandInv'
  BY <1>0, <1>1, <1>2, <1>3 DEF CommandInv
<1>9. PinnedInv'
  BY <1>1, QueueKept DEF BufferInv
<1> QED
  BY <1>6, <1>7, <1>8, <1>9 DEF BufferInv

\* idestart() gives the drive one command.
LEMMA StartFacts ==
  ASSUME TypeOK, NEW b \in Bufs, blockno[b] \in Blocks, NEW d \in BOOLEAN
  PROVE  /\ idestart(b, d) \in Seq([block : Blocks, write : BOOLEAN, data : Vals])
         /\ Len(idestart(b, d)) = 1 /\ idestart(b, d) # <<>>
         /\ idestart(b, d)[1].block = blockno[b]
         /\ idestart(b, d)[1].write = d
         /\ idestart(b, d)[1].data = data[b]
<1> DEFINE R == [block : Blocks, write : BOOLEAN, data : Vals]
           r == [block |-> blockno[b], write |-> d, data |-> data[b]]
<1>1. r \in R
  BY DEF TypeOK
<1>2. r.block = blockno[b] /\ r.write = d /\ r.data = data[b]
  OBVIOUS
<1>3. idestart(b, d) = <<r>>
  BY DEF idestart
<1> HIDE DEF r, R
<1>4. <<r>> \in Seq(R) /\ Len(<<r>>) = 1 /\ <<r>> # <<>> /\ <<r>>[1] = r
  BY <1>1
<1> QED BY <1>2, <1>3, <1>4 DEF R

\* iderw() keeps the invariant, called with the lock and something to do: the
\* buffer was not queued, is now the last, and is started if it is the first.
LEMMA IderwKeeps ==
  ASSUME BufferInv, NEW u \in Users, NEW d \in BOOLEAN, panicked = "no",
         pc[u] \in {"bread", "hold", "changed"},
         IF d THEN valid[buf[u]] ELSE ~valid[buf[u]],
         iderw(u, d),
         UNCHANGED <<blockno, valid, refcnt, data, holder, lru, irq, platter, buf>>
  PROVE  BufferInv'
<1> DEFINE b == buf[u]
<1>0. TypeOK /\ b \in Bufs /\ holder[b] = u /\ blockno[b] \in Blocks
  BY HolderFacts DEF BufferInv, CacheInv, HolderInv, BlockInv, Locking
<1>1. /\ panicked' = IF ~holdingsleep(u, b) \/ (valid[b] /\ ~d) THEN "iderw" ELSE panicked
      /\ dirty' = [dirty EXCEPT ![b] = d]
      /\ idequeue' = Append(idequeue, b)
      /\ cmd' = started(b, d)
      /\ pc' = [pc EXCEPT ![u] = "io_asleep"]
  BY DEF iderw, Goto
<1>2. b = buf[u]
  OBVIOUS
<1> HIDE DEF b
<1>3. panicked' = "no"
  <2>1. holdingsleep(u, b)
    BY <1>0, CacheAssumption DEF holdingsleep
  <2> QED BY <1>0, <1>1, <1>2, <2>1
<1>4. pc' \in [Users -> PCs] /\ \A q \in Users : pc'[q] = IF q = u THEN "io_asleep" ELSE pc[q]
  BY <1>0, <1>1 DEF TypeOK, PCs
<1>5. /\ dirty' \in [Bufs -> BOOLEAN] /\ dirty'[b] = d
      /\ \A c \in Bufs : c # b => dirty'[c] = dirty[c]
  BY <1>0, <1>1 DEF TypeOK
<1>6. \A i \in 1..Len(idequeue) : idequeue[i] # b
  <2>1. RequestInv /\ HolderInv
    BY DEF BufferInv
  <2> QED BY <1>0, <1>2, <2>1, HolderFacts DEF RequestInv, HolderInv
<1>7. /\ idequeue' \in Seq(Bufs) /\ Len(idequeue') = Len(idequeue) + 1
      /\ \A i \in 1..Len(idequeue) : idequeue'[i] = idequeue[i]
      /\ idequeue'[Len(idequeue) + 1] = b /\ idequeue' # <<>> /\ Len(idequeue) \in Nat
  <2>1. idequeue \in Seq(Bufs) /\ idequeue' = Append(idequeue, b)
    BY <1>0, <1>1 DEF TypeOK
  <2> QED BY <1>0, <2>1
<1>8. \A i \in 1..Len(idequeue') : i \in 1..Len(idequeue) \/ i = Len(idequeue) + 1
  BY <1>7
<1>9. /\ \A c \in Bufs : Queued(c)' => Queued(c) \/ c = b
      /\ \A c \in Bufs : Queued(c) => Queued(c)'
  BY <1>7, <1>8 DEF Queued
<1>10. /\ cmd' \in Seq([block : Blocks, write : BOOLEAN, data : Vals]) /\ Len(cmd') <= 1
       /\ idequeue = <<>> => cmd' = idestart(b, d)
       /\ idequeue # <<>> => cmd' = cmd
  <2> DEFINE R == [block : Blocks, write : BOOLEAN, data : Vals]
  <2>1. cmd \in Seq(R) /\ Len(cmd) <= 1
    BY <1>0 DEF TypeOK
  <2>2. idestart(b, d) \in Seq(R) /\ Len(idestart(b, d)) <= 1
    <3>1. idestart(b, d) \in Seq(R) /\ Len(idestart(b, d)) = 1
      BY <1>0, StartFacts
    <3> HIDE DEF R
    <3> QED BY <3>1
  <2>3. cmd' = IF idequeue = <<>> THEN idestart(b, d) ELSE cmd
    BY <1>1 DEF started
  <2> HIDE DEF R
  <2>4. /\ cmd' \in Seq(R) /\ Len(cmd') <= 1
        /\ idequeue = <<>> => cmd' = idestart(b, d)
        /\ idequeue # <<>> => cmd' = cmd
    BY <2>1, <2>2, <2>3
  <2> QED BY <2>4 DEF R
<1>11. TypeOK'
  BY <1>0, <1>3, <1>4, <1>5, <1>7, <1>10 DEF TypeOK
<1>12. CountsUsers'
  BY <1>4, UsersKept DEF BufferInv, CacheInv
<1>13. CacheInv'
  <2>1. panicked' = "no"
    BY <1>3
  <2>2. NoPanic'
    BY <2>1 DEF NoPanic
  <2> QED BY <1>3, <1>11, <1>12, <2>2 DEF BufferInv, CacheInv, OneBuffer
<1>14. BlockInv'
  BY <1>4 DEF BufferInv, BlockInv
<1>15. HolderInv'
  <2>1. HolderInv
    BY DEF BufferInv
  <2> QED BY <1>0, <1>2, <1>4, <2>1, HolderFacts DEF HolderInv, Locking
<1>16. FlagsInv'
  <2>1. FlagsInv /\ HolderInv
    BY DEF BufferInv
  <2>2. /\ \A c \in Bufs : dirty'[c] => valid'[c]
        /\ \A c \in Bufs : Queued(c)' => ~valid'[c] \/ dirty'[c]
    <3> SUFFICES ASSUME NEW c \in Bufs
                 PROVE  (dirty'[c] => valid[c]) /\ (Queued(c)' => ~valid[c] \/ dirty'[c])
      OBVIOUS
    <3>1. CASE c = b
      BY <1>2, <1>5, <3>1
    <3>2. CASE c # b
      BY <1>5, <1>9, <2>1, <3>2 DEF FlagsInv
    <3> QED BY <3>1, <3>2
  <2>3. \A q \in Users : pc'[q] \in {"hold", "changed"} => valid'[buf'[q]]
    BY <1>4, <2>1 DEF FlagsInv
  <2>4. \A q \in Users : pc'[q] = "io" => valid'[buf'[q]] /\ ~dirty'[buf'[q]]
    <3> SUFFICES ASSUME NEW q \in Users, pc'[q] = "io"
                 PROVE  valid[buf[q]] /\ ~dirty'[buf[q]]
      OBVIOUS
    <3>1. pc[q] = "io" /\ q # u
      BY <1>4
    <3>2. buf[q] # b /\ buf[q] \in Bufs
      BY <1>0, <2>1, <3>1, HolderFacts DEF HolderInv, Locking
    <3> QED BY <1>5, <2>1, <3>1, <3>2 DEF FlagsInv
  <2> QED BY <2>2, <2>3, <2>4 DEF FlagsInv
<1>17. RequestInv'
  <2>1. RequestInv
    BY DEF BufferInv
  <2>2. \A i, j \in 1..Len(idequeue') : idequeue'[i] = idequeue'[j] => i = j
    BY <1>6, <1>7, <1>8, <2>1 DEF RequestInv
  <2>3. ASSUME NEW i \in 1..Len(idequeue')
        PROVE  holder'[idequeue'[i]] \in Users /\ pc'[holder'[idequeue'[i]]] = "io_asleep"
    <3>1. CASE i = Len(idequeue) + 1
      BY <1>0, <1>4, <1>7, <3>1
    <3>2. CASE i \in 1..Len(idequeue)
      BY <1>4, <1>7, <2>1, <3>2 DEF RequestInv
    <3> QED BY <1>8, <3>1, <3>2
  <2> QED BY <2>2, <2>3 DEF RequestInv
<1>18. NoMissedWakeup'
  <2>1. NoMissedWakeup
    BY DEF BufferInv
  <2>2. ASSUME NEW q \in Users, pc'[q] = "io_asleep"
        PROVE  \E i \in 1..Len(idequeue') : idequeue'[i] = buf'[q]
    <3>1. CASE q = u
      <4>1. Len(idequeue) + 1 \in 1..Len(idequeue')
        BY <1>7
      <4> QED BY <1>2, <1>7, <3>1, <4>1
    <3>2. CASE q # u
      <4>1. PICK i \in 1..Len(idequeue) : idequeue[i] = buf[q]
        BY <1>4, <2>1, <2>2, <3>2 DEF NoMissedWakeup
      <4>2. i \in 1..Len(idequeue') /\ idequeue'[i] = idequeue[i]
        BY <1>7
      <4> QED BY <4>1, <4>2
    <3> QED BY <3>1, <3>2
  <2>3. \A q \in Users : pc'[q] = "lk_asleep" => holder'[buf'[q]] # Nobody
    BY <1>4, <2>1 DEF NoMissedWakeup
  <2> QED BY <2>2, <2>3 DEF NoMissedWakeup
<1>19. CommandInv'
  <2>0. CommandInv
    BY DEF BufferInv
  <2>1. CASE idequeue = <<>>
    <3>1. cmd' = idestart(b, d) /\ ~irq /\ idequeue'[1] = b
      BY <1>7, <1>10, <2>0, <2>1 DEF CommandInv
    <3> QED BY <1>0, <1>5, <1>7, <3>1, StartFacts DEF CommandInv
  <2>2. CASE idequeue # <<>>
    <3>1. cmd' = cmd /\ cmd # <<>> /\ 1 \in 1..Len(idequeue)
      BY <1>10, <2>0, <2>2, HolderFacts DEF CommandInv
    <3>2. idequeue'[1] = idequeue[1] /\ idequeue[1] # b /\ idequeue[1] \in Bufs
      BY <1>6, <1>7, <3>1, HolderFacts
    <3>3. dirty'[idequeue'[1]] = dirty[idequeue[1]]
      BY <1>5, <3>2
    <3> QED BY <1>7, <2>0, <2>2, <3>1, <3>2, <3>3 DEF CommandInv
  <2> QED BY <2>1, <2>2
<1>20. PinnedInv'
  <2>1. \E i \in 1..Len(idequeue') : idequeue'[i] = b
    <3>1. Len(idequeue) + 1 \in 1..Len(idequeue')
      BY <1>7
    <3> QED BY <1>7, <3>1
  <2>2. Pinned' \subseteq Pinned
    <3> SUFFICES ASSUME NEW c \in Pinned' PROVE c \in Pinned
      OBVIOUS
    <3>1. c \in Bufs /\ dirty'[c] /\ ~Queued(c)'
      BY DEF Pinned
    <3>2. c # b
      BY <2>1, <3>1 DEF Queued
    <3> QED BY <1>5, <1>9, <3>1, <3>2 DEF Pinned
  <2> QED BY <2>2, PinnedLess DEF BufferInv
<1>21. ListInv'
  BY DEF BufferInv, ListInv
<1> QED
  BY <1>13, <1>14, <1>15, <1>16, <1>17, <1>18, <1>19, <1>20, <1>21 DEF BufferInv

\* bread() keeps the invariant.
LEMMA BreadKeeps ==
  ASSUME BufferInv, NEW u \in Users, bread(u)
  PROVE  BufferInv'
<1>0. pc[u] = "bread" /\ panicked = "no" /\ buf[u] \in Bufs /\ TypeOK
  BY HolderFacts DEF bread, At, BufferInv, CacheInv
<1>1. CASE valid[buf[u]]
  <2>1. pc' = [pc EXCEPT ![u] = "hold"] /\ UNCHANGED <<dirty, idequeue, cmd, panicked>>
    BY <1>1 DEF bread, Goto
  <2>2. UNCHANGED <<blockno, valid, refcnt, data, holder, lru, irq, platter, buf>>
    BY DEF bread
  <2> QED BY <1>0, <1>1, <2>1, <2>2, HolderMoves
<1>2. CASE ~valid[buf[u]]
  <2>1. iderw(u, dirty[buf[u]])
    BY <1>2 DEF bread
  <2>2. dirty[buf[u]] = FALSE
    BY <1>0, <1>2 DEF BufferInv, FlagsInv, TypeOK
  <2>3. UNCHANGED <<blockno, valid, refcnt, data, holder, lru, irq, platter, buf>>
    BY DEF bread
  <2> QED BY <1>0, <1>2, <2>1, <2>2, <2>3, IderwKeeps
<1> QED BY <1>1, <1>2

\* bwrite() keeps the invariant.
LEMMA BwriteKeeps ==
  ASSUME BufferInv, NEW u \in Users, bwrite(u)
  PROVE  BufferInv'
<1>1. pc[u] \in {"hold", "changed"} /\ panicked = "no" /\ iderw(u, TRUE)
  BY DEF bwrite, At
<1>2. valid[buf[u]]
  BY <1>1 DEF BufferInv, FlagsInv
<1>3. UNCHANGED <<blockno, valid, refcnt, data, holder, lru, irq, platter, buf>>
  BY DEF bwrite
<1> QED BY <1>1, <1>2, <1>3, IderwKeeps

\* ideintr() keeps the invariant: its sleeper is woken, and the next request is
\* started as it is.
LEMMA IdeintrKeeps ==
  ASSUME BufferInv, ideintr
  PROVE  BufferInv'
<1> DEFINE b == idequeue[1]
           T == Tail(idequeue)
<1>0. TypeOK /\ irq /\ CommandInv /\ RequestInv /\ HolderInv
  BY DEF BufferInv, CacheInv, ideintr
<1>1. cmd # <<>> /\ idequeue # <<>> /\ 1 \in 1..Len(idequeue)
  BY <1>0, HolderFacts DEF CommandInv
<1>2. b \in Bufs /\ holder[b] \in Users /\ buf[holder[b]] = b
  BY <1>1, HolderFacts
<1>3. UNCHANGED <<blockno, refcnt, holder, lru, platter, buf, panicked>> /\ irq' = FALSE
  BY DEF ideintr
<1>4. /\ valid' \in [Bufs -> BOOLEAN] /\ valid'[b] = TRUE
      /\ \A c \in Bufs : c # b => valid'[c] = valid[c]
  BY <1>0, <1>2 DEF ideintr, TypeOK
<1>5. /\ dirty' \in [Bufs -> BOOLEAN] /\ dirty'[b] = FALSE
      /\ \A c \in Bufs : c # b => dirty'[c] = dirty[c]
  BY <1>0, <1>2 DEF ideintr, TypeOK
<1>6. data' \in [Bufs -> Vals] /\ \A c \in Bufs : c # b => data'[c] = data[c]
  <2>1. platter[cmd[1].block] \in Vals
    BY <1>0, <1>1, CommandFacts DEF TypeOK
  <2>2. data' = [data EXCEPT ![b] = platter[cmd[1].block]] \/ data' = data
    BY DEF ideintr
  <2> QED BY <1>0, <1>2, <2>1, <2>2 DEF TypeOK
<1>7. \A q \in Users :
        pc'[q] = IF pc[q] = "io_asleep" /\ buf[q] = b THEN "io" ELSE pc[q]
  BY CacheAssumption DEF ideintr, ideintr_wake, Wake
<1>8. pc' \in [Users -> PCs]
  BY <1>0 DEF ideintr, ideintr_wake, Wake, TypeOK, PCs
<1>9. /\ T \in Seq(Bufs) /\ Len(T) = Len(idequeue) - 1 /\ Len(idequeue) \in Nat
      /\ \A i \in 1..Len(T) : T[i] = idequeue[i + 1]
      /\ T # <<>> <=> Len(T) # 0
  <2>1. idequeue \in Seq(Bufs) /\ Len(idequeue) \in Nat /\ Len(idequeue) # 0
    BY <1>0, <1>1 DEF TypeOK
  <2>2. T \in Seq(Bufs) /\ Len(T) = Len(idequeue) - 1
    BY <1>1, <2>1
  <2>3. \A i \in 1..Len(T) : T[i] = idequeue[i + 1]
    BY <1>1, <2>1
  <2> HIDE DEF T
  <2>4. T # <<>> <=> Len(T) # 0
    <3>1. T \in Seq(Bufs)
      BY <2>2
    <3>2. ASSUME Len(T) = 0 PROVE T = <<>>
      BY <3>1, <3>2
    <3>3. ASSUME T = <<>> PROVE Len(T) = 0
      BY <3>3
    <3> QED BY <3>2, <3>3
  <2> QED BY <2>1, <2>2, <2>3, <2>4
<1>10. idequeue' = T /\ cmd' = IF T = <<>> THEN <<>> ELSE idestart(T[1], dirty[T[1]])
  BY DEF ideintr, next_command
<1>11. b = idequeue[1]
  OBVIOUS
<1> HIDE DEF b, T
<1>12. \A i \in 1..Len(T) : /\ i + 1 \in 1..Len(idequeue)
                            /\ T[i] \in Bufs /\ T[i] # b
                            /\ holder[T[i]] \in Users /\ pc[holder[T[i]]] = "io_asleep"
                            /\ buf[holder[T[i]]] = T[i]
  <2> SUFFICES ASSUME NEW i \in 1..Len(T)
               PROVE  /\ i + 1 \in 1..Len(idequeue)
                      /\ T[i] \in Bufs /\ T[i] # b
                      /\ holder[T[i]] \in Users /\ pc[holder[T[i]]] = "io_asleep"
                      /\ buf[holder[T[i]]] = T[i]
    OBVIOUS
  <2>1. i + 1 \in 1..Len(idequeue) /\ i + 1 # 1 /\ T[i] = idequeue[i + 1]
    BY <1>9
  <2> QED BY <1>0, <1>1, <1>11, <2>1, HolderFacts DEF RequestInv
<1>13. \A c \in Bufs : Queued(c)' => Queued(c) /\ c # b
  BY <1>9, <1>10, <1>12 DEF Queued
<1>14. \A c \in Bufs : Queued(c) /\ c # b => Queued(c)'
  <2> SUFFICES ASSUME NEW i \in 1..Len(idequeue), idequeue[i] # b
               PROVE  \E j \in 1..Len(T) : T[j] = idequeue[i]
    BY <1>10 DEF Queued
  <2>1. i # 1
    BY <1>11
  <2>2. i - 1 \in 1..Len(T) /\ (i - 1) + 1 = i
    BY <1>9, <2>1
  <2>3. T[i - 1] = idequeue[i]
    BY <1>9, <2>2
  <2> QED BY <2>2, <2>3
<1>15. T # <<>> => 1 \in 1..Len(T) /\ T[1] \in Bufs /\ blockno[T[1]] \in Blocks
                   /\ dirty[T[1]] \in BOOLEAN
  <2> SUFFICES ASSUME T # <<>> PROVE 1 \in 1..Len(T) /\ T[1] \in Bufs /\ blockno[T[1]] \in Blocks
                                     /\ dirty[T[1]] \in BOOLEAN
    OBVIOUS
  <2>1. 1 \in 1..Len(T)
    BY <1>9
  <2>2. T[1] \in Bufs /\ pc[holder[T[1]]] = "io_asleep" /\ buf[holder[T[1]]] = T[1]
        /\ holder[T[1]] \in Users
    BY <1>12, <2>1
  <2> QED BY <1>0, <2>1, <2>2 DEF BufferInv, BlockInv, TypeOK
<1>16. cmd' \in Seq([block : Blocks, write : BOOLEAN, data : Vals]) /\ Len(cmd') <= 1
  <2>1. CASE T = <<>>
    BY <1>10, <2>1
  <2>2. CASE T # <<>>
    <3> DEFINE R == [block : Blocks, write : BOOLEAN, data : Vals]
    <3>1. cmd' = idestart(T[1], dirty[T[1]])
      BY <1>10, <2>2
    <3>2. idestart(T[1], dirty[T[1]]) \in Seq(R) /\ Len(idestart(T[1], dirty[T[1]])) = 1
      BY <1>0, <1>15, <2>2, StartFacts
    <3> HIDE DEF R
    <3>3. cmd' \in Seq(R) /\ Len(cmd') <= 1
      BY <3>1, <3>2
    <3> QED BY <3>3 DEF R
  <2> QED BY <2>1, <2>2
<1>17. TypeOK'
  BY <1>0, <1>3, <1>4, <1>5, <1>6, <1>8, <1>9, <1>10, <1>16 DEF TypeOK
<1>18. CountsUsers'
  BY <1>3, <1>7, UsersKept DEF BufferInv, CacheInv
<1>19. CacheInv'
  <2>1. panicked' = "no"
    BY DEF ideintr
  <2>2. NoPanic'
    BY <2>1 DEF NoPanic
  <2> QED BY <1>3, <1>17, <1>18, <2>2 DEF BufferInv, CacheInv, OneBuffer
<1>20. BlockInv'
  <2>1. BlockInv
    BY DEF BufferInv
  <2>2. blockno[b] \in Blocks
    BY <1>1, <1>11, CommandFacts
  <2>3. \A c \in Bufs : valid'[c] => blockno'[c] \in Blocks
    BY <1>3, <1>4, <2>1, <2>2 DEF BlockInv
  <2> QED BY <1>3, <1>7, <2>1, <2>3 DEF BlockInv
<1>21. HolderInv'
  BY <1>0, <1>3, <1>7, HolderFacts DEF HolderInv, Locking
<1>22. FlagsInv'
  <2>1. FlagsInv
    BY DEF BufferInv
  <2>2. ASSUME NEW c \in Bufs
        PROVE  (dirty'[c] => valid'[c]) /\ (Queued(c)' => ~valid'[c] \/ dirty'[c])
    <3>1. CASE c = b
      BY <1>4, <1>5, <1>13, <3>1
    <3>2. CASE c # b
      BY <1>4, <1>5, <1>13, <2>1, <3>2 DEF FlagsInv
    <3> QED BY <3>1, <3>2
  <2>3. ASSUME NEW q \in Users
        PROVE  /\ pc'[q] \in {"hold", "changed"} => valid'[buf'[q]]
               /\ pc'[q] = "io" => valid'[buf'[q]] /\ ~dirty'[buf'[q]]
    <3>1. CASE buf[q] = b
      BY <1>3, <1>4, <1>5, <3>1
    <3>2. CASE buf[q] # b
      BY <1>3, <1>4, <1>5, <1>7, <2>1, <3>2, HolderFacts DEF FlagsInv
    <3> QED BY <3>1, <3>2
  <2> QED BY <2>2, <2>3 DEF FlagsInv
<1>23. RequestInv'
  <2>1. \A i, j \in 1..Len(T) : T[i] = T[j] => i = j
    <3> SUFFICES ASSUME NEW i \in 1..Len(T), NEW j \in 1..Len(T), T[i] = T[j] PROVE i = j
      OBVIOUS
    <3>1. i + 1 = j + 1
      BY <1>0, <1>9, <1>12 DEF RequestInv
    <3> QED BY <3>1
  <2>2. \A i \in 1..Len(T) : holder'[T[i]] \in Users /\ pc'[holder'[T[i]]] = "io_asleep"
    BY <1>3, <1>7, <1>12
  <2> QED BY <1>10, <2>1, <2>2 DEF RequestInv
<1>24. NoMissedWakeup'
  <2>1. NoMissedWakeup
    BY DEF BufferInv
  <2>2. \A q \in Users : pc'[q] = "io_asleep" => Queued(buf[q])'
    <3> SUFFICES ASSUME NEW q \in Users, pc'[q] = "io_asleep" PROVE Queued(buf[q])'
      OBVIOUS
    <3>1. pc[q] = "io_asleep" /\ buf[q] # b /\ buf[q] \in Bufs
      BY <1>7, HolderFacts
    <3>2. Queued(buf[q])
      BY <2>1, <3>1 DEF NoMissedWakeup, Queued
    <3> QED BY <1>3, <1>14, <3>1, <3>2
  <2>3. \A q \in Users : pc'[q] = "lk_asleep" => holder'[buf'[q]] # Nobody
    BY <1>3, <1>7, <2>1 DEF NoMissedWakeup
  <2> QED BY <1>3, <2>2, <2>3 DEF NoMissedWakeup, Queued
<1>25. CommandInv'
  <2>1. CASE T = <<>>
    BY <1>3, <1>10, <2>1 DEF CommandInv
  <2>2. CASE T # <<>>
    <3>1. T[1] # b /\ T[1] \in Bufs
      BY <1>12, <1>15, <2>2
    <3>2. dirty'[T[1]] = dirty[T[1]] /\ data'[T[1]] = data[T[1]]
      BY <1>5, <1>6, <3>1
    <3>3. /\ cmd' # <<>> /\ cmd'[1].block = blockno[T[1]]
          /\ cmd'[1].write = dirty[T[1]] /\ cmd'[1].data = data[T[1]]
      BY <1>0, <1>10, <1>15, <2>2, StartFacts
    <3> QED BY <1>3, <1>10, <2>2, <3>2, <3>3 DEF CommandInv
  <2> QED BY <2>1, <2>2
<1>26. PinnedInv'
  <2>1. Pinned' \subseteq Pinned
    BY <1>5, <1>14 DEF Pinned
  <2> QED BY <2>1, PinnedLess DEF BufferInv
<1>27. ListInv'
  BY <1>3 DEF BufferInv, ListInv
<1> QED
  BY <1>19, <1>20, <1>21, <1>22, <1>23, <1>24, <1>25, <1>26, <1>27 DEF BufferInv
-----------------------------------------------------------------------------
(* The invariant. *)

\* BufferInv is inductive.
LEMMA BufferNext ==
  ASSUME BufferInv, [Next]_vars PROVE BufferInv'
<1>1. CASE UNCHANGED vars
  <2>1. NoPanic'
    BY <1>1 DEF vars, BufferInv, CacheInv, NoPanic, Kept, Busy, Having
  <2> QED BY <1>1, <2>1, PanicKeeps DEF vars, BufferInv, CacheInv, TypeOK
<1>2. ASSUME NEW u \in Users, NEW n \in Blocks, bget(u, n) PROVE BufferInv'
  BY <1>2, BgetKeeps
<1>3. ASSUME NEW u \in Users, NEW v \in Vals, Change(u, v) PROVE BufferInv'
  BY <1>3, ChangeKeeps
<1>4. ASSUME NEW u \in Users, Work(u) PROVE BufferInv'
  BY <1>4, AcquiresleepKeeps, BreadKeeps, IoKeeps, BwriteKeeps, LogWriteKeeps,
     ReleasesleepKeeps, BrelseKeeps DEF Work
<1>5. CASE drive
  BY <1>5, DriveKeeps
<1>6. CASE ideintr
  BY <1>6, IdeintrKeeps
<1> QED BY <1>1, <1>2, <1>3, <1>4, <1>5, <1>6 DEF Next

\* Every reachable state satisfies it.
LEMMA BufferAlways == Spec => []BufferInv
<1>1. Init => BufferInv
  BY BufferInit
<1>2. BufferInv /\ [Next]_vars => BufferInv'
  BY BufferNext
<1> QED BY <1>1, <1>2, PTL DEF Spec

\* bget() and brelse() (bio.c) keep one buffer for a block and a reference for
\* every user that has or waits for it, whatever order the critical sections are
\* taken in; iderw() never panics, and bget() only with every buffer used up.
THEOREM CacheConsistent == Spec => []CacheInv
<1>1. BufferInv => CacheInv
  BY DEF BufferInv
<1> QED BY <1>1, BufferAlways, PTL

\* A buffer that is dirty and has no user is pinned: what the drive has is had.
LEMMA KeptIsPinned ==
  ASSUME BufferInv PROVE IsFiniteSet(Kept) /\ Cardinality(Kept) <= MaxPinned /\ Cardinality(Kept) \in Nat
<1>1. TypeOK
  BY DEF BufferInv, CacheInv
<1>2. ASSUME NEW b \in Kept PROVE b \in Pinned
  <2>1. b \in Bufs /\ dirty[b] /\ Having(b) = {}
    BY DEF Kept
  <2>2. ASSUME NEW k \in 1..Len(idequeue), idequeue[k] = b PROVE FALSE
    <3>1. holder[b] \in Users /\ pc[holder[b]] = "io_asleep"
      BY <2>2 DEF BufferInv, RequestInv
    <3>2. buf[holder[b]] = b
      BY <2>1, <3>1, CacheAssumption DEF BufferInv, HolderInv
    <3> QED BY <2>1, <3>1, <3>2 DEF Having
  <2> QED BY <2>1, <2>2 DEF Pinned, Queued
<1>3. IsFiniteSet(Pinned) /\ Cardinality(Pinned) <= MaxPinned
  BY BufsFinite, FS_Subset DEF Pinned, BufferInv, PinnedInv
<1>4. Kept \in SUBSET Pinned
  BY <1>2
<1>5. IsFiniteSet(Kept) /\ Cardinality(Kept) <= Cardinality(Pinned)
  BY <1>3, <1>4, FS_Subset
<1>6. Cardinality(Kept) \in Nat /\ Cardinality(Pinned) \in Nat
  BY <1>3, <1>5, FS_CardinalityType
<1> QED BY <1>3, <1>5, <1>6, CacheAssumption

\* With a buffer for every block log_write() can pin and one for every hand of
\* every process, bget() (bio.c) never runs out.  The kernel has NBUF = 30, which
\* 29 pinned blocks and one process with two buffers exceed.
THEOREM BuffersSuffice ==
  ASSUME NBUF >= MaxPinned + Cardinality(Users) PROVE Spec => [](panicked = "no")
<1>1. ASSUME BufferInv PROVE panicked = "no"
  <2>1. TypeOK /\ NoPanic
    BY <1>1 DEF BufferInv, CacheInv
  <2>2. Cardinality(Kept) <= MaxPinned /\ Cardinality(Kept) \in Nat
    BY <1>1, KeptIsPinned
  <2>3. ASSUME Busy # Users PROVE NBUF > Cardinality(Kept) + Cardinality(Busy)
    <3>1. PICK u \in Users : u \notin Busy
      BY <2>3 DEF Busy
    <3>2. IsFiniteSet(Users \ {u}) /\ Cardinality(Users \ {u}) = Cardinality(Users) - 1
      BY UsersFinite, FS_RemoveElement
    <3>3. Busy \in SUBSET (Users \ {u})
      BY <3>1 DEF Busy
    <3>4. IsFiniteSet(Busy) /\ Cardinality(Busy) <= Cardinality(Users) - 1
      BY <3>2, <3>3, FS_Subset
    <3>5. Cardinality(Busy) \in Nat /\ Cardinality(Users) \in Nat
      BY <3>4, UsersFinite, FS_CardinalityType
    <3> QED BY <2>2, <3>4, <3>5, CacheAssumption
  <2>4. Cardinality(Busy) \in Nat
    <3>1. IsFiniteSet(Busy)
      BY UsersFinite, FS_Subset DEF Busy
    <3> QED BY <3>1, FS_CardinalityType
  <2> QED BY <2>1, <2>2, <2>3, <2>4, CacheAssumption DEF TypeOK, NoPanic
<1> QED BY <1>1, BufferAlways, PTL

\* A step that leaves contents and flags alone, and whoever is changing a buffer
\* where he is, keeps CleanInv.
LEMMA CleanKept ==
  ASSUME CleanInv, UNCHANGED <<blockno, valid, dirty, data, platter>>,
         \A q \in Users : pc[q] = "changed" => pc'[q] = "changed" /\ buf'[q] = buf[q]
  PROVE  CleanInv'
<1>1. \A c \in Bufs : Changing(c) => Changing(c)'
  BY DEF Changing
<1> QED BY <1>1 DEF CleanInv

\* The same for a step that acts on buffer b alone, which it leaves dirty, not
\* valid or in the hands of a user that changes it.
LEMMA CleanOther ==
  ASSUME CleanInv, NEW b \in Bufs, platter' = platter,
         \A c \in Bufs : c # b => /\ blockno'[c] = blockno[c] /\ valid'[c] = valid[c]
                                  /\ dirty'[c] = dirty[c] /\ data'[c] = data[c],
         \A q \in Users : pc[q] = "changed" /\ buf[q] # b
                            => pc'[q] = "changed" /\ buf'[q] = buf[q],
         ~valid'[b] \/ dirty'[b] \/ \E q \in Users : pc'[q] = "changed" /\ buf'[q] = b
  PROVE  CleanInv'
<1> SUFFICES ASSUME NEW c \in Bufs, valid'[c], ~dirty'[c], ~Changing(c)'
             PROVE  data'[c] = platter'[blockno'[c]]
  BY DEF CleanInv
<1>1. c # b
  BY DEF Changing
<1>2. ~Changing(c)
  BY <1>1 DEF Changing
<1> QED BY <1>1, <1>2 DEF CleanInv

\* CleanInv is kept if reads do not fail.
LEMMA CleanNext ==
  ASSUME BufferInv, CleanInv, ReadErrors = FALSE, [Next]_vars PROVE CleanInv'
<1>0. TypeOK /\ HolderInv
  BY DEF BufferInv, CacheInv
<1>1. CASE UNCHANGED vars
  BY <1>1, CleanKept DEF vars
<1>2. ASSUME NEW u \in Users, NEW n \in Blocks, bget(u, n) PROVE CleanInv'
  <2>0. pc[u] = "idle"
    BY <1>2 DEF bget
  <2>1. ASSUME NEW b \in Bufs, bget_hit(u, b) PROVE CleanInv'
    <3>1. \A q \in Users : q # u => pc'[q] = pc[q] /\ buf'[q] = buf[q]
      BY <1>0, <2>1 DEF bget_hit, Goto, TypeOK
    <3>2. UNCHANGED <<blockno, valid, dirty, data, platter>>
      BY <2>1 DEF bget_hit, disk
    <3> QED BY <2>0, <3>1, <3>2, CleanKept
  <2>2. ASSUME NEW b \in Bufs, bget_recycle(u, n, b) PROVE CleanInv'
    <3>1. \A q \in Users : q # u => pc'[q] = pc[q] /\ buf'[q] = buf[q]
      BY <1>0, <2>2 DEF bget_recycle, Goto, TypeOK
    <3>2. /\ \A c \in Bufs : c # b => /\ blockno'[c] = blockno[c] /\ valid'[c] = valid[c]
                                      /\ dirty'[c] = dirty[c] /\ data'[c] = data[c]
          /\ ~valid'[b] /\ platter' = platter
      BY <1>0, <2>2 DEF bget_recycle, disk, TypeOK
    <3> QED BY <2>0, <3>1, <3>2, CleanOther
  <2>3. CASE UNCHANGED <<blockno, valid, dirty, refcnt, data, holder, lru, idequeue,
                         cmd, irq, platter, pc, buf>>
    BY <2>3, CleanKept
  <2> QED BY <1>0, <1>2, <2>1, <2>2, <2>3, BgetCases
<1>3. ASSUME NEW u \in Users, NEW v \in Vals, Change(u, v) PROVE CleanInv'
  <2>1. buf[u] \in Bufs
    BY HolderFacts
  <2>2. UNCHANGED <<blockno, valid, dirty, platter, buf>>
    BY <1>3 DEF Change, disk
  <2>3. /\ \A c \in Bufs : c # buf[u] => data'[c] = data[c]
        /\ pc'[u] = "changed" /\ \A q \in Users : q # u => pc'[q] = pc[q]
    BY <1>0, <1>3, <2>1 DEF Change, Goto, TypeOK
  <2> QED BY <2>1, <2>2, <2>3, CleanOther
<1>4. ASSUME NEW u \in Users, Work(u) PROVE CleanInv'
  <2>0. buf[u] \in Bufs
    BY HolderFacts
  <2>1. CASE acquiresleep(u)
    <3>1. UNCHANGED <<blockno, valid, dirty, data, platter, buf>> /\ pc[u] # "changed"
      BY <2>1 DEF acquiresleep, At, bufs, disk
    <3>2. \A q \in Users : q # u => pc'[q] = pc[q]
      BY <1>0, <2>1 DEF acquiresleep, Goto, TypeOK
    <3> QED BY <3>1, <3>2, CleanKept
  <2>2. CASE io(u)
    <3>1. UNCHANGED <<blockno, valid, dirty, data, platter, buf>> /\ pc[u] # "changed"
      BY <2>2 DEF io, At, bufs, disk
    <3>2. \A q \in Users : q # u => pc'[q] = pc[q]
      BY <1>0, <2>2 DEF io, Goto, TypeOK
    <3> QED BY <3>1, <3>2, CleanKept
  <2>3. CASE releasesleep(u)
    <3>1. UNCHANGED <<blockno, valid, dirty, data, platter, buf>> /\ pc[u] # "changed"
      BY <2>3 DEF releasesleep, At, bufs, disk
    <3>2. \A q \in Users : q # u /\ pc[q] = "changed" => pc'[q] = "changed"
      BY <2>3 DEF releasesleep, releasesleep_wake, Wake
    <3> QED BY <3>1, <3>2, CleanKept
  <2>4. CASE brelse(u)
    <3>1. UNCHANGED <<blockno, valid, dirty, data, platter>> /\ pc[u] # "changed"
      BY <2>4 DEF brelse, At, disk
    <3>2. \A q \in Users : q # u => pc'[q] = pc[q] /\ buf'[q] = buf[q]
      BY <1>0, <2>4 DEF brelse, Goto, TypeOK
    <3> QED BY <3>1, <3>2, CleanKept
  <2>5. CASE log_write(u)
    <3>1. UNCHANGED <<blockno, valid, data, platter, buf>>
      BY <2>5 DEF log_write, disk
    <3>2. /\ \A c \in Bufs : c # buf[u] => dirty'[c] = dirty[c]
          /\ dirty'[buf[u]] /\ \A q \in Users : q # u => pc'[q] = pc[q]
      BY <1>0, <2>0, <2>5 DEF log_write, Goto, TypeOK
    <3> QED BY <2>0, <3>1, <3>2, CleanOther
  <2>6. ASSUME NEW d \in BOOLEAN, iderw(u, d), d \/ ~valid[buf[u]],
               UNCHANGED <<blockno, valid, data, platter, buf>>
        PROVE  CleanInv'
    <3>1. /\ \A c \in Bufs : c # buf[u] => dirty'[c] = dirty[c]
          /\ dirty'[buf[u]] = d /\ \A q \in Users : q # u => pc'[q] = pc[q]
      BY <1>0, <2>0, <2>6 DEF iderw, Goto, TypeOK
    <3> QED BY <2>0, <2>6, <3>1, CleanOther
  <2>7. CASE bread(u)
    <3>1. UNCHANGED <<blockno, valid, data, platter, buf>> /\ pc[u] # "changed"
      BY <2>7 DEF bread, At
    <3>2. CASE valid[buf[u]]
      <4>1. dirty' = dirty /\ \A q \in Users : q # u => pc'[q] = pc[q]
        BY <1>0, <2>7, <3>2 DEF bread, Goto, TypeOK
      <4> QED BY <3>1, <4>1, CleanKept
    <3>3. CASE ~valid[buf[u]]
      <4>1. iderw(u, dirty[buf[u]]) /\ dirty[buf[u]] \in BOOLEAN
        BY <1>0, <2>0, <2>7, <3>3 DEF bread, TypeOK
      <4> QED BY <2>6, <3>1, <3>3, <4>1
    <3> QED BY <3>2, <3>3
  <2>8. CASE bwrite(u)
    BY <2>6, <2>8 DEF bwrite
  <2> QED BY <1>4, <2>1, <2>2, <2>3, <2>4, <2>5, <2>7, <2>8 DEF Work
<1>5. CASE drive
  <2>1. cmd # <<>> /\ UNCHANGED <<blockno, valid, dirty, data, pc, buf>>
    BY <1>5 DEF drive, bufs
  <2>2. idequeue[1] \in Bufs /\ cmd[1].block = blockno[idequeue[1]]
        /\ cmd[1].block \in Blocks /\ cmd[1].data \in Vals
        /\ (cmd[1].write <=> dirty[idequeue[1]])
    BY <2>1, CommandFacts
  <2>3. ASSUME NEW c \in Bufs, valid[c], ~dirty[c]
        PROVE  platter'[blockno[c]] = platter[blockno[c]]
    <3>1. CASE ~cmd[1].write
      BY <1>5, <3>1 DEF drive
    <3>2. CASE cmd[1].write
      <4>1. blockno[c] # blockno[idequeue[1]]
        BY <2>2, <2>3, <3>2, CacheAssumption DEF BufferInv, CacheInv, OneBuffer
      <4>2. blockno[c] \in Blocks
        BY <2>3 DEF BufferInv, BlockInv
      <4>3. platter' = [platter EXCEPT ![cmd[1].block] = cmd[1].data]
        BY <1>5, <3>2 DEF drive
      <4> QED BY <1>0, <2>2, <4>1, <4>2, <4>3 DEF TypeOK
    <3> QED BY <3>1, <3>2
  <2>4. \A c \in Bufs : Changing(c) => Changing(c)'
    BY <2>1 DEF Changing
  <2> QED BY <2>1, <2>3, <2>4 DEF CleanInv
<1>6. CASE ideintr
  <2> DEFINE b == idequeue[1]
  <2>1. irq /\ CommandInv /\ cmd # <<>>
    BY <1>6 DEF ideintr, BufferInv, CommandInv
  <2>2. b \in Bufs /\ cmd[1].block = blockno[b] /\ (cmd[1].write <=> dirty[b])
        /\ (cmd[1].write => cmd[1].data = data[b])
    BY <2>1, CommandFacts
  <2>3. UNCHANGED <<blockno, platter, buf>>
    BY <1>6 DEF ideintr
  <2>4. /\ \A c \in Bufs : c # b => /\ valid'[c] = valid[c] /\ dirty'[c] = dirty[c]
                                    /\ data'[c] = data[c]
    BY <1>0, <1>6, <2>2 DEF ideintr, TypeOK
  <2>5. \A q \in Users : pc[q] = "changed" => pc'[q] = "changed"
    BY <1>6, CacheAssumption DEF ideintr, ideintr_wake, Wake
  <2>6. data'[b] = platter[blockno[b]]
    <3>1. CASE dirty[b]
      <4>1. data' = data
        BY <1>6, <3>1 DEF ideintr
      <4> QED BY <2>1, <2>2, <3>1, <4>1 DEF CommandInv
    <3>2. CASE ~dirty[b]
      <4>1. data' = [data EXCEPT ![b] = platter[cmd[1].block]]
        BY <1>6, <3>2 DEF ideintr
      <4> QED BY <1>0, <2>2, <4>1 DEF TypeOK
    <3> QED BY <3>1, <3>2
  <2>7. \A c \in Bufs : Changing(c) => Changing(c)'
    BY <2>3, <2>5 DEF Changing
  <2> HIDE DEF b
  <2> QED BY <2>2, <2>3, <2>4, <2>6, <2>7 DEF CleanInv
<1> QED BY <1>1, <1>2, <1>3, <1>4, <1>5, <1>6 DEF Next

\* With a drive whose reads succeed, CleanInv always holds as well.
LEMMA CleanAlways ==
  ASSUME ReadErrors = FALSE PROVE Spec => [](BufferInv /\ CleanInv)
<1>1. Init => CleanInv
  BY DEF Init, CleanInv
<1>2. BufferInv /\ CleanInv /\ [Next]_vars => CleanInv'
  BY CleanNext
<1> QED BY <1>1, <1>2, BufferAlways, PTL DEF Spec

\* iderw(), idestart() and ideintr() (ide.c) agree on the queue: every queued
\* buffer is queued once and locked by a user that sleeps for it, the drive
\* works on the first, no user sleeps for a lock that is free or a request
\* that is done, and a clean buffer nobody has is what the disk has.
THEOREM RequestsServed ==
  ASSUME ReadErrors = FALSE PROVE Spec => []QueueInv
<1>1. BufferInv /\ CleanInv => QueueInv
  <2> SUFFICES ASSUME BufferInv, CleanInv PROVE QueueInv
    OBVIOUS
  <2>1. RequestInv /\ CommandInv /\ NoMissedWakeup /\ HolderInv
    BY DEF BufferInv
  <2>2. \A i \in 1..Len(idequeue) :
          \E u \in Users : buf[u] = idequeue[i] /\ holder[buf[u]] = u /\ pc[u] = "io_asleep"
    BY <2>1, HolderFacts DEF RequestInv
  <2>3. QueueOwned
    BY <2>1, <2>2 DEF QueueOwned, RequestInv, CommandInv
  <2>4. \A b \in Bufs : holder[b] = Nobody => ~Changing(b)
    BY <2>1, CacheAssumption DEF Changing, HolderInv, Locking
  <2>5. ValidWasRead
    BY <2>4 DEF CleanInv, ValidWasRead
  <2> QED BY <2>1, <2>3, <2>5 DEF QueueInv
<1> QED BY <1>1, CleanAlways, PTL
-----------------------------------------------------------------------------
(* The refinement of BlockStore. *)

\* The refinement mapping by name.
Contents == [n \in Blocks |-> IF InBuf(n) /\ valid[BufOf(n)]
                              THEN data[BufOf(n)] ELSE platter[n]]
Owner == [n \in Blocks |-> IF InBuf(n) THEN holder[BufOf(n)] ELSE Nobody]

\* The one buffer that has block n is the one BufOf() names.
LEMMA TheBuffer ==
  ASSUME NEW B, NEW n, NEW b \in Bufs, B[b] = n, \A c \in Bufs : B[c] = n => c = b
  PROVE  (CHOOSE c \in Bufs : B[c] = n) = b
OBVIOUS

\* The same in terms of the cache, and what BufOf() is for a block in no buffer
\* does not matter.
LEMMA BufOfFacts ==
  ASSUME OneBuffer
  PROVE  /\ \A b \in Bufs : blockno[b] \in Blocks => InBuf(blockno[b]) /\ BufOf(blockno[b]) = b
         /\ \A n \in Blocks : InBuf(n) => BufOf(n) \in Bufs /\ blockno[BufOf(n)] = n
<1>1. ASSUME NEW b \in Bufs, blockno[b] \in Blocks
      PROVE  InBuf(blockno[b]) /\ BufOf(blockno[b]) = b
  <2>1. \A c \in Bufs : blockno[c] = blockno[b] => c = b
    BY <1>1, CacheAssumption DEF OneBuffer
  <2>2. BufOf(blockno[b]) = b
    BY <2>1, TheBuffer DEF BufOf
  <2> QED BY <2>2 DEF InBuf
<1>2. ASSUME NEW n \in Blocks, InBuf(n) PROVE BufOf(n) \in Bufs /\ blockno[BufOf(n)] = n
  BY <1>2 DEF InBuf, BufOf
<1> QED BY <1>1, <1>2

\* If the buffers keep their blocks, a block's contents are those of its buffer.
LEMMA ContentsKept ==
  ASSUME OneBuffer, blockno' = blockno,
         \A b \in Bufs : blockno[b] \in Blocks =>
           (IF valid'[b] THEN data'[b] ELSE platter'[blockno[b]])
             = (IF valid[b] THEN data[b] ELSE platter[blockno[b]]),
         \A n \in Blocks : ~InBuf(n) => platter'[n] = platter[n]
  PROVE  Contents' = Contents
<1>1. ASSUME NEW n \in Blocks PROVE Contents'[n] = Contents[n]
  <2>1. InBuf(n)' = InBuf(n) /\ BufOf(n)' = BufOf(n)
    BY DEF InBuf, BufOf
  <2>2. /\ Contents'[n] = IF InBuf(n) /\ valid'[BufOf(n)] THEN data'[BufOf(n)] ELSE platter'[n]
        /\ Contents[n] = IF InBuf(n) /\ valid[BufOf(n)] THEN data[BufOf(n)] ELSE platter[n]
    BY <2>1 DEF Contents
  <2>3. InBuf(n) => BufOf(n) \in Bufs /\ blockno[BufOf(n)] = n
    BY BufOfFacts
  <2> QED BY <2>2, <2>3
<1>2. Contents' = [n \in Blocks |-> Contents'[n]] /\ Contents = [n \in Blocks |-> Contents[n]]
  BY DEF Contents
<1> QED BY <1>1, <1>2

\* If the buffers keep their blocks and buffer b gets holder x, its block gets
\* that owner and the others keep theirs.
LEMMA OwnerSet ==
  ASSUME OneBuffer, blockno' = blockno, NEW b \in Bufs, blockno[b] \in Blocks, NEW x,
         \A c \in Bufs : holder'[c] = IF c = b THEN x ELSE holder[c]
  PROVE  Owner' = [Owner EXCEPT ![blockno[b]] = x] /\ Owner[blockno[b]] = holder[b]
<1>1. ASSUME NEW n \in Blocks
      PROVE  Owner'[n] = IF n = blockno[b] THEN x ELSE Owner[n]
  <2>1. InBuf(n)' = InBuf(n) /\ BufOf(n)' = BufOf(n)
    BY DEF InBuf, BufOf
  <2>2. /\ Owner'[n] = IF InBuf(n) THEN holder'[BufOf(n)] ELSE Nobody
        /\ Owner[n] = IF InBuf(n) THEN holder[BufOf(n)] ELSE Nobody
    BY <2>1 DEF Owner
  <2>3. CASE n = blockno[b]
    BY <2>2, <2>3, BufOfFacts
  <2>4. CASE n # blockno[b]
    <3>1. InBuf(n) => BufOf(n) \in Bufs /\ BufOf(n) # b
      BY <2>4, BufOfFacts
    <3> QED BY <2>2, <2>4, <3>1
  <2> QED BY <2>3, <2>4
<1>2. Owner' = [n \in Blocks |-> Owner'[n]] /\ Owner = [n \in Blocks |-> Owner[n]]
  BY DEF Owner
<1>3. Owner' = [n \in Blocks |-> IF n = blockno[b] THEN x ELSE Owner[n]]
  BY <1>1, <1>2
<1>4. Owner' = [Owner EXCEPT ![blockno[b]] = x]
  BY <1>2, <1>3
<1>5. Owner[blockno[b]] = holder[b]
  BY BufOfFacts DEF Owner
<1> QED BY <1>4, <1>5

\* If neither blocks nor holders change, nor do the owners.
LEMMA OwnerKept ==
  ASSUME UNCHANGED <<blockno, holder>> PROVE Owner' = Owner
BY DEF Owner, InBuf, BufOf

\* Recycling a buffer changes the contents and the owner of no block: the old
\* block is on the disk, and the new one is not read yet.
LEMMA RecycleRefines ==
  ASSUME BufferInv, CleanInv, NEW u \in Users, NEW n \in Blocks, NEW b \in Bufs,
         cached(n) = {}, refcnt[b] = 0, ~dirty[b], bget_recycle(u, n, b)
  PROVE  Contents' = Contents /\ Owner' = Owner
<1>0. TypeOK /\ OneBuffer /\ CountsUsers /\ HolderInv
  BY DEF BufferInv, CacheInv
<1>1. \A q \in Users : pc[q] # "idle" => buf[q] # b
  BY <1>0, Unreferenced
<1>2. holder[b] = Nobody /\ ~Changing(b)
  <2>1. ~Changing(b)
    BY <1>1 DEF Changing
  <2>2. holder[b] = Nobody
    BY <1>0, <1>1, HolderFacts DEF HolderInv, Locking
  <2> QED BY <2>1, <2>2
<1>3. /\ \A c \in Bufs : blockno'[c] = IF c = b THEN n ELSE blockno[c]
      /\ \A c \in Bufs : c # b => valid'[c] = valid[c]
      /\ valid'[b] = FALSE /\ UNCHANGED <<data, holder, platter>>
  BY <1>0 DEF bget_recycle, disk, TypeOK
<1>4. \A c \in Bufs : blockno[c] # n
  BY DEF cached
<1>5. ASSUME NEW k \in Blocks
      PROVE  Contents'[k] = Contents[k] /\ Owner'[k] = Owner[k]
  <2>0. /\ Contents'[k] = IF InBuf(k)' /\ valid'[BufOf(k)'] THEN data[BufOf(k)'] ELSE platter[k]
        /\ Contents[k] = IF InBuf(k) /\ valid[BufOf(k)] THEN data[BufOf(k)] ELSE platter[k]
        /\ Owner'[k] = IF InBuf(k)' THEN holder[BufOf(k)'] ELSE Nobody
        /\ Owner[k] = IF InBuf(k) THEN holder[BufOf(k)] ELSE Nobody
    BY <1>3 DEF Contents, Owner
  <2>1. CASE k = n
    <3>1. ~InBuf(k)
      BY <1>4, <2>1 DEF InBuf
    <3>2. \A c \in Bufs : blockno'[c] = k => c = b
      BY <1>3, <1>4, <2>1
    <3>3. (CHOOSE c \in Bufs : blockno'[c] = k) = b
      BY <1>3, <2>1, <3>2, TheBuffer
    <3>4. BufOf(k)' = b
      BY <3>3 DEF BufOf
    <3> QED BY <1>2, <1>3, <2>0, <3>1, <3>4
  <2>2. CASE k # n /\ k = blockno[b]
    <3>1. ~InBuf(k)'
      BY <1>0, <1>3, <2>2, CacheAssumption DEF InBuf, OneBuffer
    <3>2. InBuf(k) /\ BufOf(k) = b
      BY <1>0, <2>2, BufOfFacts
    <3>3. valid[b] => data[b] = platter[k]
      BY <1>2, <2>2 DEF CleanInv
    <3> QED BY <1>2, <2>0, <3>1, <3>2, <3>3
  <2>3. CASE k # n /\ k # blockno[b]
    <3>1. \A c \in Bufs : blockno'[c] = k <=> blockno[c] = k
      BY <1>3, <2>3
    <3>2. InBuf(k)' <=> InBuf(k)
      BY <3>1 DEF InBuf
    <3>3. CASE InBuf(k)
      <4>1. PICK c \in Bufs : blockno[c] = k
        BY <3>3 DEF InBuf
      <4>2. \A e \in Bufs : blockno'[e] = k => e = c
        BY <1>0, <3>1, <4>1, CacheAssumption DEF OneBuffer
      <4>3. (CHOOSE e \in Bufs : blockno'[e] = k) = c
        BY <3>1, <4>1, <4>2, TheBuffer
      <4>4. BufOf(k)' = c
        BY <4>3 DEF BufOf
      <4>5. BufOf(k) = c
        BY <1>0, <4>1, BufOfFacts
      <4>6. c # b
        BY <2>3, <4>1
      <4> QED BY <1>3, <2>0, <3>2, <3>3, <4>4, <4>5, <4>6
    <3>4. CASE ~InBuf(k)
      BY <2>0, <3>2, <3>4
    <3> QED BY <3>3, <3>4
  <2> QED BY <2>1, <2>2, <2>3
<1>6. /\ Contents' = [k \in Blocks |-> Contents'[k]] /\ Contents = [k \in Blocks |-> Contents[k]]
      /\ Owner' = [k \in Blocks |-> Owner'[k]] /\ Owner = [k \in Blocks |-> Owner[k]]
  BY DEF Contents, Owner
<1> QED BY <1>5, <1>6

\* Every step is a step of BlockStore or changes neither contents nor owners.
LEMMA StepRefines ==
  ASSUME BufferInv, CleanInv, ReadErrors = FALSE, [Next]_vars
  PROVE  \/ Contents' = Contents /\ Owner' = Owner
         \/ \E u \in Users, n \in Blocks :
              \/ /\ Owner[n] = Nobody /\ Owner' = [Owner EXCEPT ![n] = u]
                 /\ Contents' = Contents
              \/ /\ Owner[n] = u /\ Owner' = [Owner EXCEPT ![n] = Nobody]
                 /\ Contents' = Contents
              \/ /\ Owner[n] = u /\ Owner' = Owner
                 /\ \E v \in Vals : Contents' = [Contents EXCEPT ![n] = v]
<1> DEFINE Goal ==
      \/ Contents' = Contents /\ Owner' = Owner
      \/ \E u \in Users, n \in Blocks :
           \/ /\ Owner[n] = Nobody /\ Owner' = [Owner EXCEPT ![n] = u]
              /\ Contents' = Contents
           \/ /\ Owner[n] = u /\ Owner' = [Owner EXCEPT ![n] = Nobody]
              /\ Contents' = Contents
           \/ /\ Owner[n] = u /\ Owner' = Owner
              /\ \E v \in Vals : Contents' = [Contents EXCEPT ![n] = v]
<1>0. TypeOK /\ OneBuffer /\ HolderInv /\ BlockInv /\ FlagsInv
  BY DEF BufferInv, CacheInv
<1>k. ASSUME UNCHANGED <<blockno, valid, data, platter>> PROVE Contents' = Contents
  BY <1>k, <1>0, ContentsKept
<1>1. CASE UNCHANGED vars
  BY <1>1, <1>k, OwnerKept DEF vars
<1>2. ASSUME NEW u \in Users, NEW n \in Blocks, bget(u, n) PROVE Contents' = Contents /\ Owner' = Owner
  <2>1. ASSUME NEW b \in Bufs, bget_hit(u, b) PROVE Contents' = Contents /\ Owner' = Owner
    BY <2>1, <1>k, OwnerKept DEF bget_hit, disk
  <2>2. ASSUME NEW b \in Bufs, cached(n) = {}, refcnt[b] = 0, ~dirty[b], bget_recycle(u, n, b)
        PROVE  Contents' = Contents /\ Owner' = Owner
    BY <2>2, RecycleRefines
  <2>3. CASE UNCHANGED <<blockno, valid, dirty, refcnt, data, holder, lru, idequeue,
                         cmd, irq, platter, pc, buf>>
    BY <2>3, <1>k, OwnerKept
  <2> QED BY <1>0, <1>2, <2>1, <2>2, <2>3, BgetCases
<1>3. ASSUME NEW u \in Users, NEW v \in Vals, Change(u, v) PROVE Goal
  <2> DEFINE b == buf[u]
  <2>1. pc[u] = "hold" /\ b \in Bufs /\ UNCHANGED <<blockno, valid, holder, platter>>
    BY <1>3, HolderFacts DEF Change, At, disk
  <2>2. holder[b] = u /\ valid[b] /\ blockno[b] \in Blocks
    BY <1>0, <2>1 DEF HolderInv, FlagsInv, BlockInv, Locking
  <2>3. \A c \in Bufs : data'[c] = IF c = b THEN v ELSE data[c]
    BY <1>0, <1>3, <2>1 DEF Change, TypeOK
  <2>4. b = buf[u]
    OBVIOUS
  <2> HIDE DEF b
  <2>5. Owner' = Owner
    BY <2>1, OwnerKept
  <2>6. Owner[blockno[b]] = u
    BY <1>0, <2>1, <2>2, BufOfFacts DEF Owner
  <2>7. ASSUME NEW n \in Blocks
        PROVE  Contents'[n] = IF n = blockno[b] THEN v ELSE Contents[n]
    <3>1. InBuf(n)' = InBuf(n) /\ BufOf(n)' = BufOf(n)
      BY <2>1 DEF InBuf, BufOf
    <3>2. /\ Contents'[n] = IF InBuf(n) /\ valid[BufOf(n)] THEN data'[BufOf(n)] ELSE platter[n]
          /\ Contents[n] = IF InBuf(n) /\ valid[BufOf(n)] THEN data[BufOf(n)] ELSE platter[n]
      BY <2>1, <3>1 DEF Contents
    <3>3. CASE n = blockno[b]
      <4>1. InBuf(n) /\ BufOf(n) = b
        BY <1>0, <2>1, <3>3, BufOfFacts
      <4> QED BY <2>1, <2>2, <2>3, <3>2, <3>3, <4>1
    <3>4. CASE n # blockno[b]
      <4>1. InBuf(n) => BufOf(n) \in Bufs /\ BufOf(n) # b
        BY <1>0, <3>4, BufOfFacts
      <4> QED BY <2>3, <3>2, <3>4, <4>1
    <3> QED BY <3>3, <3>4
  <2>8. Contents' = [n \in Blocks |-> Contents'[n]] /\ Contents = [n \in Blocks |-> Contents[n]]
    BY DEF Contents
  <2>9. Contents' = [n \in Blocks |-> IF n = blockno[b] THEN v ELSE Contents[n]]
    BY <2>7, <2>8
  <2>10. Contents' = [Contents EXCEPT ![blockno[b]] = v]
    BY <2>8, <2>9
  <2> QED BY <2>2, <2>5, <2>6, <2>10
<1>4. ASSUME NEW u \in Users, Work(u) PROVE Goal
  <2> DEFINE b == buf[u]
  <2>0. b \in Bufs
    BY HolderFacts
  <2>1. CASE acquiresleep(u) /\ holder[b] = Nobody
    <3>1. pc[u] # "idle" /\ UNCHANGED <<blockno, valid, data, platter>>
          /\ holder' = [holder EXCEPT ![b] = u]
      BY <2>1 DEF acquiresleep, At, bufs, disk
    <3>2. blockno[b] \in Blocks
      BY <1>0, <3>1 DEF BlockInv
    <3>3. \A c \in Bufs : holder'[c] = IF c = b THEN u ELSE holder[c]
      BY <1>0, <3>1 DEF TypeOK
    <3> HIDE DEF b
    <3>4. Owner' = [Owner EXCEPT ![blockno[b]] = u] /\ Owner[blockno[b]] = Nobody
      BY <1>0, <2>0, <2>1, <3>1, <3>2, <3>3, OwnerSet
    <3>5. Contents' = Contents
      BY <1>k, <3>1
    <3> QED BY <3>2, <3>4, <3>5
  <2>2. CASE acquiresleep(u) /\ holder[b] # Nobody
    BY <2>2, <1>k, OwnerKept DEF acquiresleep, bufs, disk
  <2>3. CASE releasesleep(u)
    <3>1. pc[u] = "hold" /\ UNCHANGED <<blockno, valid, data, platter>>
          /\ holder' = [holder EXCEPT ![b] = Nobody]
      BY <2>3 DEF releasesleep, At, bufs, disk
    <3>2. blockno[b] \in Blocks /\ holder[b] = u
      BY <1>0, <3>1 DEF BlockInv, HolderInv, Locking
    <3>3. \A c \in Bufs : holder'[c] = IF c = b THEN Nobody ELSE holder[c]
      BY <1>0, <3>1 DEF TypeOK
    <3> HIDE DEF b
    <3>4. Owner' = [Owner EXCEPT ![blockno[b]] = Nobody] /\ Owner[blockno[b]] = u
      BY <1>0, <2>0, <3>1, <3>2, <3>3, OwnerSet
    <3>5. Contents' = Contents
      BY <1>k, <3>1
    <3> QED BY <3>2, <3>4, <3>5
  <2>4. CASE bread(u) \/ io(u) \/ bwrite(u) \/ log_write(u) \/ brelse(u)
    <3>1. UNCHANGED <<blockno, valid, data, platter, holder>>
      BY <2>4 DEF bread, io, bwrite, log_write, brelse, bufs, disk
    <3> QED BY <3>1, <1>k, OwnerKept
  <2> QED BY <1>4, <2>1, <2>2, <2>3, <2>4 DEF Work
<1>5. CASE drive
  <2> DEFINE f == idequeue[1]
  <2>1. cmd # <<>> /\ UNCHANGED <<blockno, valid, data, holder>>
    BY <1>5 DEF drive, bufs
  <2>2. f \in Bufs /\ cmd[1].block = blockno[f] /\ cmd[1].block \in Blocks
        /\ (cmd[1].write <=> dirty[f]) /\ cmd[1].write \in BOOLEAN
    BY <2>1, CommandFacts
  <2>3. CASE ~cmd[1].write
    <3>1. platter' = platter
      BY <1>5, <2>3 DEF drive
    <3> QED BY <2>1, <3>1, <1>k, OwnerKept
  <2>4. CASE cmd[1].write
    <3>1. platter' = [platter EXCEPT ![blockno[f]] = cmd[1].data]
      BY <1>5, <2>2, <2>4 DEF drive
    <3>2. \A n \in Blocks : n # blockno[f] => platter'[n] = platter[n]
      BY <1>0, <3>1 DEF TypeOK
    <3>3. valid[f]
      BY <1>0, <2>2, <2>4 DEF FlagsInv
    <3> HIDE DEF f
    <3>4. \A n \in Blocks : ~InBuf(n) => platter'[n] = platter[n]
      BY <2>2, <3>2 DEF InBuf
    <3>5. \A c \in Bufs : blockno[c] \in Blocks /\ ~valid[c] => blockno[c] # blockno[f]
      BY <1>0, <2>2, <3>3, CacheAssumption DEF OneBuffer
    <3>6. \A c \in Bufs : blockno[c] \in Blocks =>
            (IF valid'[c] THEN data'[c] ELSE platter'[blockno[c]])
              = (IF valid[c] THEN data[c] ELSE platter[blockno[c]])
      BY <2>1, <3>2, <3>5
    <3>7. Contents' = Contents
      BY <1>0, <2>1, <3>4, <3>6, ContentsKept
    <3> QED BY <2>1, <3>7, OwnerKept
  <2> QED BY <2>3, <2>4
<1>6. CASE ideintr
  <2> DEFINE f == idequeue[1]
  <2>1. irq /\ CommandInv /\ cmd # <<>>
    BY <1>6 DEF ideintr, BufferInv, CommandInv
  <2>2. f \in Bufs /\ cmd[1].block = blockno[f] /\ (cmd[1].write <=> dirty[f])
    BY <2>1, CommandFacts
  <2>3. UNCHANGED <<blockno, platter, holder>>
    BY <1>6 DEF ideintr
  <2>4. /\ \A c \in Bufs : c # f => valid'[c] = valid[c] /\ data'[c] = data[c]
        /\ valid'[f] = TRUE
    BY <1>0, <1>6, <2>2 DEF ideintr, TypeOK
  <2>5. data'[f] = IF valid[f] THEN data[f] ELSE platter[blockno[f]]
    <3>1. CASE dirty[f]
      <4>1. data' = data
        BY <1>6, <3>1 DEF ideintr
      <4> QED BY <1>0, <2>2, <3>1, <4>1 DEF FlagsInv
    <3>2. CASE ~dirty[f]
      <4>1. data' = [data EXCEPT ![f] = platter[cmd[1].block]]
        BY <1>6, <3>2 DEF ideintr
      <4>2. ~valid[f]
        <5>1. 1 \in 1..Len(idequeue)
          BY <2>1, HolderFacts DEF CommandInv
        <5>2. Queued(f)
          BY <5>1 DEF Queued
        <5> QED BY <1>0, <2>2, <3>2, <5>2 DEF FlagsInv
      <4> QED BY <1>0, <2>2, <4>1, <4>2 DEF TypeOK
    <3> QED BY <3>1, <3>2
  <2> HIDE DEF f
  <2>6. \A c \in Bufs : blockno[c] \in Blocks =>
          (IF valid'[c] THEN data'[c] ELSE platter'[blockno[c]])
            = (IF valid[c] THEN data[c] ELSE platter[blockno[c]])
    BY <2>3, <2>4, <2>5
  <2>7. Contents' = Contents
    BY <1>0, <2>3, <2>6, ContentsKept
  <2> QED BY <2>3, <2>7, OwnerKept
<1> QED BY <1>1, <1>2, <1>3, <1>4, <1>5, <1>6 DEF Next

\* The buffers, their recycling, the sleep-locks, the request queue and the
\* interrupt (bio.c, sleeplock.c, ide.c) implement a store in which every block
\* has one contents and one user at a time, however few buffers there are.
THEOREM CacheImplements ==
  ASSUME ReadErrors = FALSE PROVE Spec => IsBlockStore
<1>1. Init => Store!Init
  <2> SUFFICES ASSUME Init PROVE Store!Init
    OBVIOUS
  <2>1. \A n \in Blocks : ~InBuf(n)
    BY CacheAssumption DEF Init, InBuf
  <2>2. Contents = [n \in Blocks |-> platter[n]] /\ platter \in [Blocks -> Vals]
    BY <2>1, CacheAssumption DEF Init, Contents
  <2>3. Owner = [n \in Blocks |-> Nobody]
    BY <2>1 DEF Owner
  <2> QED BY <2>2, <2>3 DEF Store!Init, Contents, Owner
<1>2. BufferInv /\ CleanInv /\ [Next]_vars => [Store!Next]_(Store!vars)
  <2> SUFFICES ASSUME BufferInv, CleanInv, [Next]_vars PROVE [Store!Next]_(Store!vars)
    OBVIOUS
  <2>1. CASE Contents' = Contents /\ Owner' = Owner
    BY <2>1 DEF Store!vars, Contents, Owner
  <2>2. ASSUME NEW u \in Users, NEW n \in Blocks,
               Owner[n] = Nobody, Owner' = [Owner EXCEPT ![n] = u], Contents' = Contents
        PROVE  Store!Next
    BY <2>2 DEF Store!Next, Store!Get, Contents, Owner
  <2>3. ASSUME NEW u \in Users, NEW n \in Blocks,
               Owner[n] = u, Owner' = [Owner EXCEPT ![n] = Nobody], Contents' = Contents
        PROVE  Store!Next
    BY <2>3 DEF Store!Next, Store!Put, Contents, Owner
  <2>4. ASSUME NEW u \in Users, NEW n \in Blocks, NEW v \in Vals,
               Owner[n] = u, Contents' = [Contents EXCEPT ![n] = v], Owner' = Owner
        PROVE  Store!Next
    BY <2>4 DEF Store!Next, Store!Change, Contents, Owner
  <2> QED BY <2>1, <2>2, <2>3, <2>4, StepRefines
<1> QED BY <1>1, <1>2, CleanAlways, PTL DEF Spec, IsBlockStore, Store!Spec
=============================================================================

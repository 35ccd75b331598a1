------------------------------- MODULE Bcache --------------------------------
(***************************************************************************)
(* The buffer cache of xv6 (os/5/bio.c) with its sleep-locks (sleeplock.c) *)
(* and the IDE driver below it (ide.c).                                    *)
(*                                                                         *)
(* A critical section of bcache.lock, of a sleep-lock's own lk->lk or of   *)
(* idelock is one action.  A process uses a buffer as the interface asks:  *)
(* bread(); look; change and bwrite() or log_write(); brelse().  It may    *)
(* have two of them (bmap() and itrunc() read the bitmap with the indirect *)
(* block locked, the log copies from one buffer to another), one in each   *)
(* hand, but it is one thread: while one hand is busy the other just holds *)
(* its buffer.  log_write() is seen here only as what sets B_DIRTY, on at  *)
(* most MaxPinned buffers at a time (the size of the log).  The drive      *)
(* executes one command and interrupts.                                    *)
(***************************************************************************)
EXTENDS Integers, Sequences, FiniteSets

CONSTANTS
  Procs, Blocks, Vals,
  Hands,       \* how many buffers each process may have at a time, 1 or 2
  Nested,      \* <<m, n>>: block n may be read with block m locked
  Image,       \* contents of the disk when the kernel starts
  Written,     \* the blocks callers change; the others they only read
  Nobody,      \* a sleep-lock is free; no user
  NoBlock,     \* blockno of a buffer that was never used
  NBUF,        \* number of buffers
  MaxPinned,   \* bound on the buffers log_write() keeps dirty
  ReadErrors   \* the drive may report an error after a read

\* A user of a buffer: a process with one of its hands.
Users == {u \in Procs \X {1, 2} : u[2] <= Hands[u[1]]}

ASSUME CacheAssumption ==
  /\ IsFiniteSet(Procs) /\ Hands \in [Procs -> {1, 2}] /\ Nobody \notin Users
  /\ Nested \subseteq Blocks \X Blocks
  /\ NoBlock \notin Blocks
  /\ Image \in [Blocks -> Vals] /\ Vals # {}
  /\ Written \subseteq Blocks
  /\ NBUF \in Nat \ {0}
  /\ MaxPinned \in Nat
  /\ ReadErrors \in BOOLEAN

Bufs == 1..NBUF

VARIABLES
  blockno, valid, dirty, refcnt, data,   \* struct buf
  holder,     \* owner of the buffer's sleep-lock
  lru,        \* the list from head.next (most recent) to head.prev
  idequeue,
  cmd,        \* commands given to the drive and not executed, at most one
  irq,        \* the drive has raised its interrupt
  platter,    \* contents of the disk
  pc, buf,    \* where a user is, and its buffer
  panicked    \* what stopped the kernel: "no", "bget" or "iderw"

bufs == <<blockno, valid, dirty, refcnt, data>>
disk == <<idequeue, cmd, irq, platter>>
vars == <<blockno, valid, dirty, refcnt, data, holder, lru, idequeue, cmd, irq,
          platter, pc, buf, panicked>>

PCs == {"idle", "acquiresleep", "lk_asleep", "bread", "io", "io_asleep",
        "hold", "changed", "brelse"}

\* The other user of the same process, if there is one, just holds its buffer.
Resting(u) ==
  \A w \in Users : w[1] = u[1] /\ w # u => pc[w] \in {"idle", "hold", "changed"}

At(u, label) == pc[u] = label /\ Resting(u) /\ panicked = "no"
Goto(u, label) == pc' = [pc EXCEPT ![u] = label]

\* u goes to label; the users at from that wait for buffer b go to to.
Wake(u, label, b, from, to) ==
  pc' = [q \in Users |-> IF q = u THEN label
                         ELSE IF pc[q] = from /\ buf[q] = b THEN to ELSE pc[q]]
-----------------------------------------------------------------------------
\* binit() puts the buffers on the list one in front of the other.
Init ==
  /\ blockno = [b \in Bufs |-> NoBlock]
  /\ valid = [b \in Bufs |-> FALSE] /\ dirty = [b \in Bufs |-> FALSE]
  /\ refcnt = [b \in Bufs |-> 0]
  /\ data = [b \in Bufs |-> CHOOSE v \in Vals : TRUE]
  /\ holder = [b \in Bufs |-> Nobody]
  /\ lru = [i \in Bufs |-> NBUF + 1 - i]
  /\ idequeue = <<>> /\ cmd = <<>> /\ irq = FALSE
  /\ platter = Image
  /\ pc = [u \in Users |-> "idle"] /\ buf = [u \in Users |-> 1]
  /\ panicked = "no"

\* The buffers bget()'s first loop stops at.
cached(n) == {b \in Bufs : blockno[b] = n}

\* Mutant: B_DIRTY does not protect a buffer.
unusedDirty == {i \in Bufs : refcnt[lru[i]] = 0}

\* Places on the list where bget()'s second loop would stop.
unused == {i \in Bufs : refcnt[lru[i]] = 0 /\ ~dirty[lru[i]]}

\* Mutant: a hit does not count.
referencedNot(b) == refcnt

\* b->refcnt++ of a hit.
referenced(b) == [refcnt EXCEPT ![b] = @ + 1]

\* A first buffer is read with empty hands, a second one only with the first in
\* the order the callers keep: log block before home block, indirect block before
\* bitmap block.
InOrder(u, n) ==
  \A w \in Users : w[1] = u[1] /\ w # u =>
    IF u[2] = 1 THEN pc[w] = "idle" ELSE pc[w] # "idle" /\ <<blockno[buf[w]], n>> \in Nested

\* bget() under bcache.lock: the cached buffer of block n, or the unused one
\* nearest to the end of the list, or a panic, in which the caller stays.
bget(u, n) ==
  /\ pc[u] = "idle" /\ Resting(u) /\ InOrder(u, n)
  /\ \/ \E b \in cached(n) :
          /\ panicked = "no"
          /\ refcnt' = referenced(b)
          /\ buf' = [buf EXCEPT ![u] = b]
          /\ Goto(u, "acquiresleep")
          /\ UNCHANGED <<blockno, valid, dirty, panicked>>
     \/ /\ panicked = "no" /\ cached(n) = {} /\ unused # {}
        /\ LET b == lru[CHOOSE i \in unused : \A j \in unused : j <= i] IN
             /\ blockno' = [blockno EXCEPT ![b] = n]
             /\ valid' = [valid EXCEPT ![b] = FALSE]
             /\ dirty' = [dirty EXCEPT ![b] = FALSE]
             /\ refcnt' = [refcnt EXCEPT ![b] = 1]
             /\ buf' = [buf EXCEPT ![u] = b]
        /\ Goto(u, "acquiresleep")
        /\ UNCHANGED panicked
     \/ /\ cached(n) = {} /\ unused = {}
        /\ panicked' = "bget"
        /\ UNCHANGED <<blockno, valid, dirty, refcnt, buf, pc>>
  /\ UNCHANGED <<data, holder, lru, disk>>

\* One pass of acquiresleep()'s loop.
acquiresleep(u) ==
  LET b == buf[u] IN
  /\ At(u, "acquiresleep")
  /\ \/ /\ holder[b] = Nobody
        /\ holder' = [holder EXCEPT ![b] = u]
        /\ Goto(u, "bread")
     \/ /\ holder[b] # Nobody
        /\ Goto(u, "lk_asleep")
        /\ UNCHANGED holder
  /\ UNCHANGED <<bufs, lru, disk, buf, panicked>>
-----------------------------------------------------------------------------
(* ide.c *)

\* idestart() of buffer b, whose B_DIRTY is d: the data of a write goes to the
\* drive with the command.
idestart(b, d) == <<[block |-> blockno[b], write |-> d, data |-> data[b]]>>

\* The drive's command after b was appended to idequeue.
started(b, d) == IF idequeue = <<>> THEN idestart(b, d) ELSE cmd

\* holdingsleep(): the lock knows the process, not the hand.
holdingsleep(u, b) == holder[b] # Nobody /\ holder[b][1] = u[1]

\* iderw() up to its first sleep(), of u's buffer with B_DIRTY = d.
iderw(u, d) ==
  LET b == buf[u] IN
  /\ panicked' = IF ~holdingsleep(u, b) \/ (valid[b] /\ ~d) THEN "iderw" ELSE panicked
  /\ dirty' = [dirty EXCEPT ![b] = d]
  /\ idequeue' = Append(idequeue, b)
  /\ cmd' = started(b, d)
  /\ Goto(u, "io_asleep")

\* iderw()'s loop after a wakeup.
io(u) ==
  /\ At(u, "io")
  /\ Goto(u, IF valid[buf[u]] /\ ~dirty[buf[u]] THEN "hold" ELSE "io_asleep")
  /\ UNCHANGED <<bufs, holder, lru, disk, buf, panicked>>

\* The drive executes its command and interrupts.
drive ==
  /\ cmd # <<>> /\ ~irq
  /\ irq' = TRUE
  /\ platter' = IF cmd[1].write
                THEN [platter EXCEPT ![cmd[1].block] = cmd[1].data] ELSE platter
  /\ UNCHANGED <<bufs, holder, lru, idequeue, cmd, pc, buf, panicked>>

\* Mutants: the sleeper is not woken; the next request is not started.
ideintr_wakeNobody(b) == UNCHANGED pc
next_commandNone == <<>>

\* wakeup(b) of ideintr().
ideintr_wake(b) == Wake(Nobody, "io", b, "io_asleep", "io")

\* ideintr() starts the request that is first now.
next_command ==
  LET q == Tail(idequeue) IN IF q = <<>> THEN <<>> ELSE idestart(q[1], dirty[q[1]])

\* ideintr(): the active request is done.  After an error the data is not read.
ideintr ==
  LET b == idequeue[1] IN
  /\ irq /\ panicked = "no"
  /\ irq' = FALSE
  /\ idequeue' = Tail(idequeue)
  /\ cmd' = next_command
  /\ \/ /\ ~dirty[b]
        /\ data' = [data EXCEPT ![b] = platter[cmd[1].block]]
     \/ /\ dirty[b] \/ ReadErrors
        /\ UNCHANGED data
  /\ valid' = [valid EXCEPT ![b] = TRUE]
  /\ dirty' = [dirty EXCEPT ![b] = FALSE]
  /\ ideintr_wake(b)
  /\ UNCHANGED <<blockno, refcnt, holder, lru, platter, buf, panicked>>
-----------------------------------------------------------------------------
(* The interface. *)

\* bread() with the buffer locked: read it if it is not B_VALID.
bread(u) ==
  /\ At(u, "bread")
  /\ \/ /\ valid[buf[u]]
        /\ Goto(u, "hold")
        /\ UNCHANGED <<dirty, idequeue, cmd, panicked>>
     \/ /\ ~valid[buf[u]]
        /\ iderw(u, dirty[buf[u]])
  /\ UNCHANGED <<blockno, valid, refcnt, data, holder, lru, irq, platter, buf>>

\* The caller changes the data.
Change(u, v) ==
  /\ At(u, "hold") /\ blockno[buf[u]] \in Written
  /\ data' = [data EXCEPT ![buf[u]] = v]
  /\ Goto(u, "changed")
  /\ UNCHANGED <<blockno, valid, dirty, refcnt, holder, lru, disk, buf, panicked>>

\* bwrite(), after a change or of a buffer that log_write() had pinned.
bwrite(u) ==
  /\ At(u, "changed") \/ (At(u, "hold") /\ dirty[buf[u]])
  /\ iderw(u, TRUE)
  /\ UNCHANGED <<blockno, valid, refcnt, data, holder, lru, irq, platter, buf>>

\* What log_write() does to the buffer.
log_write(u) ==
  /\ At(u, "changed")
  /\ Cardinality({b \in Bufs \ {buf[u]} : dirty[b]}) < MaxPinned
  /\ dirty' = [dirty EXCEPT ![buf[u]] = TRUE]
  /\ Goto(u, "hold")
  /\ UNCHANGED <<blockno, valid, refcnt, data, holder, lru, disk, buf, panicked>>

\* Mutant: the waiting users are not woken.
releasesleep_wakeNobody(u) == Goto(u, "brelse")

\* wakeup(lk) of releasesleep().
releasesleep_wake(u) == Wake(u, "brelse", buf[u], "lk_asleep", "acquiresleep")

\* brelse(): releasesleep() ...
releasesleep(u) ==
  /\ At(u, "hold")
  /\ holder' = [holder EXCEPT ![buf[u]] = Nobody]
  /\ releasesleep_wake(u)
  /\ UNCHANGED <<bufs, lru, disk, buf, panicked>>

\* b->refcnt-- of brelse().
dropped(b) == [refcnt EXCEPT ![b] = @ - 1]

\* The list with b taken out and put in front.
moved(b) ==
  LET k == CHOOSE i \in Bufs : lru[i] = b
  IN  [i \in Bufs |-> IF i = 1 THEN b ELSE IF i <= k THEN lru[i - 1] ELSE lru[i]]

\* ... and then, under bcache.lock, the reference count and the list.
brelse(u) ==
  LET b == buf[u] IN
  /\ At(u, "brelse")
  /\ refcnt' = dropped(b)
  /\ lru' = IF refcnt[b] = 1 THEN moved(b) ELSE lru
  /\ Goto(u, "idle")
  /\ buf' = [buf EXCEPT ![u] = 1]      \* dead
  /\ UNCHANGED <<blockno, valid, dirty, data, holder, disk, panicked>>
-----------------------------------------------------------------------------
Work(u) ==
  \/ acquiresleep(u) \/ bread(u) \/ io(u) \/ bwrite(u) \/ log_write(u)
  \/ releasesleep(u) \/ brelse(u)

Next ==
  \/ \E u \in Users :
       \/ \E n \in Blocks : bget(u, n)
       \/ \E v \in Vals : Change(u, v)
       \/ Work(u)
  \/ drive
  \/ ideintr

Spec == Init /\ [][Next]_vars

\* A user woken in iderw() runs, the drive executes its command and its
\* interrupt is taken.  Nothing makes a process read a block or give it back.
FairSpec ==
  /\ Spec
  /\ \A u \in Users : WF_vars(io(u))
  /\ WF_vars(drive) /\ WF_vars(ideintr)
-----------------------------------------------------------------------------
(* Properties. *)

\* Types of the buffers, the queue and the drive; no reference count is
\* decremented below 0.
TypeOK ==
  /\ blockno \in [Bufs -> Blocks \union {NoBlock}]
  /\ valid \in [Bufs -> BOOLEAN] /\ dirty \in [Bufs -> BOOLEAN]
  /\ refcnt \in [Bufs -> Nat]
  /\ data \in [Bufs -> Vals]
  /\ holder \in [Bufs -> Users \union {Nobody}]
  /\ lru \in [Bufs -> Bufs]
  /\ idequeue \in Seq(Bufs)
  /\ cmd \in Seq([block : Blocks, write : BOOLEAN, data : Vals]) /\ Len(cmd) <= 1
  /\ irq \in BOOLEAN
  /\ platter \in [Blocks -> Vals]
  /\ pc \in [Users -> PCs] /\ buf \in [Users -> Bufs]
  /\ panicked \in {"no", "bget", "iderw"}

\* The users between bget() and the end of brelse() of buffer b.
Having(b) == {u \in Users : pc[u] # "idle" /\ buf[u] = b}

\* The pinned buffers that nobody has, and the users that have or wait for one.
Kept == {b \in Bufs : dirty[b] /\ Having(b) = {}}
Busy == {u \in Users : pc[u] # "idle"}

\* iderw()'s panics ("buf not locked", "nothing to do") are never reached.  bget()
\* panics for want of a buffer only if the kept buffers and the other users are as
\* many as all buffers.
NoPanic ==
  /\ panicked # "iderw"
  /\ panicked = "bget" => Busy # Users /\ NBUF <= Cardinality(Kept) + Cardinality(Busy)

\* A block is in at most one buffer, though bget() gives up bcache.lock before
\* the buffer is locked and read.
OneBuffer ==
  \A b, c \in Bufs : blockno[b] = blockno[c] /\ b # c => blockno[b] = NoBlock

\* A reference count counts the users that have or wait for the buffer, from
\* the unlocked gap between bget() and acquiresleep() to the one in brelse().
CountsUsers == \A b \in Bufs : refcnt[b] = Cardinality(Having(b))

\* The cache: one buffer for a block, references that count its users through
\* every gap between the locks, no panic of iderw(), and one of bget() only when
\* the buffers are really used up.
CacheInv == TypeOK /\ NoPanic /\ OneBuffer /\ CountsUsers

\* The request queue: every queued buffer is queued once, locked, and its owner
\* sleeps until the interrupt; the drive works on the first of them.
QueueOwned ==
  /\ \A i, j \in 1..Len(idequeue) : idequeue[i] = idequeue[j] => i = j
  /\ \A i \in 1..Len(idequeue) :
       \E u \in Users : buf[u] = idequeue[i] /\ holder[buf[u]] = u /\ pc[u] = "io_asleep"
  /\ cmd = <<>> <=> idequeue = <<>>
  /\ cmd # <<>> => cmd[1].block = blockno[idequeue[1]]

\* A user asleep for a buffer has not missed its wakeup: for the lock, some
\* user has it; for the disk, the request is still queued.
NoMissedWakeup ==
  \A u \in Users :
    /\ pc[u] = "lk_asleep" => holder[buf[u]] # Nobody
    /\ pc[u] = "io_asleep" => \E i \in 1..Len(idequeue) : idequeue[i] = buf[u]

\* The buffer block n is in, and the refinement mapping to BlockStore.
BufOf(n) == CHOOSE b \in Bufs : blockno[b] = n
InBuf(n) == \E b \in Bufs : blockno[b] = n
Store == INSTANCE BlockStore WITH
  contents <- [n \in Blocks |-> IF InBuf(n) /\ valid[BufOf(n)]
                                THEN data[BufOf(n)] ELSE platter[n]],
  owner <- [n \in Blocks |-> IF InBuf(n) THEN holder[BufOf(n)] ELSE Nobody]

\* Buffers, recycling, sleep-locks, the request queue and the interrupt amount
\* to a store in which every block has one contents and one user at a time.
IsBlockStore == Store!Spec

\* A B_VALID buffer holds what was read from the disk or written since.
ValidWasRead ==
  \A b \in Bufs : valid[b] /\ ~dirty[b] /\ holder[b] = Nobody
    => data[b] = platter[blockno[b]]

\* The disk: iderw(), idestart() and ideintr() agree on the queue, no sleeper
\* has missed its wakeup, and what they mark valid came from the disk.
QueueInv == QueueOwned /\ NoMissedWakeup /\ ValidWasRead

\* A disk request is answered, unless bget() stops the kernel meanwhile.
RequestAnswered ==
  \A u \in Users : pc[u] = "io_asleep" ~> pc[u] = "hold" \/ panicked = "bget"
=============================================================================

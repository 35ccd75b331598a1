--------------------------------- MODULE Log ---------------------------------
(***************************************************************************)
(* The write-ahead log of xv6: os/5/log.c, over the buffer cache (bio.c)   *)
(* and the disk.                                                           *)
(*                                                                         *)
(* The home blocks are cached: cache[b] is the data of the buffer holding  *)
(* block b.  Log blocks and the log header are only ever written through   *)
(* bwrite(), so their cached copies equal the disk and are not kept apart. *)
(* A disk write of one block is atomic (the IDE driver writes one sector   *)
(* per block); everything but disk, logdata and head is lost in a crash.   *)
(* sleep()/wakeup() are atomic with respect to log.lock here; ProcTable    *)
(* models how proc.c achieves that.                                        *)
(***************************************************************************)
EXTENDS Integers, Sequences, FiniteSets

CONSTANTS
  Procs,        \* processes making file system calls
  Blocks,       \* home block numbers
  Vals,         \* contents of a block
  Zero,         \* the contents mkfs gives the log blocks
  NotCached,    \* no buffer holds the block
  Nobody,       \* no process holds the buffer's sleep-lock
  MAXOPBLOCKS,  \* blocks begin_op() reserves for one call (param.h)
  LOGSIZE,      \* limit on log.lh.n (param.h)
  nlog,         \* blocks of the on-disk log, header included (sb.nlog)
  OpBlocks,     \* distinct blocks one call really writes at most
  MaxCrashes    \* bound on the number of crashes

ASSUME DataAssumption ==
  /\ Zero \in Vals
  /\ NotCached \notin Vals
  /\ Nobody \notin Procs
  /\ IsFiniteSet(Procs)
  /\ IsFiniteSet(Blocks)

ASSUME SizeAssumption ==
  /\ MAXOPBLOCKS \in Nat \ {0}
  /\ OpBlocks \in 1..MAXOPBLOCKS
  /\ LOGSIZE \in Nat /\ LOGSIZE >= MAXOPBLOCKS
  /\ nlog \in Nat /\ nlog <= LOGSIZE + 1 /\ nlog > 1
  /\ MaxCrashes \in Nat

VARIABLES
  disk,         \* home blocks on disk
  logdata,      \* data blocks of the on-disk log
  head,         \* on-disk log header: the block numbers, <<>> if n = 0
  cache,        \* buffer cache contents of the home blocks
  dirty,        \* B_DIRTY of the buffer holding the block
  holder,       \* owner of that buffer's sleep-lock
  lh,           \* log.lh: block numbers in the in-memory header
  outstanding,  \* log.outstanding
  committing,   \* log.committing
  tail,         \* loop counter of write_log() and install_trans()
  pc,           \* where each process is
  mine,         \* blocks a process has logged in its current call
  boot,         \* progress of initlog() after a (re)boot
  panicked,     \* panic() was called
  crashes       \* number of crashes so far

durables == <<disk, logdata, head>>
loglocked == <<lh, outstanding, committing>>
buffers == <<cache, dirty, holder>>
vars == <<disk, logdata, head, cache, dirty, holder, lh, outstanding,
          committing, tail, pc, mine, boot, panicked, crashes>>

\* The log has nlog blocks on disk, the first of which is the header.
LogSlots == 1 .. nlog - 1

PCs == {"idle", "begin_op", "sleeping", "op", "log_write",
        "write_log", "write_head", "install_trans", "clear", "end_op"}

Logged == {lh[i] : i \in 1..Len(lh)}

\* Data a bread() of block b returns.
Data(b) == IF cache[b] = NotCached THEN disk[b] ELSE cache[b]

Running(p, label) == pc[p] = label /\ boot = "up" /\ ~panicked

Goto(p, label) == pc' = [pc EXCEPT ![p] = label]

\* Mutant: the waiting processes are not woken.
WakeupLogNobody(p, label) == Goto(p, label)

\* wakeup(&log): every process sleeping in begin_op() runs its loop again;
\* p itself goes to label.
WakeupLog(p, label) ==
  pc' = [q \in Procs |-> IF q = p THEN label
                         ELSE IF pc[q] = "sleeping" THEN "begin_op" ELSE pc[q]]

\* Mutant: no log absorption.
with_blockAppended(b) == Append(lh, b)

\* The header after log_write() of block b: absorb or append.
with_block(b) == IF b \in Logged THEN lh ELSE Append(lh, b)

\* Mutant: the buffer is not pinned.
pinnedNot(b) == dirty

\* B_DIRTY after log_write() of block b, which prevents eviction.
pinned(b) == [dirty EXCEPT ![b] = TRUE]

\* Mutant: the header on disk is left as it is.
header_imageOld == head

\* What write_head() puts on disk.
header_image == lh

\* Mutant: the loops stop one block early.
LoopAgainShort == tail' < Len(lh) - 1

\* The loop condition of write_log() and install_trans().
LoopAgain == tail' < Len(lh)
-----------------------------------------------------------------------------
\* The disk as mkfs leaves it, and a machine about to run initlog().
Init ==
  /\ disk \in [Blocks -> Vals]
  /\ logdata = [i \in LogSlots |-> Zero]
  /\ head = <<>>
  /\ cache = [b \in Blocks |-> NotCached]
  /\ dirty = [b \in Blocks |-> FALSE]
  /\ holder = [b \in Blocks |-> Nobody]
  /\ lh = <<>>
  /\ outstanding = 0
  /\ committing = FALSE
  /\ tail = 0
  /\ pc = [p \in Procs |-> "idle"]
  /\ mine = [p \in Procs |-> {}]
  /\ boot = "read_head"
  /\ panicked = FALSE
  /\ crashes = 0
-----------------------------------------------------------------------------
(* A file system call. *)

\* A process enters a system call that uses the log.
Syscall(p) ==
  /\ Running(p, "idle")
  /\ Goto(p, "begin_op")
  /\ UNCHANGED <<durables, buffers, loglocked, tail, mine, boot, panicked, crashes>>

\* Mutant: begin_op() does not count the call it admits.
MustWaitOffByOne == committing \/ Len(lh) + outstanding * MAXOPBLOCKS > LOGSIZE

\* Mutant: begin_op() admits calls while a commit is under way.
MustWaitRoomOnly == Len(lh) + (outstanding + 1) * MAXOPBLOCKS > LOGSIZE

\* The two reasons begin_op() has to wait.
MustWait ==
  \/ committing
  \/ Len(lh) + (outstanding + 1) * MAXOPBLOCKS > LOGSIZE

\* One pass of begin_op()'s loop, under log.lock.
begin_op(p) ==
  /\ Running(p, "begin_op")
  /\ \/ /\ MustWait
        /\ Goto(p, "sleeping")
        /\ UNCHANGED <<outstanding, mine>>
     \/ /\ ~MustWait
        /\ outstanding' = outstanding + 1
        /\ mine' = [mine EXCEPT ![p] = {}]
        /\ Goto(p, "op")
  /\ UNCHANGED <<durables, buffers, lh, committing, tail, boot, panicked, crashes>>

\* The caller's half of a logged write: bread(), change b->data, and the two
\* checks log_write() makes before it takes log.lock.
Modify(p, b, v) ==
  /\ Running(p, "op")
  /\ holder[b] = Nobody
  /\ b \in mine[p] \/ Cardinality(mine[p]) < OpBlocks
  /\ cache' = [cache EXCEPT ![b] = v]
  /\ holder' = [holder EXCEPT ![b] = p]
  /\ panicked' = \/ Len(lh) >= LOGSIZE
                 \/ Len(lh) >= nlog - 1
                 \/ outstanding < 1
  /\ Goto(p, "log_write")
  /\ UNCHANGED <<durables, dirty, loglocked, tail, mine, boot, crashes>>

\* The locked half of log_write(), of the buffer p holds: absorb or append,
\* pin the buffer; then the caller's brelse().
log_write(p, b) ==
  /\ Running(p, "log_write")
  /\ holder[b] = p
  /\ lh' = with_block(b)
  /\ dirty' = pinned(b)
  /\ holder' = [holder EXCEPT ![b] = Nobody]
  /\ mine' = [mine EXCEPT ![p] = @ \union {b}]
  /\ Goto(p, "op")
  /\ UNCHANGED <<durables, cache, outstanding, committing, tail, boot, panicked, crashes>>

\* The first critical section of end_op(), and commit()'s test of log.lh.n.
end_op(p) ==
  /\ Running(p, "op")
  /\ outstanding' = outstanding - 1
  /\ panicked' = committing
  /\ \/ /\ outstanding' = 0
        /\ committing' = TRUE
        /\ Goto(p, IF lh = <<>> THEN "end_op" ELSE "write_log")
     \/ /\ outstanding' # 0
        /\ WakeupLog(p, "idle")
        /\ UNCHANGED committing
  /\ tail' = 0
  /\ UNCHANGED <<durables, buffers, lh, mine, boot, crashes>>
-----------------------------------------------------------------------------
(* commit(), run by the last call of the group without any lock. *)

\* One iteration of write_log(): copy a cached block into the log.
write_log(p) ==
  /\ Running(p, "write_log")
  /\ holder[lh[tail + 1]] = Nobody
  /\ logdata' = [logdata EXCEPT ![tail + 1] = Data(lh[tail + 1])]
  /\ cache' = [cache EXCEPT ![lh[tail + 1]] = Data(lh[tail + 1])]
  /\ tail' = tail + 1
  /\ Goto(p, IF LoopAgain THEN "write_log" ELSE "write_head")
  /\ UNCHANGED <<disk, head, dirty, holder, loglocked, mine, boot, panicked, crashes>>

\* write_head(): the point at which the group commits.
write_head(p) ==
  /\ Running(p, "write_head")
  /\ head' = header_image
  /\ tail' = 0
  /\ Goto(p, "install_trans")
  /\ UNCHANGED <<disk, logdata, buffers, loglocked, mine, boot, panicked, crashes>>

\* One iteration of install_trans(): copy a log block home and bwrite() it,
\* which also clears B_DIRTY.
Install ==
  LET b == lh[tail + 1] IN
    /\ holder[b] = Nobody
    /\ cache' = [cache EXCEPT ![b] = logdata[tail + 1]]
    /\ disk' = [disk EXCEPT ![b] = logdata[tail + 1]]
    /\ dirty' = [dirty EXCEPT ![b] = FALSE]
    /\ tail' = tail + 1

install_trans(p) ==
  /\ Running(p, "install_trans")
  /\ Install
  /\ Goto(p, IF LoopAgain THEN "install_trans" ELSE "clear")
  /\ UNCHANGED <<logdata, head, holder, loglocked, mine, boot, panicked, crashes>>

\* log.lh.n = 0 and the write_head() that erases the transaction.
clear_log(p) ==
  /\ Running(p, "clear")
  /\ lh' = <<>>
  /\ head' = <<>>
  /\ Goto(p, "end_op")
  /\ UNCHANGED <<disk, logdata, buffers, outstanding, committing, tail, mine, boot, panicked, crashes>>

\* The second critical section of end_op().
end_commit(p) ==
  /\ Running(p, "end_op")
  /\ committing' = FALSE
  /\ WakeupLog(p, "idle")
  /\ UNCHANGED <<durables, buffers, lh, outstanding, tail, mine, boot, panicked, crashes>>
-----------------------------------------------------------------------------
(* The buffer cache and the machine. *)

\* bget() recycles a buffer nobody holds and that is not B_DIRTY.
Recycle(b) ==
  /\ ~panicked
  /\ cache[b] # NotCached
  /\ holder[b] = Nobody
  /\ ~dirty[b]
  /\ cache' = [cache EXCEPT ![b] = NotCached]
  /\ UNCHANGED <<durables, dirty, holder, loglocked, tail, pc, mine, boot, panicked, crashes>>

\* Power failure, or a reset after a panic: memory is gone.
Crash ==
  /\ crashes < MaxCrashes
  /\ crashes' = crashes + 1
  /\ cache' = [b \in Blocks |-> NotCached]
  /\ dirty' = [b \in Blocks |-> FALSE]
  /\ holder' = [b \in Blocks |-> Nobody]
  /\ lh' = <<>>
  /\ outstanding' = 0
  /\ committing' = FALSE
  /\ tail' = 0
  /\ pc' = [p \in Procs |-> "idle"]
  /\ mine' = [p \in Procs |-> {}]
  /\ boot' = "read_head"
  /\ panicked' = FALSE
  /\ UNCHANGED durables

\* recover_from_log(), run by the first process before any file system call.
read_head ==
  /\ boot = "read_head"
  /\ lh' = head
  /\ tail' = 0
  /\ boot' = IF head = <<>> THEN "clear" ELSE "install_trans"
  /\ UNCHANGED <<durables, buffers, outstanding, committing, pc, mine, panicked, crashes>>

recover_install ==
  /\ boot = "install_trans"
  /\ Install
  /\ boot' = IF LoopAgain THEN "install_trans" ELSE "clear"
  /\ UNCHANGED <<logdata, head, holder, loglocked, pc, mine, panicked, crashes>>

recover_clear ==
  /\ boot = "clear"
  /\ lh' = <<>>
  /\ head' = <<>>
  /\ boot' = "up"
  /\ UNCHANGED <<disk, logdata, buffers, outstanding, committing, tail, pc, mine, panicked, crashes>>
-----------------------------------------------------------------------------
Commit(p) ==
  write_log(p) \/ write_head(p) \/ install_trans(p) \/ clear_log(p) \/ end_commit(p)

Recover == read_head \/ recover_install \/ recover_clear

Next ==
  \/ \E p \in Procs : Syscall(p) \/ begin_op(p) \/ end_op(p) \/ Commit(p)
  \/ \E p \in Procs, b \in Blocks : log_write(p, b)
  \/ \E p \in Procs, b \in Blocks, v \in Vals : Modify(p, b, v)
  \/ \E b \in Blocks : Recycle(b)
  \/ Crash
  \/ Recover

Spec == Init /\ [][Next]_vars

\* A running process is scheduled again (round-robin scheduler(), timer
\* interrupts), a call that is admitted reaches its end_op(), and the disk
\* answers.  Nothing makes a process start a call or the machine crash.
FairSpec ==
  /\ Spec
  /\ \A p \in Procs : /\ WF_vars(begin_op(p))
                       /\ \A b \in Blocks : WF_vars(log_write(p, b))
                       /\ WF_vars(Commit(p))
  /\ \A p \in Procs : SF_vars(end_op(p))
  /\ WF_vars(Recover)
-----------------------------------------------------------------------------
(* Properties. *)

\* Types of the log, the buffers and the processes: log.outstanding in
\* particular is never decremented below 0 by a second end_op().
TypeOK ==
  /\ disk \in [Blocks -> Vals]
  /\ logdata \in [LogSlots -> Vals]
  /\ head \in Seq(Blocks)
  /\ cache \in [Blocks -> Vals \union {NotCached}]
  /\ dirty \in [Blocks -> BOOLEAN]
  /\ holder \in [Blocks -> Procs \union {Nobody}]
  /\ lh \in Seq(Blocks)
  /\ outstanding \in Nat
  /\ committing \in BOOLEAN
  /\ tail \in Nat
  /\ pc \in [Procs -> PCs]
  /\ mine \in [Procs -> SUBSET Blocks]
  /\ boot \in {"read_head", "install_trans", "clear", "up"}
  /\ panicked \in BOOLEAN
  /\ crashes \in Nat

\* None of the panics of log_write() ("too big a transaction", "log_write
\* outside of trans") and end_op() ("log.committing") is reached: what
\* begin_op() reserves is enough for every admitted call, whatever the other
\* calls do between the check and the append.
NoPanic == ~panicked

\* log.lh.n never exceeds log.lh.block[] or the on-disk log, although
\* log_write() checks the room before it takes log.lock.
LogFits == Len(lh) <= LOGSIZE /\ Len(lh) <= nlog - 1

\* Processes between begin_op() and end_op(), and processes in commit().
Active == {p \in Procs : pc[p] \in {"op", "log_write"}}
Committers == {p \in Procs : pc[p] \in {"write_log", "write_head", "install_trans", "clear", "end_op"}}

\* No call's updates are half committed: once a process is past the decision
\* to commit, no call is between begin_op() and end_op(), exactly one process
\* commits, and the header it commits does not change under it.
CommitAlone ==
  /\ committing <=> Committers # {}
  /\ \A p, q \in Committers : p = q
  /\ committing => Active = {}

\* A buffer that bget() may recycle agrees with the disk: no update is lost
\* by recycling, before, during or after a commit or a recovery.
RecycleSafe ==
  \A b \in Blocks :
    cache[b] # NotCached /\ holder[b] = Nobody /\ ~dirty[b] => cache[b] = disk[b]

\* What admitted calls may still append: one credit for each block of the
\* MAXOPBLOCKS that begin_op() reserved for a call of A and log_write() has
\* not used, m[p] being the blocks call p has logged.
CreditOf(A, m) ==
  {c \in A \X (1..MAXOPBLOCKS) : c[2] > Cardinality(m[c[1]])}

Credit == CreditOf(Active, mine)

\* The reservation discipline of begin_op()/log_write()/end_op(): the log has
\* room for all outstanding credit at every moment, log.outstanding counts the
\* admitted calls, and a call's own blocks stay in the log until it ends, so
\* that rewriting one of them is absorbed and costs no credit.
Reservation ==
  /\ outstanding = Cardinality(Active)
  /\ Len(lh) + Cardinality(Credit) <= LOGSIZE
  /\ \A p \in Active :
       /\ mine[p] \subseteq Logged
       /\ Cardinality(mine[p]) <= OpBlocks
       /\ \A b \in Blocks :
            holder[b] = p => b \in mine[p] \/ Cardinality(mine[p]) < OpBlocks

\* The loops of write_log() and install_trans() stay inside the header, and
\* the header on disk fits the log.
LoopsInRange ==
  /\ Len(head) <= LOGSIZE /\ Len(head) <= nlog - 1
  /\ boot = "install_trans" => tail < Len(lh)
  /\ \A p \in Procs : pc[p] \in {"write_log", "install_trans"} => tail < Len(lh)
  /\ \A p \in Procs : pc[p] = "write_head" => 0 < Len(lh)

\* A process holds one home buffer, from the change to the end of log_write().
OneBuffer ==
  \A b, c \in Blocks : holder[b] # Nobody =>
    /\ pc[holder[b]] = "log_write"
    /\ holder[c] = holder[b] => c = b

\* Nothing runs before recovery is over.
BootAlone ==
  boot # "up" => outstanding = 0 /\ \A p \in Procs : pc[p] = "idle"

\* The inductive invariant behind TypeOK, NoPanic and LogFits.
LogInv ==
  /\ TypeOK /\ NoPanic /\ LogFits /\ CommitAlone
  /\ Reservation /\ OneBuffer /\ LoopsInRange /\ BootAlone

\* What the sizes have to satisfy: a call that writes OpBlocks blocks must fit
\* into what is left when begin_op() admits it at the limit.  The sizes of
\* param.h and mkfs.c (MAXOPBLOCKS 10, LOGSIZE 30, nlog 30) satisfy it up to
\* OpBlocks = 8; the largest call writes 7.
RoomEnough == LOGSIZE - MAXOPBLOCKS + OpBlocks < nlog - 1

\* Contents block b has after recovery from the disk as it is now.
Recovered(b) ==
  LET slots == {i \in 1..Len(head) : head[i] = b}
  IN  IF slots = {} THEN disk[b]
      ELSE logdata[CHOOSE i \in slots : \A j \in slots : j <= i]

\* What the running system sees; during recovery, what it is about to see.
View(b) == IF boot = "up" THEN Data(b) ELSE Recovered(b)

\* The refinement mapping to the abstract logging layer.
Abstract == INSTANCE TransDisk WITH
  current <- [b \in Blocks |-> View(b)],
  durable <- [b \in Blocks |-> Recovered(b)],
  active <- Active

\* The logging layer keeps the promise of TransDisk: updates reach the disk in
\* whole groups of whole system calls, whatever the moment of a crash, crashes
\* in the middle of recovery included.
Refinement == Abstract!Spec

\* When no call is active and no commit is under way, everything finished
\* calls wrote survives a crash: end_op() of the last call does not return
\* before its group is durable.
QuiescentDurable ==
  boot = "up" /\ Active = {} /\ ~committing
    => \A b \in Blocks : View(b) = Recovered(b)

\* A commit that started ends, or the machine crashes: the committer never
\* waits for something only a call that waits for it could do.
CommitEnds == committing ~> ~committing

\* A process waiting in begin_op() is not left asleep for ever: the calls it
\* waits for end, and their end_op() wakes it.
WaiterWoken == \A p \in Procs : pc[p] = "sleeping" ~> pc[p] # "sleeping"

\* Commits end and waiters are woken: begin_op() and end_op() cannot bring the
\* file system to a standstill.
LogProgress == CommitEnds /\ WaiterWoken
=============================================================================

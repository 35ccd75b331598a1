--------------------------------- MODULE Pipe ---------------------------------
(***************************************************************************)
(* One pipe of xv6: os/5/pipe.c, with the reference counts of its two ends *)
(* (file.c) and sleep()/wakeup()/kill() as proc.c gives them.              *)
(*                                                                         *)
(* p->lock is explicit.  sleep() releases it and marks the process asleep  *)
(* in one step, under ptable.lock; kill() needs only ptable.lock, so it    *)
(* can come between a process's test of p->killed and its sleep().  Every  *)
(* process has its own descriptor of one end, as after fork().  nread and  *)
(* nwrite are unsigned integers of WORD values and wrap around.            *)
(***************************************************************************)
EXTENDS Integers, Sequences, FiniteSets

CONSTANTS
  Readers, Writers,   \* processes with the read end, the write end open
  Bytes, Junk,        \* what a byte may be; what kfree() leaves in a page
  Nobody,             \* p->lock is free
  PIPESIZE,
  WORD,               \* number of values of an unsigned int
  MaxN                \* bound on the n of a read or write

ASSUME PipeAssumption ==
  /\ IsFiniteSet(Readers) /\ IsFiniteSet(Writers)
  /\ Readers # {} /\ Writers # {}
  /\ Readers \intersect Writers = {}
  /\ Nobody \notin Readers \union Writers
  /\ Junk \in Bytes
  /\ PIPESIZE \in Nat \ {0}
  /\ MaxN \in Nat \ {0}
  /\ WORD \in Nat
  /\ WORD % PIPESIZE = 0 /\ WORD > PIPESIZE

Procs == Readers \union Writers

VARIABLES
  data, nread, nwrite, readopen, writeopen,   \* struct pipe
  freed,     \* kfree() of the struct pipe
  lock,      \* holder of p->lock
  ref,       \* f->ref of the two ends
  killed,    \* p->killed of each process
  pc, n, i,  \* where a process is, its argument n and loop counter i
  eof,       \* a reader's last call returned 0
  got        \* the byte read last

pipe == <<data, nread, nwrite>>
ends == <<readopen, writeopen, freed>>
vars == <<data, nread, nwrite, readopen, writeopen, freed, lock, ref, killed,
          pc, n, i, eof, got>>

PCs == {"user", "r_acquire", "r_test", "r_sleep", "r_asleep", "r_copy",
        "w_acquire", "w_test", "w_sleep", "w_asleep", "pipeclose", "closed"}
InPipe == PCs \ {"user", "closed"}

Goto(p, label) == pc' = [pc EXCEPT ![p] = label]

inc(u) == (u + 1) % WORD
empty == nread = nwrite

\* Mutant: the comparison does not wrap like the counters do.
fullNoWrap == nwrite = nread + PIPESIZE

full == nwrite = (nread + PIPESIZE) % WORD

\* Mutant: the processes asleep stay asleep.
wokenNobody(label) == {}

\* The processes a wakeup() moves on: those asleep on the channel.
woken(label) == {p \in Procs : pc[p] = label}

\* p goes to label; wakeup(&p->nread) or wakeup(&p->nwrite).
WakeReaders(p, label) ==
  pc' = [q \in Procs |-> IF q = p THEN label
                         ELSE IF q \in woken("r_asleep") THEN "r_acquire" ELSE pc[q]]
WakeWriters(p, label) ==
  pc' = [q \in Procs |-> IF q = p THEN label
                         ELSE IF q \in woken("w_asleep") THEN "w_acquire" ELSE pc[q]]
-----------------------------------------------------------------------------
\* After pipealloc() and the fork()s that share it.
Init ==
  /\ data = [k \in 0 .. PIPESIZE - 1 |-> Junk]
  /\ nread = 0 /\ nwrite = 0
  /\ readopen = TRUE /\ writeopen = TRUE /\ freed = FALSE
  /\ lock = Nobody
  /\ ref = [r |-> Cardinality(Readers), w |-> Cardinality(Writers)]
  /\ killed = [p \in Procs |-> FALSE]
  /\ pc = [p \in Procs |-> "user"]
  /\ n = [p \in Procs |-> 0] /\ i = [p \in Procs |-> 0]
  /\ eof = [p \in Readers |-> FALSE]
  /\ got = Junk

\* A process calls read() or write() for m bytes.
Call(p, m) ==
  /\ pc[p] = "user" /\ ~killed[p]
  /\ n' = [n EXCEPT ![p] = m]
  /\ i' = [i EXCEPT ![p] = 0]
  /\ eof' = [q \in Readers |-> q # p /\ eof[q]]
  /\ Goto(p, IF p \in Readers THEN "r_acquire" ELSE "w_acquire")
  /\ UNCHANGED <<pipe, ends, lock, ref, killed, got>>

\* acquire(&p->lock), at the start of a call or at the end of sleep().
acquire(p) ==
  /\ lock = Nobody
  /\ lock' = p
  /\ \/ pc[p] = "r_acquire" /\ Goto(p, "r_test")
     \/ pc[p] = "w_acquire" /\ Goto(p, "w_test")
  /\ UNCHANGED <<pipe, ends, ref, killed, n, i, eof, got>>

\* The call is over and returns r: n and i are dead.
Return(p, r) ==
  /\ lock' = Nobody
  /\ eof' = [q \in Readers |-> IF q = p THEN r = 0 ELSE eof[q]]
  /\ n' = [n EXCEPT ![p] = 0]
  /\ i' = [i EXCEPT ![p] = 0]
-----------------------------------------------------------------------------
(* piperead() *)

\* Mutant: an empty pipe is the end of the stream even with writers left.
r_mustwaitNot == FALSE

\* The condition of the waiting loop.
r_mustwait == empty /\ writeopen

r_test(p) ==
  /\ pc[p] = "r_test"
  /\ \/ ~r_mustwait /\ Goto(p, "r_copy") /\ UNCHANGED <<lock, n, i, eof>>
     \/ r_mustwait /\ killed[p] /\ Return(p, -1) /\ Goto(p, "user")
     \/ r_mustwait /\ ~killed[p] /\ Goto(p, "r_sleep") /\ UNCHANGED <<lock, n, i, eof>>
  /\ UNCHANGED <<pipe, ends, ref, killed, got>>

\* sleep(&p->nread, &p->lock)
r_sleep(p) ==
  /\ pc[p] = "r_sleep"
  /\ lock' = Nobody
  /\ Goto(p, "r_asleep")
  /\ UNCHANGED <<pipe, ends, ref, killed, n, i, eof, got>>

\* One iteration of the copy loop.
r_copy(p) ==
  /\ pc[p] = "r_copy" /\ i[p] < n[p] /\ ~empty
  /\ got' = data[nread % PIPESIZE]
  /\ nread' = inc(nread)
  /\ i' = [i EXCEPT ![p] = @ + 1]
  /\ UNCHANGED <<data, nwrite, ends, lock, ref, killed, pc, n, eof>>

r_return(p) ==
  /\ pc[p] = "r_copy" /\ (i[p] = n[p] \/ empty)
  /\ WakeWriters(p, "user")
  /\ Return(p, i[p])
  /\ UNCHANGED <<pipe, ends, ref, killed, got>>
-----------------------------------------------------------------------------
(* pipewrite() *)

\* One iteration: the buffer is full, or a byte b is stored.
w_full(p) ==
  /\ pc[p] = "w_test" /\ i[p] < n[p] /\ full
  /\ \/ /\ ~readopen \/ killed[p]
        /\ Return(p, -1)
        /\ Goto(p, "user")
     \/ /\ readopen /\ ~killed[p]
        /\ WakeReaders(p, "w_sleep")
        /\ UNCHANGED <<lock, n, i, eof>>
  /\ UNCHANGED <<pipe, ends, ref, killed, got>>

\* sleep(&p->nwrite, &p->lock)
w_sleep(p) ==
  /\ pc[p] = "w_sleep"
  /\ lock' = Nobody
  /\ Goto(p, "w_asleep")
  /\ UNCHANGED <<pipe, ends, ref, killed, n, i, eof, got>>

w_store(p, b) ==
  /\ pc[p] = "w_test" /\ i[p] < n[p] /\ ~full
  /\ data' = [data EXCEPT ![nwrite % PIPESIZE] = b]
  /\ nwrite' = inc(nwrite)
  /\ i' = [i EXCEPT ![p] = @ + 1]
  /\ UNCHANGED <<nread, ends, lock, ref, killed, pc, n, eof, got>>

w_return(p) ==
  /\ pc[p] = "w_test" /\ i[p] = n[p]
  /\ WakeReaders(p, "user")
  /\ Return(p, n[p])
  /\ UNCHANGED <<pipe, ends, ref, killed, got>>
-----------------------------------------------------------------------------
(* Closing and killing *)

End(p) == IF p \in Readers THEN "r" ELSE "w"

\* Mutant: every fileclose() closes the pipe's end.
last_refAlways(p) == TRUE

\* fileclose() drops the last reference to the end.
last_ref(p) == ref[End(p)] = 1

\* fileclose() under ftable.lock.
fileclose(p) ==
  /\ pc[p] = "user"
  /\ ref' = [ref EXCEPT ![End(p)] = @ - 1]
  /\ Goto(p, IF last_ref(p) THEN "pipeclose" ELSE "closed")
  /\ UNCHANGED <<pipe, ends, lock, killed, n, i, eof, got>>

unused == ~readopen' /\ ~writeopen'

\* pipeclose(), called without ftable.lock.
pipeclose(p) ==
  /\ pc[p] = "pipeclose" /\ lock = Nobody
  /\ \/ /\ p \in Writers
        /\ writeopen' = FALSE /\ UNCHANGED readopen
        /\ WakeReaders(p, "closed")
     \/ /\ p \in Readers
        /\ readopen' = FALSE /\ UNCHANGED writeopen
        /\ WakeWriters(p, "closed")
  /\ freed' = unused
  /\ UNCHANGED <<pipe, lock, ref, killed, n, i, eof, got>>

\* kill(): mark the process and wake it if it is asleep.
kill(p) ==
  /\ ~killed[p] /\ pc[p] # "closed"
  /\ killed' = [killed EXCEPT ![p] = TRUE]
  /\ pc' = [pc EXCEPT ![p] = CASE @ = "r_asleep" -> "r_acquire"
                               [] @ = "w_asleep" -> "w_acquire"
                               [] OTHER -> @]
  /\ UNCHANGED <<pipe, ends, lock, ref, n, i, eof, got>>
-----------------------------------------------------------------------------
Work(p) ==
  \/ acquire(p) \/ r_test(p) \/ r_sleep(p) \/ r_copy(p) \/ r_return(p)
  \/ w_full(p) \/ w_sleep(p) \/ w_return(p)
  \/ \E b \in Bytes : w_store(p, b)
  \/ pipeclose(p)

Next ==
  \E p \in Procs :
    \/ \E m \in 1..MaxN : Call(p, m)
    \/ Work(p) \/ fileclose(p) \/ kill(p)

Spec == Init /\ [][Next]_vars

\* A process inside a call runs (scheduler() is round-robin); p->lock is a
\* spin lock, so acquire() is only strongly fair.  A killed process returns to
\* user space and closes its files in exit().  Nothing else makes a process
\* read, write or close.
FairSpec ==
  /\ Spec
  /\ \A p \in Procs : SF_vars(Work(p)) /\ WF_vars(killed[p] /\ fileclose(p))
-----------------------------------------------------------------------------
(* Properties. *)

\* Types of the pipe and its callers; the counters keep to an unsigned int.
TypeOK ==
  /\ data \in [0 .. PIPESIZE - 1 -> Bytes]
  /\ nread \in 0 .. WORD - 1 /\ nwrite \in 0 .. WORD - 1
  /\ readopen \in BOOLEAN /\ writeopen \in BOOLEAN /\ freed \in BOOLEAN
  /\ lock \in Procs \union {Nobody}
  /\ ref \in [{"r", "w"} -> Nat]
  /\ killed \in [Procs -> BOOLEAN]
  /\ pc \in [Procs -> PCs]
  /\ n \in [Procs -> 0..MaxN] /\ i \in [Procs -> 0..MaxN]
  /\ eof \in [Readers -> BOOLEAN]
  /\ got \in Bytes

\* Bytes in the pipe, across a wrap of the counters.
count == (nwrite - nread) % WORD

\* The refinement mapping: the bytes between the two counters, in order.
Stream == INSTANCE ByteStream WITH
  Capacity <- PIPESIZE,
  queue <- [k \in 1..count |-> data[(nread + k - 1) % PIPESIZE]],
  open <- writeopen

\* The ring buffer with its two wrapping counters is a bounded FIFO stream:
\* no byte is lost, duplicated, reordered or overwritten, with any number of
\* readers and writers, and none enters after the last writer has closed.
IsStream == Stream!Spec

Asleep(label) == \E p \in Procs : pc[p] = label

\* A writer waits only for room: with p->lock free, it is asleep only on a full
\* pipe that can still be read.  No piperead() or pipeclose() goes unnoticed.
WriterWaitsForRoom ==
  lock = Nobody /\ Asleep("w_asleep") => full /\ readopen

\* A reader waits only on an empty pipe ("pipe-empty", pipe.c) that can still
\* be written, with one exception: pipewrite() of a killed process filled the
\* pipe and returned without wakeup(&p->nread).
ReaderWaitsOrWriterKilled ==
  lock = Nobody /\ Asleep("r_asleep") =>
    /\ writeopen
    /\ empty \/ \E p \in Writers : killed[p]

\* Readers and writers never wait for each other.
NeverBothAsleep ==
  lock = Nobody => ~(Asleep("r_asleep") /\ Asleep("w_asleep"))

\* With p->lock free nobody in piperead() or pipewrite() has missed a wakeup,
\* and readers and writers do not wait for each other; the counters have
\* wrapped within their word.
WakeupInv == TypeOK /\ WriterWaitsForRoom /\ ReaderWaitsOrWriterKilled /\ NeverBothAsleep

\* read() returns 0 only at the end of the stream, which is final.
EofIsFinal ==
  (\E p \in Readers : eof[p]) => ~writeopen /\ empty

\* The pipe is freed only when nobody is or will be inside its code, although
\* fileclose() drops ftable.lock before it calls pipeclose().
NoUseAfterFree ==
  freed => \A p \in Procs : pc[p] = "closed"

\* ... and it is freed when the last process has closed it.
FreedAtLast ==
  (\A p \in Procs : pc[p] = "closed") => freed

\* pipeclose() of the last end, and no other, frees the page, in whatever order
\* the ends are closed, read and written.
FreedOnce == NoUseAfterFree /\ FreedAtLast

\* A killed process gets out of the pipe, as kill() means it to ("Wake process
\* from sleep if necessary").
KilledReturns ==
  \A p \in Procs : killed[p] ~> pc[p] = "closed"
=============================================================================

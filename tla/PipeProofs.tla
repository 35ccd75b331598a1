------------------------------ MODULE PipeProofs ------------------------------
(***************************************************************************)
(* Proofs about Pipe, for any number of readers and writers, any PIPESIZE  *)
(* and any word that PIPESIZE divides: no wakeup of os/5/pipe.c is missed  *)
(* but the one of a killed writer, read() returns 0 only at the end, the   *)
(* page is freed by the last pipeclose(), and the ring buffer is a FIFO.   *)
(***************************************************************************)
EXTENDS Pipe, TLAPS, FiniteSetTheorems, SequenceTheorems

ReaderPCs == {"user", "r_acquire", "r_test", "r_sleep", "r_asleep", "r_copy",
              "pipeclose", "closed"}
WriterPCs == {"user", "w_acquire", "w_test", "w_sleep", "w_asleep",
              "pipeclose", "closed"}

\* A reader runs piperead() and a writer pipewrite().
SidesInv ==
  /\ \A p \in Readers : pc[p] \in ReaderPCs
  /\ \A p \in Writers : pc[p] \in WriterPCs

Holding == {"r_test", "r_sleep", "r_copy", "w_test", "w_sleep"}

\* p->lock is held by the process that is between acquire() and release().
LockInv == \A p \in Procs : lock = p <=> pc[p] \in Holding

\* A loop counter stays within the argument, which is positive during a call.
LoopInv ==
  \A p \in Procs : /\ i[p] <= n[p]
                   /\ pc[p] \notin {"user", "pipeclose", "closed"} => n[p] > 0

\* The counters are at most PIPESIZE apart.
RoomInv == count <= PIPESIZE

Closing == {"pipeclose", "closed"}
OpenBy(S) == {p \in S : pc[p] \notin Closing}

\* f->ref counts the descriptors not yet closed.
RefInv ==
  /\ ref["r"] = Cardinality(OpenBy(Readers))
  /\ ref["w"] = Cardinality(OpenBy(Writers))

\* An end is open until its last process is through pipeclose(), and that one
\* is alone on its end.
EndsInv ==
  /\ readopen <=> \E p \in Readers : pc[p] # "closed"
  /\ writeopen <=> \E p \in Writers : pc[p] # "closed"
  /\ \A p, q \in Readers : pc[p] = "pipeclose" /\ q # p => pc[q] = "closed"
  /\ \A p, q \in Writers : pc[p] = "pipeclose" /\ q # p => pc[q] = "closed"
  /\ freed <=> ~readopen /\ ~writeopen

\* What a process about to sleep has seen is still so, and what a sleeping
\* process waits for is still missing, or the process that brought it holds
\* p->lock and has its wakeup() ahead, or was killed.
SleepInv ==
  /\ \A p \in Procs : pc[p] = "w_sleep" => full /\ readopen /\ ~Asleep("r_asleep")
  /\ \A p \in Procs : pc[p] = "w_asleep" =>
       readopen /\ (full \/ \E q \in Readers : pc[q] = "r_copy")
  /\ \A p \in Procs : pc[p] = "r_sleep" => empty /\ writeopen
  /\ \A p \in Procs : pc[p] = "r_asleep" =>
       /\ writeopen
       /\ \/ empty
          \/ \E q \in Writers : killed[q] \/ pc[q] = "w_test"
  /\ ~(Asleep("r_asleep") /\ Asleep("w_asleep"))

\* A reader that has copied nothing is not at an empty pipe with writers left.
EofInv ==
  /\ \A p \in Readers : pc[p] = "r_copy" /\ i[p] = 0 => ~(empty /\ writeopen)
  /\ EofIsFinal

\* The inductive invariant.
PipeInv ==
  /\ TypeOK /\ SidesInv /\ LockInv /\ LoopInv /\ RoomInv /\ RefInv /\ EndsInv
  /\ SleepInv /\ EofInv
-----------------------------------------------------------------------------
(* The counters. *)

\* Division with remainder by a positive number.
LEMMA DivMod ==
  ASSUME NEW x \in Int, NEW P \in Nat \ {0}
  PROVE  /\ x \div P \in Int /\ x % P \in 0 .. P - 1
         /\ x = P * (x \div P) + (x % P)
OBVIOUS

\* The remainder is the only one.
LEMMA ModUnique ==
  ASSUME NEW P \in Nat \ {0}, NEW q \in Int, NEW r \in 0 .. P - 1
  PROVE  (P * q + r) % P = r
<1> DEFINE x == P * q + r
           s == x \div P
           t == x % P
<1>1. x \in Int /\ s \in Int /\ t \in 0 .. P - 1 /\ x = P * s + t
  BY DivMod
<1>2. P * (q - s) = t - r
  BY <1>1
<1>3. CASE q - s >= 1
  BY <1>1, <1>2, <1>3
<1>4. CASE s - q >= 1
  BY <1>1, <1>2, <1>4
<1> QED
  BY <1>1, <1>2, <1>3, <1>4

\* Multiples of the divisor do not count.
LEMMA ModShift ==
  ASSUME NEW P \in Nat \ {0}, NEW x \in Int, NEW k \in Int
  PROVE  (x + P * k) % P = x % P
<1>1. x \div P \in Int /\ x % P \in 0 .. P - 1 /\ x = P * (x \div P) + (x % P)
  BY DivMod
<1> DEFINE q == x \div P
           r == x % P
<1>2. x + P * k = P * (q + k) + r
  BY <1>1
<1>3. q + k \in Int
  BY <1>1
<1> HIDE DEF q, r
<1> QED
  BY <1>1, <1>2, <1>3, ModUnique DEF r

\* Numbers less than P apart have different remainders.
LEMMA ModApart ==
  ASSUME NEW P \in Nat \ {0}, NEW x \in Int, NEW y \in Int, x < y, y < x + P
  PROVE  x % P # y % P
<1> DEFINE q == x \div P
           r == x % P
           s == y \div P
           t == y % P
<1>1. q \in Int /\ r \in 0 .. P - 1 /\ x = P * q + r /\ s \in Int /\ t \in 0 .. P - 1 /\ y = P * s + t
  BY DivMod
<1> HIDE DEF q, r, s, t
<1>2. ASSUME r = t PROVE FALSE
  <2>1. P * (s - q) = y - x
    BY <1>1, <1>2
  <2>2. CASE s - q >= 1
    BY <1>1, <2>1, <2>2
  <2>3. CASE s - q <= 0
    BY <1>1, <2>1, <2>3
  <2> QED
    BY <1>1, <2>2, <2>3
<1> QED
  BY <1>2 DEF r, t

\* The distance from r to w, however they have wrapped.
LEMMA Distance ==
  ASSUME NEW r \in 0 .. WORD - 1, NEW w \in 0 .. WORD - 1
  PROVE  /\ (w - r) % WORD \in 0 .. WORD - 1
         /\ (w - r) % WORD = IF r <= w THEN w - r ELSE w - r + WORD
<1>1. WORD \in Nat \ {0}
  BY PipeAssumption DEF PipeAssumption
<1>2. CASE r <= w
  <2> DEFINE d == w - r
  <2>1. d \in 0 .. WORD - 1
    BY <1>1, <1>2
  <2>2. (WORD * 0 + d) % WORD = d
    BY <1>1, <2>1, ModUnique
  <2> QED
    BY <1>1, <1>2, <2>1, <2>2
<1>3. CASE ~(r <= w)
  <2> DEFINE d == w - r + WORD
  <2>1. d \in 0 .. WORD - 1
    BY <1>1, <1>3
  <2> HIDE DEF d
  <2>2. (WORD * (-1) + d) % WORD = d
    BY <1>1, <2>1, ModUnique
  <2>3. WORD * (-1) + d = w - r
    BY <1>1 DEF d
  <2> QED
    BY <1>1, <1>3, <2>1, <2>2, <2>3 DEF d
<1> QED
  BY <1>2, <1>3

\* x + d wraps at most once.
LEMMA Wrap ==
  ASSUME NEW x \in 0 .. WORD - 1, NEW d \in 0 .. WORD
  PROVE  (x + d) % WORD = IF x + d < WORD THEN x + d ELSE x + d - WORD
<1>1. WORD \in Nat \ {0}
  BY PipeAssumption DEF PipeAssumption
<1>2. CASE x + d < WORD
  <2> DEFINE r == x + d
  <2>1. r \in 0 .. WORD - 1
    BY <1>1, <1>2
  <2>2. (WORD * 0 + r) % WORD = r
    BY <1>1, <2>1, ModUnique
  <2> QED
    BY <1>1, <1>2, <2>1, <2>2
<1>3. CASE ~(x + d < WORD)
  <2> DEFINE r == x + d - WORD
  <2>1. r \in 0 .. WORD - 1
    BY <1>1, <1>3
  <2> HIDE DEF r
  <2>2. (WORD * 1 + r) % WORD = r
    BY <1>1, <2>1, ModUnique
  <2>3. WORD * 1 + r = x + d
    BY <1>1 DEF r
  <2> QED
    BY <1>1, <1>3, <2>1, <2>2, <2>3 DEF r
<1> QED
  BY <1>2, <1>3

\* inc() stays in the word.
LEMMA IncType ==
  ASSUME NEW x \in 0 .. WORD - 1
  PROVE  /\ inc(x) \in 0 .. WORD - 1
         /\ inc(x) = IF x + 1 = WORD THEN 0 ELSE x + 1
<1>1. WORD \in Nat /\ WORD > 1
  BY PipeAssumption DEF PipeAssumption
<1>2. inc(x) = IF x + 1 < WORD THEN x + 1 ELSE x + 1 - WORD
  BY <1>1, Wrap DEF inc
<1> QED
  BY <1>1, <1>2

\* The two tests of the code tell an empty and a full pipe by its count.
LEMMA Tests ==
  ASSUME TypeOK
  PROVE  /\ empty <=> count = 0
         /\ full <=> count = PIPESIZE
         /\ ~(empty /\ full)
<1>1. /\ nread \in 0 .. WORD - 1 /\ nwrite \in 0 .. WORD - 1 /\ WORD \in Nat
      /\ PIPESIZE \in Nat \ {0} /\ PIPESIZE < WORD
  BY PipeAssumption DEF PipeAssumption, TypeOK
<1>2. (nread + PIPESIZE) % WORD = IF nread + PIPESIZE < WORD THEN nread + PIPESIZE
                                  ELSE nread + PIPESIZE - WORD
  BY <1>1, Wrap
<1>3. count = IF nread <= nwrite THEN nwrite - nread ELSE nwrite - nread + WORD
  BY <1>1, Distance DEF count
<1> QED
  BY <1>1, <1>2, <1>3 DEF empty, full

\* A byte read leaves the pipe and a byte written enters it.
LEMMA CountSteps ==
  ASSUME TypeOK, TypeOK', RoomInv
  PROVE  /\ ~empty /\ nread' = inc(nread) /\ nwrite' = nwrite => count' = count - 1
         /\ ~full /\ nwrite' = inc(nwrite) /\ nread' = nread => count' = count + 1
<1>0. nread' \in 0 .. WORD - 1 /\ nwrite' \in 0 .. WORD - 1
  BY DEF TypeOK
<1>1. /\ nread \in 0 .. WORD - 1 /\ nwrite \in 0 .. WORD - 1 /\ WORD \in Nat
      /\ PIPESIZE \in Nat \ {0} /\ PIPESIZE < WORD
  BY PipeAssumption DEF PipeAssumption, TypeOK
<1>2. /\ inc(nread) = IF nread + 1 = WORD THEN 0 ELSE nread + 1
      /\ inc(nwrite) = IF nwrite + 1 = WORD THEN 0 ELSE nwrite + 1
  BY <1>1, IncType
<1>3. /\ count \in 0 .. WORD - 1
      /\ count = IF nread <= nwrite THEN nwrite - nread ELSE nwrite - nread + WORD
  BY <1>1, Distance DEF count
<1>4. count' = IF nread' <= nwrite' THEN nwrite' - nread' ELSE nwrite' - nread' + WORD
  BY <1>0, Distance DEF count
<1>5. count <= PIPESIZE /\ (empty <=> count = 0) /\ (full <=> count = PIPESIZE)
  BY Tests DEF RoomInv
<1> QED
  BY <1>1, <1>2, <1>3, <1>4, <1>5

-----------------------------------------------------------------------------
(* Every action preserves PipeInv. *)

\* A step in which no process closes its end leaves the ends and their counts.
LEMMA NoneCloses ==
  ASSUME RefInv, EndsInv, UNCHANGED <<ref, readopen, writeopen, freed>>,
         \A q \in Procs : /\ pc'[q] \in Closing <=> pc[q] \in Closing
                          /\ pc[q] \in Closing => pc'[q] = pc[q]
  PROVE  RefInv' /\ EndsInv'
<1>1. OpenBy(Readers)' = OpenBy(Readers) /\ OpenBy(Writers)' = OpenBy(Writers)
  BY DEF OpenBy, Procs
<1>2. RefInv'
  BY <1>1 DEF RefInv
<1>3. EndsInv'
  BY DEF EndsInv, Procs, Closing
<1> QED
  BY <1>2, <1>3

\* A step that leaves the counters leaves what the code derives from them.
LEMMA SameCounters ==
  ASSUME UNCHANGED <<nread, nwrite>>
  PROVE  full' = full /\ empty' = empty /\ count' = count
BY DEF full, empty, count

\* Nobody but the holder of p->lock is inside the critical section.
LEMMA Mutex ==
  ASSUME LockInv, NEW p \in Procs, pc[p] \in Holding
  PROVE  lock = p /\ \A q \in Procs : q # p => pc[q] \notin Holding
BY DEF LockInv

\* What wakeup() does to every process.
LEMMA WakeEffect ==
  ASSUME NEW p \in Procs, NEW label
  PROVE  /\ WakeReaders(p, label) => \A q \in Procs :
              pc'[q] = IF q = p THEN label ELSE IF pc[q] = "r_asleep" THEN "r_acquire" ELSE pc[q]
         /\ WakeWriters(p, label) => \A q \in Procs :
              pc'[q] = IF q = p THEN label ELSE IF pc[q] = "w_asleep" THEN "w_acquire" ELSE pc[q]
BY DEF WakeReaders, WakeWriters, woken

\* ... which leaves every process at a label.
LEMMA WakeTyped ==
  ASSUME TypeOK, NEW p \in Procs, NEW label \in PCs,
         WakeReaders(p, label) \/ WakeWriters(p, label)
  PROVE  pc' \in [Procs -> PCs]
BY DEF WakeReaders, WakeWriters, woken, TypeOK, PCs

\* What the end of a call does.
LEMMA ReturnEffect ==
  ASSUME TypeOK, NEW p \in Procs, NEW r \in Int, Return(p, r)
  PROVE  /\ lock' = Nobody
         /\ n' \in [Procs -> 0..MaxN] /\ i' \in [Procs -> 0..MaxN]
         /\ eof' \in [Readers -> BOOLEAN]
         /\ \A q \in Procs : /\ n'[q] = IF q = p THEN 0 ELSE n[q]
                             /\ i'[q] = IF q = p THEN 0 ELSE i[q]
         /\ \A q \in Readers : eof'[q] <=> IF q = p THEN r = 0 ELSE eof[q]
<1>1. n \in [Procs -> 0..MaxN] /\ i \in [Procs -> 0..MaxN] /\ eof \in [Readers -> BOOLEAN]
  BY DEF TypeOK
<1>2. 0 \in 0..MaxN
  BY PipeAssumption DEF PipeAssumption
<1>3. n' = [n EXCEPT ![p] = 0] /\ i' = [i EXCEPT ![p] = 0] /\ lock' = Nobody
  BY DEF Return
<1>4. eof' = [q \in Readers |-> IF q = p THEN r = 0 ELSE eof[q]]
  BY DEF Return
<1>5. \A q \in Readers : (IF q = p THEN r = 0 ELSE eof[q]) \in BOOLEAN
  BY <1>1
<1>6. eof' \in [Readers -> BOOLEAN]
  BY <1>4, <1>5
<1>7. \A q \in Readers : eof'[q] = IF q = p THEN r = 0 ELSE eof[q]
  BY <1>4
<1> QED
  BY <1>1, <1>2, <1>3, <1>6, <1>7

\* read() and write() start outside p->lock.
LEMMA CallInv ==
  ASSUME PipeInv, NEW p \in Procs, NEW m \in 1..MaxN, Call(p, m)
  PROVE  PipeInv'
<1>0. /\ TypeOK /\ SidesInv /\ LockInv /\ LoopInv /\ RoomInv /\ RefInv /\ EndsInv
      /\ SleepInv /\ EofInv
  BY DEF PipeInv
<1> DEFINE label == IF p \in Readers THEN "r_acquire" ELSE "w_acquire"
<1>pc. pc[p] = "user" /\ \A q \in Procs : pc'[q] = IF q = p THEN label ELSE pc[q]
  BY <1>0 DEF Call, Goto, TypeOK
<1>same. /\ full' = full /\ empty' = empty /\ count' = count
         /\ UNCHANGED <<readopen, writeopen, freed, lock, ref, killed>>
  BY SameCounters DEF Call, pipe, ends
<1>arg. /\ \A q \in Procs : /\ n'[q] = IF q = p THEN m ELSE n[q]
                            /\ i'[q] = IF q = p THEN 0 ELSE i[q]
        /\ \A q \in Readers : eof'[q] => eof[q]
  BY <1>0 DEF Call, TypeOK
<1>type. TypeOK'
  BY <1>0, PipeAssumption DEF Call, Goto, TypeOK, pipe, ends, PCs, PipeAssumption, Procs
<1>sides. SidesInv'
  BY <1>0, <1>pc, PipeAssumption DEF SidesInv, ReaderPCs, WriterPCs, PipeAssumption, Procs
<1>lock. LockInv'
  BY <1>0, <1>pc, <1>same DEF LockInv, Holding
<1>loop. LoopInv'
  BY <1>0, <1>pc, <1>arg DEF LoopInv
<1>room. RoomInv'
  BY <1>0, <1>same DEF RoomInv
<1>ends. RefInv' /\ EndsInv'
  BY <1>0, <1>pc, <1>same, NoneCloses DEF Closing
<1>sleep. SleepInv'
  BY <1>0, <1>pc, <1>same DEF SleepInv, Asleep, Procs
<1>eof. EofInv'
  BY <1>0, <1>pc, <1>same, <1>arg DEF EofInv, EofIsFinal, Procs
<1> QED
  BY <1>type, <1>sides, <1>lock, <1>loop, <1>room, <1>ends, <1>sleep, <1>eof DEF PipeInv

\* acquire() gives the free lock to one process.
LEMMA acquireInv ==
  ASSUME PipeInv, NEW p \in Procs, acquire(p)
  PROVE  PipeInv'
<1>0. /\ TypeOK /\ SidesInv /\ LockInv /\ LoopInv /\ RoomInv /\ RefInv /\ EndsInv
      /\ SleepInv /\ EofInv
  BY DEF PipeInv
<1> DEFINE label == IF pc[p] = "r_acquire" THEN "r_test" ELSE "w_test"
<1>pc. /\ pc[p] \in {"r_acquire", "w_acquire"} /\ lock = Nobody /\ lock' = p
       /\ \A q \in Procs : pc'[q] = IF q = p THEN label ELSE pc[q]
  BY <1>0 DEF acquire, Goto, TypeOK
<1>same. /\ full' = full /\ empty' = empty /\ count' = count
         /\ UNCHANGED <<readopen, writeopen, freed, ref, killed, n, i, eof>>
  BY SameCounters DEF acquire, pipe, ends
<1>free. \A q \in Procs : lock # q /\ pc[q] \notin Holding
  BY <1>0, <1>pc, PipeAssumption DEF LockInv, PipeAssumption, Procs
<1>type. TypeOK'
  BY <1>0 DEF acquire, Goto, TypeOK, pipe, ends, PCs
<1>sides. SidesInv'
  BY <1>0, <1>pc DEF SidesInv, ReaderPCs, WriterPCs, Procs
<1>lock. LockInv'
  BY <1>pc, <1>free DEF LockInv, Holding
<1>loop. LoopInv'
  BY <1>0, <1>pc, <1>same DEF LoopInv
<1>room. RoomInv'
  BY <1>0, <1>same DEF RoomInv
<1>ends. RefInv' /\ EndsInv'
  BY <1>0, <1>pc, <1>same, NoneCloses DEF Closing
<1>sleep. SleepInv'
  BY <1>0, <1>pc, <1>same DEF SleepInv, Asleep, Procs
<1>eof. EofInv'
  BY <1>0, <1>pc, <1>same DEF EofInv, EofIsFinal, Procs
<1> QED
  BY <1>type, <1>sides, <1>lock, <1>loop, <1>room, <1>ends, <1>sleep, <1>eof DEF PipeInv

\* The test of piperead()'s waiting loop: copy, return -1 when killed, or go to
\* sleep with the pipe seen empty.
LEMMA r_testInv ==
  ASSUME PipeInv, NEW p \in Procs, r_test(p)
  PROVE  PipeInv'
<1>0. /\ TypeOK /\ SidesInv /\ LockInv /\ LoopInv /\ RoomInv /\ RefInv /\ EndsInv
      /\ SleepInv /\ EofInv
  BY DEF PipeInv
<1> DEFINE label == IF ~r_mustwait THEN "r_copy" ELSE IF killed[p] THEN "user" ELSE "r_sleep"
<1>pc. pc[p] = "r_test" /\ \A q \in Procs : pc'[q] = IF q = p THEN label ELSE pc[q]
  BY <1>0 DEF r_test, Goto, TypeOK
<1>same. /\ full' = full /\ empty' = empty /\ count' = count
         /\ UNCHANGED <<readopen, writeopen, freed, ref, killed>>
  BY SameCounters DEF r_test, pipe, ends
<1>mine. lock = p /\ \A q \in Procs : q # p => lock # q /\ pc[q] \notin Holding
  BY <1>0, <1>pc, Mutex DEF Holding
<1>arg. /\ lock' = IF label = "user" THEN Nobody ELSE lock
        /\ \A q \in Procs : /\ n'[q] = IF q = p /\ label = "user" THEN 0 ELSE n[q]
                            /\ i'[q] = IF q = p /\ label = "user" THEN 0 ELSE i[q]
        /\ \A q \in Readers : eof'[q] => eof[q]
        /\ n' \in [Procs -> 0..MaxN] /\ i' \in [Procs -> 0..MaxN]
        /\ eof' \in [Readers -> BOOLEAN]
  <2>1. CASE r_mustwait /\ killed[p]
    <3>1. Return(p, -1)
      BY <2>1 DEF r_test
    <3> QED
      BY <1>0, <2>1, <3>1, ReturnEffect
  <2>2. CASE ~(r_mustwait /\ killed[p])
    <3>1. UNCHANGED <<lock, n, i, eof>>
      BY <2>2 DEF r_test
    <3> QED
      BY <1>0, <2>2, <3>1 DEF TypeOK
  <2> QED
    BY <2>1, <2>2
<1>type. TypeOK'
  BY <1>0, <1>arg DEF r_test, Goto, TypeOK, pipe, ends, PCs
<1>reader. p \in Readers /\ p # Nobody
  BY <1>0, <1>pc, PipeAssumption DEF SidesInv, WriterPCs, PipeAssumption, Procs
<1>sides. SidesInv'
  BY <1>0, <1>pc, <1>reader, PipeAssumption DEF SidesInv, ReaderPCs, WriterPCs, PipeAssumption, Procs
<1>lock. LockInv'
  BY <1>pc, <1>mine, <1>arg, PipeAssumption DEF LockInv, Holding, PipeAssumption, Procs
<1>loop. LoopInv'
  BY <1>0, <1>pc, <1>arg DEF LoopInv
<1>room. RoomInv'
  BY <1>0, <1>same DEF RoomInv
<1>ends. RefInv' /\ EndsInv'
  BY <1>0, <1>pc, <1>same, NoneCloses DEF Closing
<1>sleep. SleepInv'
  BY <1>0, <1>pc, <1>mine, <1>same DEF SleepInv, Asleep, Procs, r_mustwait, Holding
<1>eof. EofInv'
  BY <1>0, <1>pc, <1>mine, <1>same, <1>arg DEF EofInv, EofIsFinal, Procs, r_mustwait, Holding
<1> QED
  BY <1>type, <1>sides, <1>lock, <1>loop, <1>room, <1>ends, <1>sleep, <1>eof DEF PipeInv

\* sleep() in piperead() lets go of p->lock and is asleep in one step.
LEMMA r_sleepInv ==
  ASSUME PipeInv, NEW p \in Procs, r_sleep(p)
  PROVE  PipeInv'
<1>0. /\ TypeOK /\ SidesInv /\ LockInv /\ LoopInv /\ RoomInv /\ RefInv /\ EndsInv
      /\ SleepInv /\ EofInv
  BY DEF PipeInv
<1>pc. /\ pc[p] = "r_sleep" /\ lock' = Nobody
       /\ \A q \in Procs : pc'[q] = IF q = p THEN "r_asleep" ELSE pc[q]
  BY <1>0 DEF r_sleep, Goto, TypeOK
<1>same. /\ full' = full /\ empty' = empty /\ count' = count
         /\ UNCHANGED <<readopen, writeopen, freed, ref, killed, n, i, eof>>
  BY SameCounters DEF r_sleep, pipe, ends
<1>mine. lock = p /\ \A q \in Procs : q # p => lock # q /\ pc[q] \notin Holding
  BY <1>0, <1>pc, Mutex DEF Holding
<1>type. TypeOK'
  BY <1>0 DEF r_sleep, Goto, TypeOK, pipe, ends, PCs
<1>sides. SidesInv'
  BY <1>0, <1>pc, PipeAssumption DEF SidesInv, ReaderPCs, WriterPCs, PipeAssumption, Procs
<1>lock. LockInv'
  BY <1>pc, <1>mine, PipeAssumption DEF LockInv, Holding, PipeAssumption, Procs
<1>loop. LoopInv'
  BY <1>0, <1>pc, <1>same DEF LoopInv
<1>room. RoomInv'
  BY <1>0, <1>same DEF RoomInv
<1>ends. RefInv' /\ EndsInv'
  BY <1>0, <1>pc, <1>same, NoneCloses DEF Closing
<1>sleep. SleepInv'
  <2>1. ~(empty /\ full)
    BY <1>0, Tests
  <2> QED
    BY <1>0, <1>pc, <1>mine, <1>same, <2>1 DEF SleepInv, Asleep, Procs, Holding
<1>eof. EofInv'
  BY <1>0, <1>pc, <1>same DEF EofInv, EofIsFinal, Procs
<1> QED
  BY <1>type, <1>sides, <1>lock, <1>loop, <1>room, <1>ends, <1>sleep, <1>eof DEF PipeInv

\* sleep() in pipewrite() likewise.
LEMMA w_sleepInv ==
  ASSUME PipeInv, NEW p \in Procs, w_sleep(p)
  PROVE  PipeInv'
<1>0. /\ TypeOK /\ SidesInv /\ LockInv /\ LoopInv /\ RoomInv /\ RefInv /\ EndsInv
      /\ SleepInv /\ EofInv
  BY DEF PipeInv
<1>pc. /\ pc[p] = "w_sleep" /\ lock' = Nobody
       /\ \A q \in Procs : pc'[q] = IF q = p THEN "w_asleep" ELSE pc[q]
  BY <1>0 DEF w_sleep, Goto, TypeOK
<1>same. /\ full' = full /\ empty' = empty /\ count' = count
         /\ UNCHANGED <<readopen, writeopen, freed, ref, killed, n, i, eof>>
  BY SameCounters DEF w_sleep, pipe, ends
<1>mine. lock = p /\ \A q \in Procs : q # p => lock # q /\ pc[q] \notin Holding
  BY <1>0, <1>pc, Mutex DEF Holding
<1>type. TypeOK'
  BY <1>0 DEF w_sleep, Goto, TypeOK, pipe, ends, PCs
<1>sides. SidesInv'
  BY <1>0, <1>pc, PipeAssumption DEF SidesInv, ReaderPCs, WriterPCs, PipeAssumption, Procs
<1>lock. LockInv'
  BY <1>pc, <1>mine, PipeAssumption DEF LockInv, Holding, PipeAssumption, Procs
<1>loop. LoopInv'
  BY <1>0, <1>pc, <1>same DEF LoopInv
<1>room. RoomInv'
  BY <1>0, <1>same DEF RoomInv
<1>ends. RefInv' /\ EndsInv'
  BY <1>0, <1>pc, <1>same, NoneCloses DEF Closing
<1>sleep. SleepInv'
  <2>1. ~(empty /\ full)
    BY <1>0, Tests
  <2> QED
    BY <1>0, <1>pc, <1>mine, <1>same, <2>1 DEF SleepInv, Asleep, Procs, Holding
<1>eof. EofInv'
  BY <1>0, <1>pc, <1>same DEF EofInv, EofIsFinal, Procs
<1> QED
  BY <1>type, <1>sides, <1>lock, <1>loop, <1>room, <1>ends, <1>sleep, <1>eof DEF PipeInv

\* A byte is read: sleeping writers keep their wakeup, which r_return brings.
LEMMA r_copyInv ==
  ASSUME PipeInv, NEW p \in Procs, r_copy(p)
  PROVE  PipeInv'
<1>0. /\ TypeOK /\ SidesInv /\ LockInv /\ LoopInv /\ RoomInv /\ RefInv /\ EndsInv
      /\ SleepInv /\ EofInv
  BY DEF PipeInv
<1>pc. pc[p] = "r_copy" /\ i[p] < n[p] /\ ~empty
  BY DEF r_copy
<1>same. /\ nread' = inc(nread) /\ nwrite' = nwrite
         /\ UNCHANGED <<readopen, writeopen, freed, lock, ref, killed, pc, n, eof>>
  BY DEF r_copy, ends
<1>mine. lock = p /\ \A q \in Procs : q # p => lock # q /\ pc[q] \notin Holding
  BY <1>0, <1>pc, Mutex DEF Holding
<1>reader. p \in Readers
  BY <1>0, <1>pc DEF SidesInv, WriterPCs, Procs
<1>arg. i' \in [Procs -> 0..MaxN] /\ \A q \in Procs : i'[q] = IF q = p THEN i[p] + 1 ELSE i[q]
  BY <1>0, <1>pc, PipeAssumption DEF r_copy, TypeOK, PipeAssumption
<1>type. TypeOK'
  <2>1. nread' \in 0 .. WORD - 1
    BY <1>0, <1>same, IncType DEF TypeOK
  <2>2. got' \in Bytes
    <3>0. nread \in Int /\ PIPESIZE \in Nat \ {0}
      BY <1>0, PipeAssumption DEF TypeOK, PipeAssumption
    <3>1. nread % PIPESIZE \in 0 .. PIPESIZE - 1
      BY <3>0, DivMod
    <3> QED
      BY <1>0, <3>1 DEF r_copy, TypeOK
  <2> QED
    BY <1>0, <1>same, <1>arg, <2>1, <2>2 DEF r_copy, TypeOK
<1>count. count' = count - 1 /\ count \in 0 .. WORD - 1 /\ WORD \in Nat
  <2>1. count \in 0 .. WORD - 1
    BY <1>0, Distance DEF count, TypeOK
  <2> QED
    BY <1>0, <1>pc, <1>same, <1>type, <2>1, CountSteps, PipeAssumption DEF PipeAssumption
<1>sides. SidesInv'
  BY <1>0, <1>same DEF SidesInv
<1>lock. LockInv'
  BY <1>0, <1>same DEF LockInv
<1>loop. LoopInv'
  BY <1>0, <1>pc, <1>same, <1>arg DEF LoopInv, TypeOK
<1>room. RoomInv'
  BY <1>0, <1>count, PipeAssumption DEF RoomInv, PipeAssumption
<1>ends. RefInv' /\ EndsInv'
  BY <1>0, <1>same, NoneCloses
<1>sleep. SleepInv'
  BY <1>0, <1>pc, <1>mine, <1>reader, <1>same DEF SleepInv, Asleep, Procs, Holding
<1>eof. EofInv'
  <2>1. \A q \in Readers : pc[q] = "r_copy" => q = p
    BY <1>mine DEF Procs, Holding
  <2>2. i'[p] # 0
    BY <1>0, <1>arg DEF TypeOK
  <2>3. EofIsFinal'
    BY <1>0, <1>pc, <1>same DEF EofInv, EofIsFinal
  <2> QED
    BY <1>same, <2>1, <2>2, <2>3 DEF EofInv
<1> QED
  BY <1>type, <1>sides, <1>lock, <1>loop, <1>room, <1>ends, <1>sleep, <1>eof DEF PipeInv

\* A byte is written: sleeping readers keep their wakeup, which this writer
\* brings unless it is killed.
LEMMA w_storeInv ==
  ASSUME PipeInv, NEW p \in Procs, NEW b \in Bytes, w_store(p, b)
  PROVE  PipeInv'
<1>0. /\ TypeOK /\ SidesInv /\ LockInv /\ LoopInv /\ RoomInv /\ RefInv /\ EndsInv
      /\ SleepInv /\ EofInv
  BY DEF PipeInv
<1>pc. pc[p] = "w_test" /\ i[p] < n[p] /\ ~full
  BY DEF w_store
<1>same. /\ nwrite' = inc(nwrite) /\ nread' = nread
         /\ UNCHANGED <<readopen, writeopen, freed, lock, ref, killed, pc, n, eof>>
  BY DEF w_store, ends
<1>mine. lock = p /\ \A q \in Procs : q # p => lock # q /\ pc[q] \notin Holding
  BY <1>0, <1>pc, Mutex DEF Holding
<1>writer. p \in Writers
  BY <1>0, <1>pc DEF SidesInv, ReaderPCs, Procs
<1>arg. i' \in [Procs -> 0..MaxN] /\ \A q \in Procs : i'[q] = IF q = p THEN i[p] + 1 ELSE i[q]
  BY <1>0, <1>pc, PipeAssumption DEF w_store, TypeOK, PipeAssumption
<1>type. TypeOK'
  <2>1. nwrite' \in 0 .. WORD - 1
    BY <1>0, <1>same, IncType DEF TypeOK
  <2>2. data' \in [0 .. PIPESIZE - 1 -> Bytes]
    BY <1>0 DEF w_store, TypeOK
  <2> QED
    BY <1>0, <1>same, <1>arg, <2>1, <2>2 DEF w_store, TypeOK
<1>count. count' = count + 1 /\ count \in 0 .. WORD - 1 /\ WORD \in Nat /\ count # PIPESIZE
  <2>1. count \in 0 .. WORD - 1
    BY <1>0, Distance DEF count, TypeOK
  <2> QED
    BY <1>0, <1>pc, <1>same, <1>type, <2>1, CountSteps, Tests, PipeAssumption DEF PipeAssumption
<1>sides. SidesInv'
  BY <1>0, <1>same DEF SidesInv
<1>lock. LockInv'
  BY <1>0, <1>same DEF LockInv
<1>loop. LoopInv'
  BY <1>0, <1>pc, <1>same, <1>arg DEF LoopInv, TypeOK
<1>room. RoomInv'
  BY <1>0, <1>count, PipeAssumption DEF RoomInv, PipeAssumption
<1>ends. RefInv' /\ EndsInv'
  BY <1>0, <1>same, NoneCloses
<1>sleep. SleepInv'
  <2>1. \A q \in Procs : pc[q] # "r_copy" /\ pc[q] # "w_sleep" /\ pc[q] # "r_sleep"
    BY <1>pc, <1>mine DEF Holding
  <2>2. \A q \in Procs : pc[q] # "w_asleep"
    BY <1>0, <1>pc, <2>1 DEF SleepInv, Procs
  <2> QED
    BY <1>0, <1>pc, <1>writer, <1>same, <2>1, <2>2 DEF SleepInv, Asleep, Procs
<1>eof. EofInv'
  <2>1. \A q \in Readers : pc[q] # "r_copy"
    BY <1>pc, <1>mine DEF Procs, Holding
  <2>2. writeopen
    BY <1>0, <1>pc, <1>writer DEF EndsInv
  <2> QED
    BY <1>0, <1>same, <2>1, <2>2 DEF EofInv, EofIsFinal
<1> QED
  BY <1>type, <1>sides, <1>lock, <1>loop, <1>room, <1>ends, <1>sleep, <1>eof DEF PipeInv

\* The end of piperead(): writers are woken, and 0 is returned at the end only.
LEMMA r_returnInv ==
  ASSUME PipeInv, NEW p \in Procs, r_return(p)
  PROVE  PipeInv'
<1>0. /\ TypeOK /\ SidesInv /\ LockInv /\ LoopInv /\ RoomInv /\ RefInv /\ EndsInv
      /\ SleepInv /\ EofInv
  BY DEF PipeInv
<1>pc. /\ pc[p] = "r_copy"
       /\ \A q \in Procs : pc'[q] = IF q = p THEN "user"
                                    ELSE IF pc[q] = "w_asleep" THEN "w_acquire" ELSE pc[q]
  BY WakeEffect DEF r_return
<1>same. /\ full' = full /\ empty' = empty /\ count' = count
         /\ UNCHANGED <<readopen, writeopen, freed, ref, killed>>
  BY SameCounters DEF r_return, pipe, ends
<1>mine. lock = p /\ \A q \in Procs : q # p => lock # q /\ pc[q] \notin Holding
  BY <1>0, <1>pc, Mutex DEF Holding
<1>side. p \in Readers
  BY <1>0, <1>pc DEF SidesInv, ReaderPCs, WriterPCs, Procs
<1>arg. /\ lock' = Nobody
        /\ n' \in [Procs -> 0..MaxN] /\ i' \in [Procs -> 0..MaxN]
        /\ eof' \in [Readers -> BOOLEAN]
        /\ \A q \in Procs : /\ n'[q] = IF q = p THEN 0 ELSE n[q]
                            /\ i'[q] = IF q = p THEN 0 ELSE i[q]
        /\ \A q \in Readers : eof'[q] <=> IF q = p THEN i[p] = 0 ELSE eof[q]
  BY <1>0, ReturnEffect DEF r_return, TypeOK
<1>type. TypeOK'
  <2>1. pc' \in [Procs -> PCs]
    BY <1>0, WakeTyped DEF r_return, PCs
  <2> QED
    BY <1>0, <1>arg, <2>1 DEF r_return, TypeOK, pipe, ends
<1>sides. SidesInv'
  BY <1>0, <1>pc, PipeAssumption DEF SidesInv, ReaderPCs, WriterPCs, PipeAssumption, Procs
<1>lock. LockInv'
  BY <1>pc, <1>mine, <1>arg, PipeAssumption DEF LockInv, Holding, PipeAssumption, Procs
<1>loop. LoopInv'
  BY <1>0, <1>pc, <1>arg DEF LoopInv
<1>room. RoomInv'
  BY <1>0, <1>same DEF RoomInv
<1>ends. RefInv' /\ EndsInv'
  BY <1>0, <1>pc, <1>same, NoneCloses DEF Closing
<1>sleep. SleepInv'
  <2>1. \A q \in Procs : pc'[q] # "w_asleep" /\ pc'[q] # "w_sleep" /\ pc'[q] # "r_sleep"
    BY <1>pc, <1>mine DEF Holding
  <2>2. \A q \in Writers : pc[q] # "w_test"
    BY <1>pc, <1>mine, <1>side, PipeAssumption DEF Procs, Holding, PipeAssumption
  <2>3. \A q \in Procs : pc'[q] = "r_asleep" => pc[q] = "r_asleep"
    BY <1>pc
  <2> QED
    BY <1>0, <1>same, <2>1, <2>2, <2>3 DEF SleepInv, Asleep
<1>eof. EofInv'
  <2>1. \A q \in Readers : pc'[q] # "r_copy"
    BY <1>pc, <1>mine DEF Procs, Holding
  <2>2. i[p] = 0 => empty
    BY <1>0, <1>pc DEF r_return, LoopInv
  <2>3. i[p] = 0 => ~writeopen /\ empty
    BY <1>0, <1>pc, <1>side, <2>2 DEF EofInv
  <2> QED
    BY <1>0, <1>same, <1>arg, <2>1, <2>3 DEF EofInv, EofIsFinal
<1> QED
  BY <1>type, <1>sides, <1>lock, <1>loop, <1>room, <1>ends, <1>sleep, <1>eof DEF PipeInv

\* The end of pipewrite(): readers are woken.
LEMMA w_returnInv ==
  ASSUME PipeInv, NEW p \in Procs, w_return(p)
  PROVE  PipeInv'
<1>0. /\ TypeOK /\ SidesInv /\ LockInv /\ LoopInv /\ RoomInv /\ RefInv /\ EndsInv
      /\ SleepInv /\ EofInv
  BY DEF PipeInv
<1>pc. /\ pc[p] = "w_test"
       /\ \A q \in Procs : pc'[q] = IF q = p THEN "user"
                                    ELSE IF pc[q] = "r_asleep" THEN "r_acquire" ELSE pc[q]
  BY WakeEffect DEF w_return
<1>same. /\ full' = full /\ empty' = empty /\ count' = count
         /\ UNCHANGED <<readopen, writeopen, freed, ref, killed>>
  BY SameCounters DEF w_return, pipe, ends
<1>mine. lock = p /\ \A q \in Procs : q # p => lock # q /\ pc[q] \notin Holding
  BY <1>0, <1>pc, Mutex DEF Holding
<1>side. p \in Writers
  BY <1>0, <1>pc DEF SidesInv, ReaderPCs, WriterPCs, Procs
<1>arg. /\ lock' = Nobody
        /\ n' \in [Procs -> 0..MaxN] /\ i' \in [Procs -> 0..MaxN]
        /\ eof' \in [Readers -> BOOLEAN]
        /\ \A q \in Procs : /\ n'[q] = IF q = p THEN 0 ELSE n[q]
                            /\ i'[q] = IF q = p THEN 0 ELSE i[q]
        /\ \A q \in Readers : eof'[q] <=> IF q = p THEN n[p] = 0 ELSE eof[q]
  BY <1>0, ReturnEffect DEF w_return, TypeOK
<1>type. TypeOK'
  <2>1. pc' \in [Procs -> PCs]
    BY <1>0, WakeTyped DEF w_return, PCs
  <2> QED
    BY <1>0, <1>arg, <2>1 DEF w_return, TypeOK, pipe, ends
<1>sides. SidesInv'
  BY <1>0, <1>pc, PipeAssumption DEF SidesInv, ReaderPCs, WriterPCs, PipeAssumption, Procs
<1>lock. LockInv'
  BY <1>pc, <1>mine, <1>arg, PipeAssumption DEF LockInv, Holding, PipeAssumption, Procs
<1>loop. LoopInv'
  BY <1>0, <1>pc, <1>arg DEF LoopInv
<1>room. RoomInv'
  BY <1>0, <1>same DEF RoomInv
<1>ends. RefInv' /\ EndsInv'
  BY <1>0, <1>pc, <1>same, NoneCloses DEF Closing
<1>sleep. SleepInv'
  <2>1. \A q \in Procs : pc'[q] # "r_asleep" /\ pc'[q] # "w_sleep" /\ pc'[q] # "r_sleep"
    BY <1>pc, <1>mine DEF Holding
  <2>2. \A q \in Readers : pc[q] # "r_copy"
    BY <1>pc, <1>mine, <1>side, PipeAssumption DEF Procs, Holding, PipeAssumption
  <2>3. \A q \in Procs : pc'[q] = "w_asleep" => pc[q] = "w_asleep"
    BY <1>pc
  <2> QED
    BY <1>0, <1>same, <2>1, <2>2, <2>3 DEF SleepInv, Asleep
<1>eof. EofInv'
  <2>1. \A q \in Readers : q # p
    BY <1>side, PipeAssumption DEF PipeAssumption
  <2>2. \A q \in Readers : /\ pc'[q] = "r_copy" => pc[q] = "r_copy"
                           /\ i'[q] = i[q] /\ (eof'[q] <=> eof[q])
    BY <1>pc, <1>arg, <2>1 DEF Procs
  <2> QED
    BY <1>0, <1>same, <2>2 DEF EofInv, EofIsFinal
<1> QED
  BY <1>type, <1>sides, <1>lock, <1>loop, <1>room, <1>ends, <1>sleep, <1>eof DEF PipeInv

\* A full pipe: return -1 when nobody reads or the process is killed, or wake
\* the readers and go to sleep.
LEMMA w_fullInv ==
  ASSUME PipeInv, NEW p \in Procs, w_full(p)
  PROVE  PipeInv'
<1>0. /\ TypeOK /\ SidesInv /\ LockInv /\ LoopInv /\ RoomInv /\ RefInv /\ EndsInv
      /\ SleepInv /\ EofInv
  BY DEF PipeInv
<1> DEFINE quit == ~readopen \/ killed[p]
<1>pc. /\ pc[p] = "w_test" /\ full
       /\ \A q \in Procs :
            pc'[q] = IF q = p THEN IF quit THEN "user" ELSE "w_sleep"
                     ELSE IF ~quit /\ pc[q] = "r_asleep" THEN "r_acquire" ELSE pc[q]
  <2>1. CASE quit
    BY <1>0, <2>1 DEF w_full, Goto, TypeOK
  <2>2. CASE ~quit
    <3>1. WakeReaders(p, "w_sleep")
      BY <2>2 DEF w_full
    <3> QED
      BY <2>2, <3>1, WakeEffect DEF w_full
  <2> QED
    BY <2>1, <2>2
<1>same. /\ full' = full /\ empty' = empty /\ count' = count
         /\ UNCHANGED <<readopen, writeopen, freed, ref, killed>>
  BY SameCounters DEF w_full, pipe, ends
<1>mine. lock = p /\ \A q \in Procs : q # p => lock # q /\ pc[q] \notin Holding
  BY <1>0, <1>pc, Mutex DEF Holding
<1>side. p \in Writers /\ p \notin Readers
  BY <1>0, <1>pc, PipeAssumption DEF SidesInv, ReaderPCs, Procs, PipeAssumption
<1>arg. /\ lock' = IF quit THEN Nobody ELSE lock
        /\ \A q \in Procs : /\ n'[q] = IF q = p /\ quit THEN 0 ELSE n[q]
                            /\ i'[q] = IF q = p /\ quit THEN 0 ELSE i[q]
        /\ \A q \in Readers : eof'[q] => eof[q]
        /\ n' \in [Procs -> 0..MaxN] /\ i' \in [Procs -> 0..MaxN]
        /\ eof' \in [Readers -> BOOLEAN]
  <2>1. CASE quit
    <3>1. Return(p, -1)
      BY <2>1 DEF w_full
    <3> QED
      BY <1>0, <1>side, <2>1, <3>1, ReturnEffect
  <2>2. CASE ~quit
    <3>1. UNCHANGED <<lock, n, i, eof>>
      BY <2>2 DEF w_full
    <3> QED
      BY <1>0, <2>2, <3>1 DEF TypeOK
  <2> QED
    BY <2>1, <2>2
<1> HIDE DEF quit
<1>type. TypeOK'
  <2>1. pc' \in [Procs -> PCs]
    <3>1. WakeReaders(p, "w_sleep") \/ Goto(p, "user")
      BY DEF w_full
    <3> QED
      BY <1>0, <3>1, WakeTyped DEF Goto, TypeOK, PCs
  <2>2. lock' \in Procs \union {Nobody}
    BY <1>0, <1>arg DEF TypeOK
  <2> QED
    BY <1>0, <1>arg, <2>1, <2>2 DEF w_full, TypeOK, pipe, ends
<1>sides. SidesInv'
  BY <1>0, <1>pc, <1>side, PipeAssumption DEF SidesInv, ReaderPCs, WriterPCs, PipeAssumption, Procs
<1>lock. LockInv'
  BY <1>pc, <1>mine, <1>arg, PipeAssumption DEF LockInv, Holding, PipeAssumption, Procs
<1>loop. LoopInv'
  BY <1>0, <1>pc, <1>arg DEF LoopInv
<1>room. RoomInv'
  BY <1>0, <1>same DEF RoomInv
<1>ends. RefInv' /\ EndsInv'
  BY <1>0, <1>pc, <1>same, NoneCloses DEF Closing
<1>sleep. SleepInv'
  <2>0. ~empty
    BY <1>0, <1>pc, Tests
  <2>1. \A q \in Procs : /\ pc'[q] # "r_sleep" /\ pc[q] # "r_copy"
                         /\ pc'[q] = "w_sleep" => q = p /\ ~quit
                         /\ pc'[q] = "w_asleep" => pc[q] = "w_asleep"
                         /\ pc'[q] = "r_asleep" => pc[q] = "r_asleep" /\ quit
    BY <1>pc, <1>mine DEF Holding
  <2>2. \A q \in Procs : pc[q] = "r_asleep" => readopen
    BY <1>0, PipeAssumption DEF EndsInv, SidesInv, WriterPCs, Procs
  <2> QED
    BY <1>0, <1>pc, <1>side, <1>same, <2>0, <2>1, <2>2 DEF SleepInv, Asleep, quit, Procs
<1>eof. EofInv'
  <2>1. \A q \in Readers : /\ pc'[q] = "r_copy" => pc[q] = "r_copy"
                           /\ i'[q] = i[q] /\ (eof'[q] => eof[q])
    BY <1>pc, <1>arg, <1>side DEF Procs
  <2> QED
    BY <1>0, <1>same, <2>1 DEF EofInv, EofIsFinal
<1> QED
  BY <1>type, <1>sides, <1>lock, <1>loop, <1>room, <1>ends, <1>sleep, <1>eof DEF PipeInv

\* Taking one process out of those that hold an end.
LEMMA DropOne ==
  ASSUME NEW S, IsFiniteSet(S), NEW p \in S
  PROVE  /\ Cardinality(S \ {p}) = Cardinality(S) - 1
         /\ Cardinality(S) \in Nat \ {0}
         /\ Cardinality(S) = 1 => S = {p}
         /\ Cardinality(S) # 1 => \E q \in S : q # p
<1>1. IsFiniteSet(S \ {p}) /\ Cardinality(S \ {p}) = Cardinality(S) - 1
  BY FS_RemoveElement
<1>2. Cardinality(S) \in Nat /\ Cardinality(S \ {p}) \in Nat
  BY <1>1, FS_CardinalityType
<1>3. Cardinality(S \ {p}) = 0 <=> S \ {p} = {}
  BY <1>1, FS_EmptySet
<1> QED
  BY <1>1, <1>2, <1>3

\* fileclose(): the last reference, and no other, goes on to pipeclose().
LEMMA filecloseInv ==
  ASSUME PipeInv, NEW p \in Procs, fileclose(p)
  PROVE  PipeInv'
<1>0. /\ TypeOK /\ SidesInv /\ LockInv /\ LoopInv /\ RoomInv /\ RefInv /\ EndsInv
      /\ SleepInv /\ EofInv
  BY DEF PipeInv
<1> DEFINE label == IF last_ref(p) THEN "pipeclose" ELSE "closed"
<1>pc. /\ pc[p] = "user"
       /\ \A q \in Procs : pc'[q] = IF q = p THEN label ELSE pc[q]
  BY <1>0 DEF fileclose, Goto, TypeOK
<1>same. /\ full' = full /\ empty' = empty /\ count' = count
         /\ UNCHANGED <<readopen, writeopen, freed, lock, killed, n, i, eof>>
  BY SameCounters DEF fileclose, pipe, ends
<1>readers. IsFiniteSet(OpenBy(Readers)) /\ IsFiniteSet(OpenBy(Writers))
  BY FS_Subset, PipeAssumption DEF OpenBy, PipeAssumption
<1>ref. /\ \A e \in {"r", "w"} : ref'[e] = IF e = End(p) THEN ref[e] - 1 ELSE ref[e]
        /\ End(p) \in {"r", "w"} /\ (End(p) = "r" <=> p \in Readers)
  BY <1>0 DEF fileclose, TypeOK, End
<1>type. TypeOK'
  <2>1. ref' \in [{"r", "w"} -> Nat]
    <3>1. ref[End(p)] \in Nat \ {0}
      <4>1. CASE p \in Readers
        <5>1. p \in OpenBy(Readers) /\ End(p) = "r"
          BY <1>pc, <1>ref, <4>1 DEF OpenBy, Closing
        <5>2. Cardinality(OpenBy(Readers)) \in Nat \ {0}
          BY <1>readers, <5>1, DropOne
        <5> QED
          BY <1>0, <5>1, <5>2 DEF RefInv
      <4>2. CASE p \notin Readers
        <5>1. p \in OpenBy(Writers) /\ End(p) = "w"
          BY <1>pc, <1>ref, <4>2 DEF OpenBy, Closing, Procs
        <5>2. Cardinality(OpenBy(Writers)) \in Nat \ {0}
          BY <1>readers, <5>1, DropOne
        <5> QED
          BY <1>0, <5>1, <5>2 DEF RefInv
      <4> QED
        BY <4>1, <4>2
    <3> QED
      BY <1>0, <1>ref, <3>1 DEF fileclose, TypeOK
  <2> QED
    BY <1>0, <2>1 DEF fileclose, Goto, TypeOK, pipe, ends, PCs
<1>sides. SidesInv'
  BY <1>0, <1>pc DEF SidesInv, ReaderPCs, WriterPCs, Procs
<1>lock. LockInv'
  BY <1>0, <1>pc, <1>same DEF LockInv, Holding
<1>loop. LoopInv'
  BY <1>0, <1>pc, <1>same DEF LoopInv
<1>room. RoomInv'
  BY <1>0, <1>same DEF RoomInv
<1>ends. RefInv' /\ EndsInv'
  <2>1. CASE p \in Readers
    <3>1. p \in OpenBy(Readers) /\ End(p) = "r" /\ p \notin Writers
      BY <1>pc, <1>ref, <2>1, PipeAssumption DEF OpenBy, Closing, PipeAssumption
    <3>2. OpenBy(Readers)' = OpenBy(Readers) \ {p} /\ OpenBy(Writers)' = OpenBy(Writers)
      BY <1>pc, <2>1, <3>1 DEF OpenBy, Closing, Procs
    <3>3. RefInv'
      BY <1>0, <1>readers, <1>ref, <3>1, <3>2, DropOne DEF RefInv
    <3>4. CASE last_ref(p)
      <4>1. OpenBy(Readers) = {p}
        BY <1>0, <1>readers, <3>1, <3>4, DropOne DEF RefInv, last_ref
      <4>2. \A q \in Readers : q # p => pc[q] = "closed"
        BY <1>0, <1>pc, <2>1, <4>1 DEF EndsInv, OpenBy, Closing
      <4> QED
        BY <1>0, <1>pc, <1>same, <2>1, <3>1, <3>3, <3>4, <4>2 DEF EndsInv, Procs
    <3>5. CASE ~last_ref(p)
      <4>1. PICK q \in OpenBy(Readers) : q # p
        BY <1>0, <1>readers, <3>1, <3>5, DropOne DEF RefInv, last_ref
      <4>2. q \in Readers /\ pc[q] # "closed" /\ pc[q] # "pipeclose"
        BY DEF OpenBy, Closing
      <4> QED
        BY <1>0, <1>pc, <1>same, <2>1, <3>1, <3>3, <3>5, <4>1, <4>2 DEF EndsInv, Procs
    <3> QED
      BY <3>4, <3>5
  <2>2. CASE p \notin Readers
    <3>1. p \in OpenBy(Writers) /\ p \in Writers /\ End(p) = "w"
      BY <1>pc, <1>ref, <2>2 DEF OpenBy, Closing, Procs
    <3>2. OpenBy(Writers)' = OpenBy(Writers) \ {p} /\ OpenBy(Readers)' = OpenBy(Readers)
      BY <1>pc, <2>2, <3>1 DEF OpenBy, Closing, Procs
    <3>3. RefInv'
      BY <1>0, <1>readers, <1>ref, <3>1, <3>2, DropOne DEF RefInv
    <3>4. CASE last_ref(p)
      <4>1. OpenBy(Writers) = {p}
        BY <1>0, <1>readers, <3>1, <3>4, DropOne DEF RefInv, last_ref
      <4>2. \A q \in Writers : q # p => pc[q] = "closed"
        BY <1>0, <1>pc, <3>1, <4>1 DEF EndsInv, OpenBy, Closing
      <4> QED
        BY <1>0, <1>pc, <1>same, <2>2, <3>1, <3>3, <3>4, <4>2 DEF EndsInv, Procs
    <3>5. CASE ~last_ref(p)
      <4>1. PICK q \in OpenBy(Writers) : q # p
        BY <1>0, <1>readers, <3>1, <3>5, DropOne DEF RefInv, last_ref
      <4>2. q \in Writers /\ pc[q] # "closed" /\ pc[q] # "pipeclose"
        BY DEF OpenBy, Closing
      <4> QED
        BY <1>0, <1>pc, <1>same, <2>2, <3>1, <3>3, <3>5, <4>1, <4>2 DEF EndsInv, Procs
    <3> QED
      BY <3>4, <3>5
  <2> QED
    BY <2>1, <2>2
<1>sleep. SleepInv'
  BY <1>0, <1>pc, <1>same DEF SleepInv, Asleep, Procs
<1>eof. EofInv'
  BY <1>0, <1>pc, <1>same DEF EofInv, EofIsFinal, Procs
<1> QED
  BY <1>type, <1>sides, <1>lock, <1>loop, <1>room, <1>ends, <1>sleep, <1>eof DEF PipeInv

\* pipeclose() of an end wakes the other side; the second one frees the page.
LEMMA pipecloseInv ==
  ASSUME PipeInv, NEW p \in Procs, pipeclose(p)
  PROVE  PipeInv'
<1>0. /\ TypeOK /\ SidesInv /\ LockInv /\ LoopInv /\ RoomInv /\ RefInv /\ EndsInv
      /\ SleepInv /\ EofInv
  BY DEF PipeInv
<1> DEFINE side == IF p \in Writers THEN "r_asleep" ELSE "w_asleep"
           again == IF p \in Writers THEN "r_acquire" ELSE "w_acquire"
<1>free. /\ pc[p] = "pipeclose" /\ lock = Nobody
         /\ \A q \in Procs : lock # q /\ pc[q] \notin Holding
  BY <1>0, PipeAssumption DEF pipeclose, LockInv, PipeAssumption, Procs
<1>pc. \A q \in Procs : pc'[q] = IF q = p THEN "closed" ELSE IF pc[q] = side THEN again ELSE pc[q]
  <2>1. CASE p \in Writers
    <3>1. WakeReaders(p, "closed")
      BY <2>1, PipeAssumption DEF pipeclose, PipeAssumption
    <3> QED
      BY <2>1, <3>1, WakeEffect
  <2>2. CASE p \notin Writers
    <3>1. WakeWriters(p, "closed")
      BY <2>2 DEF pipeclose
    <3> QED
      BY <2>2, <3>1, WakeEffect
  <2> QED
    BY <2>1, <2>2
<1>same. /\ full' = full /\ empty' = empty /\ count' = count
         /\ UNCHANGED <<lock, ref, killed, n, i, eof>>
  BY SameCounters DEF pipeclose, pipe
<1>end. /\ readopen' = (readopen /\ p \in Writers) /\ writeopen' = (writeopen /\ p \notin Writers)
        /\ freed' = (~readopen' /\ ~writeopen')
  BY <1>0, PipeAssumption DEF pipeclose, unused, PipeAssumption, Procs, TypeOK
<1>type. TypeOK'
  <2>1. pc' \in [Procs -> PCs]
    BY <1>0, WakeTyped DEF pipeclose, PCs
  <2>2. readopen' \in BOOLEAN /\ writeopen' \in BOOLEAN /\ freed' \in BOOLEAN
    BY <1>end
  <2> QED
    BY <1>0, <2>1, <2>2 DEF pipeclose, TypeOK, pipe
<1>sides. SidesInv'
  BY <1>0, <1>pc, PipeAssumption DEF SidesInv, ReaderPCs, WriterPCs, PipeAssumption, Procs
<1>lock. LockInv'
  BY <1>pc, <1>free, <1>same DEF LockInv, Holding
<1>loop. LoopInv'
  BY <1>0, <1>pc, <1>same DEF LoopInv
<1>room. RoomInv'
  BY <1>0, <1>same DEF RoomInv
<1>ref. RefInv'
  <2>1. OpenBy(Readers)' = OpenBy(Readers) /\ OpenBy(Writers)' = OpenBy(Writers)
    BY <1>free, <1>pc DEF OpenBy, Closing, Procs
  <2> QED
    BY <1>0, <1>same, <2>1 DEF RefInv
<1>ends. RefInv' /\ EndsInv'
  <2>1. CASE p \in Writers
    <3>1. p \notin Readers /\ \A q \in Readers : (pc'[q] = "closed" <=> pc[q] = "closed")
                                             /\ (pc'[q] = "pipeclose" <=> pc[q] = "pipeclose")
      BY <1>pc, <2>1, PipeAssumption DEF Procs, PipeAssumption
    <3>2. \A q \in Writers : pc'[q] = "closed"
      BY <1>0, <1>free, <1>pc, <2>1 DEF EndsInv, Procs
    <3> QED
      BY <1>0, <1>ref, <1>end, <2>1, <3>1, <3>2 DEF EndsInv
  <2>2. CASE p \notin Writers
    <3>1. p \in Readers /\ \A q \in Writers : (pc'[q] = "closed" <=> pc[q] = "closed")
                                             /\ (pc'[q] = "pipeclose" <=> pc[q] = "pipeclose")
      BY <1>pc, <2>2 DEF Procs
    <3>2. \A q \in Readers : pc'[q] = "closed"
      BY <1>0, <1>free, <1>pc, <2>2, <3>1 DEF EndsInv, Procs
    <3> QED
      BY <1>0, <1>ref, <1>end, <2>2, <3>1, <3>2 DEF EndsInv
  <2> QED
    BY <2>1, <2>2
<1>sleep. SleepInv'
  <2>1. \A q \in Procs : /\ pc'[q] \notin {"w_sleep", "r_sleep", "r_copy"}
                         /\ pc[q] \notin {"w_test", "r_copy"}
                         /\ pc'[q] = "w_asleep" => pc[q] = "w_asleep" /\ p \in Writers
                         /\ pc'[q] = "r_asleep" => pc[q] = "r_asleep" /\ p \notin Writers
    BY <1>pc, <1>free DEF Holding
  <2> QED
    BY <1>0, <1>same, <1>end, <2>1 DEF SleepInv, Asleep, Procs
<1>eof. EofInv'
  <2>1. \A q \in Readers : pc'[q] # "r_copy"
    BY <1>free, <1>pc DEF Holding, Procs
  <2> QED
    BY <1>0, <1>same, <1>end, <2>1 DEF EofInv, EofIsFinal
<1> QED
  BY <1>type, <1>sides, <1>lock, <1>loop, <1>room, <1>ends, <1>sleep, <1>eof DEF PipeInv

\* kill() may wake a process that waits, never one that is about to sleep.
LEMMA killInv ==
  ASSUME PipeInv, NEW p \in Procs, kill(p)
  PROVE  PipeInv'
<1>0. /\ TypeOK /\ SidesInv /\ LockInv /\ LoopInv /\ RoomInv /\ RefInv /\ EndsInv
      /\ SleepInv /\ EofInv
  BY DEF PipeInv
<1>pc. \A q \in Procs : pc'[q] = IF q = p /\ pc[q] = "r_asleep" THEN "r_acquire"
                                 ELSE IF q = p /\ pc[q] = "w_asleep" THEN "w_acquire" ELSE pc[q]
  BY <1>0 DEF kill, TypeOK
<1>same. /\ full' = full /\ empty' = empty /\ count' = count
         /\ UNCHANGED <<readopen, writeopen, freed, lock, ref, n, i, eof>>
  BY SameCounters DEF kill, pipe, ends
<1>kill. \A q \in Procs : killed[q] => killed'[q]
  BY <1>0 DEF kill, TypeOK
<1>type. TypeOK'
  <2>1. pc' \in [Procs -> PCs]
    BY <1>0 DEF kill, TypeOK, PCs
  <2> QED
    BY <1>0, <2>1 DEF kill, TypeOK, pipe, ends
<1>sides. SidesInv'
  BY <1>0, <1>pc DEF SidesInv, ReaderPCs, WriterPCs, Procs
<1>lock. LockInv'
  BY <1>0, <1>pc, <1>same DEF LockInv, Holding
<1>loop. LoopInv'
  BY <1>0, <1>pc, <1>same DEF LoopInv
<1>room. RoomInv'
  BY <1>0, <1>same DEF RoomInv
<1>ends. RefInv' /\ EndsInv'
  BY <1>0, <1>pc, <1>same, NoneCloses DEF Closing
<1>sleep. SleepInv'
  BY <1>0, <1>pc, <1>same, <1>kill DEF SleepInv, Asleep, Procs
<1>eof. EofInv'
  BY <1>0, <1>pc, <1>same DEF EofInv, EofIsFinal, Procs
<1> QED
  BY <1>type, <1>sides, <1>lock, <1>loop, <1>room, <1>ends, <1>sleep, <1>eof DEF PipeInv

\* The pipe starts empty, open and unlocked.
LEMMA InitInv == Init => PipeInv
<1> SUFFICES ASSUME Init PROVE PipeInv
  OBVIOUS
<1>1. /\ 0 \in 0 .. WORD - 1 /\ 0 \in 0 .. MaxN /\ PIPESIZE \in Nat \ {0}
      /\ IsFiniteSet(Readers) /\ IsFiniteSet(Writers)
  BY PipeAssumption DEF PipeAssumption
<1>type. TypeOK
  <2>1. Cardinality(Readers) \in Nat /\ Cardinality(Writers) \in Nat
    BY <1>1, FS_CardinalityType
  <2>2. ref \in [{"r", "w"} -> Nat]
    BY <2>1 DEF Init
  <2> QED
    BY <1>1, <2>2, PipeAssumption DEF Init, TypeOK, PCs, PipeAssumption
<1>pc. lock = Nobody /\ \A p \in Procs : pc[p] = "user"
  BY DEF Init
<1>sides. SidesInv
  BY <1>pc DEF SidesInv, ReaderPCs, WriterPCs, Procs
<1>lock. LockInv
  BY <1>pc, PipeAssumption DEF LockInv, Holding, PipeAssumption, Procs
<1>loop. LoopInv
  BY <1>pc DEF LoopInv, Init
<1>room. RoomInv
  <2>1. count = 0
    BY <1>type, Tests DEF Init, empty
  <2> QED
    BY <1>1, <2>1 DEF RoomInv
<1>ends. RefInv /\ EndsInv
  <2>1. OpenBy(Readers) = Readers /\ OpenBy(Writers) = Writers
    BY <1>pc DEF OpenBy, Closing, Procs
  <2>2. RefInv
    BY <2>1 DEF RefInv, Init
  <2>3. EndsInv
    BY <1>pc, PipeAssumption DEF EndsInv, Init, Procs, PipeAssumption
  <2> QED
    BY <2>2, <2>3
<1>sleep. SleepInv
  BY <1>pc DEF SleepInv, Asleep
<1>eof. EofInv
  BY <1>pc DEF EofInv, EofIsFinal, Init, Procs
<1> QED
  BY <1>type, <1>sides, <1>lock, <1>loop, <1>room, <1>ends, <1>sleep, <1>eof DEF PipeInv

\* Doing nothing preserves it too.
LEMMA StutterInv ==
  ASSUME PipeInv, UNCHANGED vars
  PROVE  PipeInv'
BY DEF PipeInv, vars, TypeOK, SidesInv, LockInv, LoopInv, RoomInv, count, RefInv, OpenBy,
       EndsInv, SleepInv, EofInv, EofIsFinal, Asleep, full, empty

\* Every behaviour of the pipe keeps the invariant.
LEMMA Invariant == Spec => []PipeInv
<1>1. Init => PipeInv
  BY InitInv
<1>2. PipeInv /\ [Next]_vars => PipeInv'
  <2> SUFFICES ASSUME PipeInv, [Next]_vars PROVE PipeInv'
    OBVIOUS
  <2>1. CASE UNCHANGED vars
    BY <2>1, StutterInv
  <2>2. ASSUME NEW p \in Procs, NEW m \in 1..MaxN, Call(p, m) PROVE PipeInv'
    BY <2>2, CallInv
  <2>3. ASSUME NEW p \in Procs, Work(p) PROVE PipeInv'
    BY <2>3, acquireInv, r_testInv, r_sleepInv, r_copyInv, r_returnInv, w_fullInv,
       w_sleepInv, w_returnInv, w_storeInv, pipecloseInv DEF Work
  <2>4. ASSUME NEW p \in Procs, fileclose(p) PROVE PipeInv'
    BY <2>4, filecloseInv
  <2>5. ASSUME NEW p \in Procs, kill(p) PROVE PipeInv'
    BY <2>5, killInv
  <2> QED
    BY <2>1, <2>2, <2>3, <2>4, <2>5 DEF Next
<1> QED
  BY <1>1, <1>2, PTL DEF Spec

\* Nobody in piperead() or pipewrite() has missed a wakeup, but for the one a
\* killed writer owes, and readers and writers do not wait for each other.
THEOREM NoLostWakeup == Spec => []WakeupInv
<1>1. PipeInv => WakeupInv
  <2> SUFFICES ASSUME PipeInv PROVE WakeupInv
    OBVIOUS
  <2>1. TypeOK /\ SidesInv /\ LockInv /\ SleepInv
    BY DEF PipeInv
  <2>2. lock = Nobody => \A p \in Procs : pc[p] \notin Holding
    BY <2>1, PipeAssumption DEF LockInv, PipeAssumption, Procs
  <2>3. WriterWaitsForRoom
    BY <2>1, <2>2 DEF WriterWaitsForRoom, SleepInv, Asleep, Holding, Procs
  <2>4. ReaderWaitsOrWriterKilled
    BY <2>1, <2>2 DEF ReaderWaitsOrWriterKilled, SleepInv, Asleep, Holding, Procs
  <2>5. NeverBothAsleep
    BY <2>1 DEF NeverBothAsleep, SleepInv
  <2> QED
    BY <2>1, <2>3, <2>4, <2>5 DEF WakeupInv
<1> QED
  BY <1>1, Invariant, PTL

\* read() returns 0 only when the last writer has closed and nothing is left,
\* and then it is so for good.
THEOREM EofOnlyAtEnd == Spec => []EofIsFinal
<1>1. PipeInv => EofIsFinal
  BY DEF PipeInv, EofInv
<1> QED
  BY <1>1, Invariant, PTL

\* The page is freed exactly when the last process is out of pipeclose().
THEOREM FreedByLast == Spec => []FreedOnce
<1>1. PipeInv => FreedOnce
  <2> SUFFICES ASSUME PipeInv PROVE FreedOnce
    OBVIOUS
  <2>1. EndsInv
    BY DEF PipeInv
  <2> QED
    BY <2>1, PipeAssumption DEF EndsInv, FreedOnce, NoUseAfterFree, FreedAtLast, Procs, PipeAssumption
<1> QED
  BY <1>1, Invariant, PTL

-----------------------------------------------------------------------------
(* The ring buffer is a FIFO. *)

\* The bytes in the pipe: the queue of the refinement mapping.
Queue == [k \in 1..count |-> data[(nread + k - 1) % PIPESIZE]]

\* An index into the ring does not see the wrap of a counter.
LEMMA IndexWrap ==
  ASSUME NEW x \in Int, NEW y \in Int, y = x \/ y = x - WORD
  PROVE  y % PIPESIZE = x % PIPESIZE
<1>1. PIPESIZE \in Nat \ {0} /\ WORD \in Nat /\ WORD % PIPESIZE = 0
  BY PipeAssumption DEF PipeAssumption
<1> DEFINE k == WORD \div PIPESIZE
<1>2. k \in Int /\ WORD = PIPESIZE * k
  BY <1>1, DivMod
<1> HIDE DEF k
<1>3. (y + PIPESIZE * k) % PIPESIZE = y % PIPESIZE
  BY <1>1, <1>2, ModShift
<1> QED
  BY <1>2, <1>3

\* What lies between two counters is a sequence of bytes.
LEMMA RingType ==
  ASSUME NEW d \in [0 .. PIPESIZE - 1 -> Bytes], NEW r \in 0 .. WORD - 1, NEW c \in Nat
  PROVE  /\ [k \in 1..c |-> d[(r + k - 1) % PIPESIZE]] \in Seq(Bytes)
         /\ Len([k \in 1..c |-> d[(r + k - 1) % PIPESIZE]]) = c
<1>1. ASSUME NEW k \in 1..c
      PROVE  d[(r + k - 1) % PIPESIZE] \in Bytes
  <2>1. r + k - 1 \in Int /\ PIPESIZE \in Nat \ {0}
    BY PipeAssumption DEF PipeAssumption
  <2>2. (r + k - 1) % PIPESIZE \in 0 .. PIPESIZE - 1
    BY <2>1, DivMod
  <2> QED
    BY <2>2
<1> QED
  BY <1>1

\* The queue is a sequence of bytes as long as the count.
LEMMA QueueType ==
  ASSUME TypeOK
  PROVE  Queue \in Seq(Bytes) /\ Len(Queue) = count /\ count \in Nat
<1>1. count \in Nat
  BY Distance, PipeAssumption DEF TypeOK, count, PipeAssumption
<1> QED
  BY <1>1, RingType, ZenonT(30) DEF Queue, TypeOK

\* piperead() takes the oldest byte.
LEMMA QueueGet ==
  ASSUME TypeOK, TypeOK', RoomInv, ~empty,
         nread' = inc(nread), UNCHANGED <<nwrite, data>>
  PROVE  Queue # <<>> /\ data[nread % PIPESIZE] = Head(Queue) /\ Queue' = Tail(Queue)
<1>1. Queue \in Seq(Bytes) /\ Len(Queue) = count /\ count \in Nat /\ count # 0
  BY QueueType, Tests
<1>2. count' = count - 1
  BY CountSteps
<1>3. nread \in 0 .. WORD - 1 /\ WORD \in Nat
  BY PipeAssumption DEF TypeOK, PipeAssumption
<1>4. Queue # <<>> /\ data[nread % PIPESIZE] = Head(Queue)
  <2>1. Head(Queue) = Queue[1]
    BY <1>1
  <2>2. nread + 1 - 1 = nread
    BY <1>3
  <2> QED
    BY <1>1, <2>1, <2>2 DEF Queue
<1>5. ASSUME NEW k \in 1 .. count - 1
      PROVE  Queue'[k] = Queue[k + 1]
  <2>1. (inc(nread) + k - 1) % PIPESIZE = (nread + (k + 1) - 1) % PIPESIZE
    <3>1. inc(nread) = nread + 1 \/ inc(nread) = nread + 1 - WORD
      BY <1>3, IncType
    <3> DEFINE x == nread + (k + 1) - 1
               y == inc(nread) + k - 1
    <3>2. x \in Int /\ y \in Int /\ (y = x \/ y = x - WORD)
      BY <1>1, <1>3, <3>1
    <3> HIDE DEF x, y
    <3>3. y % PIPESIZE = x % PIPESIZE
      BY <3>2, IndexWrap
    <3> QED
      BY <3>3 DEF x, y
  <2>2. k \in 1..count' /\ k + 1 \in 1..count
    BY <1>1, <1>2
  <2>3. Queue'[k] = data[(inc(nread) + k - 1) % PIPESIZE]
    BY <2>2 DEF Queue
  <2>4. Queue[k + 1] = data[(nread + (k + 1) - 1) % PIPESIZE]
    BY <2>2 DEF Queue
  <2> QED
    BY <2>1, <2>3, <2>4
<1>6. Queue' = Tail(Queue)
  <2>0. Queue' \in Seq(Bytes) /\ Len(Queue') = count - 1
    <3>1. /\ data' \in [0 .. PIPESIZE - 1 -> Bytes] /\ nread' \in 0 .. WORD - 1
          /\ count' \in Nat
      BY <1>1, <1>2 DEF TypeOK
    <3>2. Queue' \in Seq(Bytes) /\ Len(Queue') = count'
      BY <3>1, RingType, ZenonT(30) DEF Queue
    <3> QED
      BY <1>2, <3>2
  <2>1. /\ Tail(Queue) \in Seq(Bytes) /\ Len(Tail(Queue)) = count - 1
        /\ \A k \in 1 .. count - 1 : Tail(Queue)[k] = Queue[k + 1]
    BY <1>1, <1>4, HeadTailProperties
  <2> QED
    BY <1>5, <2>0, <2>1, SeqEqual
<1> QED
  BY <1>4, <1>6

\* pipewrite() appends a byte and overwrites none.
LEMMA QueuePut ==
  ASSUME TypeOK, TypeOK', RoomInv, ~full, NEW b \in Bytes,
         nwrite' = inc(nwrite), nread' = nread,
         data' = [data EXCEPT ![nwrite % PIPESIZE] = b]
  PROVE  Len(Queue) < PIPESIZE /\ Queue' = Append(Queue, b)
<1>1. Queue \in Seq(Bytes) /\ Len(Queue) = count /\ count \in Nat /\ count < PIPESIZE
  BY QueueType, Tests, PipeAssumption DEF RoomInv, PipeAssumption
<1>2. count' = count + 1
  BY CountSteps
<1>3. /\ nread \in 0 .. WORD - 1 /\ nwrite \in 0 .. WORD - 1 /\ WORD \in Nat
      /\ PIPESIZE \in Nat \ {0}
  BY PipeAssumption DEF TypeOK, PipeAssumption
<1>4. nwrite % PIPESIZE = (nread + count) % PIPESIZE
  <2>1. nwrite = nread + count \/ nwrite = nread + count - WORD
    BY <1>3, Distance DEF count
  <2> DEFINE x == nread + count
  <2>2. x \in Int /\ nwrite \in Int /\ (nwrite = x \/ nwrite = x - WORD)
    BY <1>1, <1>3, <2>1
  <2> HIDE DEF x
  <2>3. nwrite % PIPESIZE = x % PIPESIZE
    BY <2>2, IndexWrap
  <2> QED
    BY <2>3 DEF x
<1>5. nwrite % PIPESIZE \in 0 .. PIPESIZE - 1
  BY <1>3, DivMod
<1>6. ASSUME NEW k \in 1..count
      PROVE  Queue'[k] = Queue[k]
  <2> DEFINE x == nread + k - 1
             y == nread + count
  <2>1. x \in Int /\ y \in Int /\ x < y /\ y < x + PIPESIZE
    BY <1>1, <1>3
  <2> HIDE DEF x, y
  <2>2. x % PIPESIZE # y % PIPESIZE /\ x % PIPESIZE \in 0 .. PIPESIZE - 1
    BY <1>3, <2>1, ModApart, DivMod
  <2>3. (nread + k - 1) % PIPESIZE # nwrite % PIPESIZE
        /\ (nread + k - 1) % PIPESIZE \in 0 .. PIPESIZE - 1
    BY <1>4, <2>2 DEF x, y
  <2>4. data'[(nread + k - 1) % PIPESIZE] = data[(nread + k - 1) % PIPESIZE]
    BY <1>5, <2>3 DEF TypeOK
  <2>5. k \in 1..count'
    BY <1>1, <1>2
  <2> QED
    BY <2>4, <2>5 DEF Queue
<1>7. Queue'[count + 1] = b
  <2>1. count + 1 \in 1..count' /\ nread + (count + 1) - 1 = nread + count
    BY <1>1, <1>2, <1>3
  <2>2. data'[nwrite % PIPESIZE] = b
    BY <1>5 DEF TypeOK
  <2> QED
    BY <1>4, <2>1, <2>2 DEF Queue
<1>8. Queue' = Append(Queue, b)
  <2>0. /\ Append(Queue, b) \in Seq(Bytes) /\ Len(Append(Queue, b)) = count + 1
        /\ \A k \in 1 .. count : Append(Queue, b)[k] = Queue[k]
        /\ Append(Queue, b)[count + 1] = b
    BY <1>1, AppendProperties
  <2>1. Queue' \in Seq(Bytes) /\ Len(Queue') = count + 1
    <3>1. /\ data' \in [0 .. PIPESIZE - 1 -> Bytes] /\ nread' \in 0 .. WORD - 1
          /\ count' \in Nat
      BY <1>1, <1>2 DEF TypeOK
    <3> DEFINE d == data'
               r == nread'
               c == count'
               q == Queue'
    <3>2. /\ d \in [0 .. PIPESIZE - 1 -> Bytes] /\ r \in 0 .. WORD - 1 /\ c \in Nat
          /\ q = [k \in 1..c |-> d[(r + k - 1) % PIPESIZE]]
      BY <3>1 DEF Queue
    <3> HIDE DEF d, r, c, q
    <3>3. q \in Seq(Bytes) /\ Len(q) = c
      BY <3>2, RingType
    <3> QED
      BY <1>2, <3>3 DEF c, q
  <2>2. \A k \in 1 .. count + 1 : Queue'[k] = Append(Queue, b)[k]
    BY <1>1, <1>6, <1>7, <2>0
  <2> QED
    BY <2>0, <2>1, <2>2, SeqEqual
<1> QED
  BY <1>1, <1>8

\* The ring buffer with its wrapping counters implements a bounded FIFO stream:
\* for any number of readers and writers no byte is lost, duplicated, reordered
\* or overwritten, and none enters after the last writer has closed.
THEOREM PipeIsStream == Spec => IsStream
<1>1. Init => Stream!Init
  <2> SUFFICES ASSUME Init PROVE Stream!Init
    OBVIOUS
  <2>1. TypeOK
    BY InitInv DEF PipeInv
  <2>2. count = 0 /\ Queue \in Seq(Bytes) /\ Len(Queue) = count
    BY <2>1, QueueType, Tests DEF Init, empty
  <2>3. Queue = <<>>
    BY <2>2
  <2> QED
    BY <2>3, PipeAssumption DEF Stream!Init, Queue, Init, PipeAssumption
<1>2. PipeInv /\ PipeInv' /\ [Next]_vars => [Stream!Next]_(Stream!vars)
  <2> SUFFICES ASSUME PipeInv, PipeInv', [Next]_vars
               PROVE  [Stream!Next]_(Stream!vars)
    OBVIOUS
  <2>1. TypeOK /\ TypeOK' /\ RoomInv /\ EndsInv /\ SidesInv
    BY DEF PipeInv
  <2>2. UNCHANGED <<data, nread, nwrite>> => UNCHANGED Queue
    BY DEF Queue, count
  <2>3. ASSUME UNCHANGED <<data, nread, nwrite, got, writeopen>>
        PROVE  UNCHANGED Stream!vars
    BY <2>2, <2>3 DEF Stream!vars, Queue
  <2>4. CASE UNCHANGED vars
    BY <2>3, <2>4 DEF vars
  <2>5. ASSUME NEW p \in Procs, r_copy(p) PROVE Stream!Next
    <3>1. Queue # <<>> /\ got' = Head(Queue) /\ Queue' = Tail(Queue) /\ writeopen' = writeopen
      BY <2>1, <2>5, QueueGet DEF r_copy, ends
    <3> QED
      BY <3>1 DEF Stream!Next, Stream!Get, Queue
  <2>6. ASSUME NEW p \in Procs, NEW b \in Bytes, w_store(p, b) PROVE Stream!Next
    <3>1. Len(Queue) < PIPESIZE /\ Queue' = Append(Queue, b)
      BY <2>1, <2>6, QueuePut DEF w_store
    <3>2. writeopen /\ UNCHANGED <<got, writeopen>>
      BY <2>1, <2>6 DEF w_store, ends, EndsInv, SidesInv, ReaderPCs, Procs
    <3> QED
      BY <3>1, <3>2 DEF Stream!Next, Stream!Put, Queue
  <2>7. ASSUME NEW p \in Procs, pipeclose(p) PROVE [Stream!Next]_(Stream!vars)
    <3>1. UNCHANGED <<data, nread, nwrite, got>>
      BY <2>7 DEF pipeclose, pipe
    <3>2. CASE UNCHANGED writeopen
      BY <2>3, <3>1, <3>2
    <3>3. CASE writeopen' = FALSE
      BY <2>2, <3>1, <3>3 DEF Stream!Next, Stream!Close, Queue
    <3> QED
      BY <2>7, <3>2, <3>3 DEF pipeclose
  <2>8. ASSUME NEW p \in Procs,
               \/ \E m \in 1..MaxN : Call(p, m)
               \/ acquire(p) \/ r_test(p) \/ r_sleep(p) \/ r_return(p)
               \/ w_full(p) \/ w_sleep(p) \/ w_return(p) \/ fileclose(p) \/ kill(p)
        PROVE  UNCHANGED Stream!vars
    <3>1. UNCHANGED <<data, nread, nwrite, got, writeopen>>
      BY <2>8 DEF Call, acquire, r_test, r_sleep, r_return, w_full, w_sleep, w_return,
                  fileclose, kill, pipe, ends
    <3> QED
      BY <2>3, <3>1
  <2> QED
    BY <2>4, <2>5, <2>6, <2>7, <2>8 DEF Next, Work
<1> QED
  BY <1>1, <1>2, Invariant, PTL DEF Spec, IsStream, Stream!Spec

=============================================================================

------------------------------ MODULE ProcProofs ------------------------------
(***************************************************************************)
(* Proofs about ProcTable, for any number of slots and processors: the     *)
(* process table of os/5/proc.c stays consistent, exit() leaves no child   *)
(* without a live parent, and no exit() or kill() escapes a wait().        *)
(***************************************************************************)
EXTENDS ProcTable, TLAPS, FiniteSetTheorems, WellFoundedInduction

Live == {"SLEEPING", "RUNNABLE", "RUNNING"}
Filling == {"alloc", "copy", "ready"}

\* A processor runs one RUNNING process, and every RUNNING process is run.
CpuInv ==
  /\ \A c \in Cpus : cpu[c] # none => state[cpu[c]] = "RUNNING"
  /\ \A c, d \in Cpus : cpu[c] # none /\ cpu[c] = cpu[d] => c = d
  /\ \A s \in Slots : state[s] = "RUNNING" => \E c \in Cpus : cpu[c] = s

\* A slot being filled has one fork() at work on it, and no other slot has one.
ForkInv ==
  /\ \A p \in Slots : kpc[p] \in Filling <=> np[p] # none
  /\ \A p \in Slots : np[p] # none => state[np[p]] = "EMBRYO"
  /\ \A p, q \in Slots : np[p] # none /\ np[p] = np[q] => p = q
  /\ \A s \in Slots : state[s] = "EMBRYO" => \E p \in Slots : np[p] = s

\* A slot without a live process is at the start of user code.
DormantInv == \A p \in Slots : state[p] \notin Live => kpc[p] = "user"

\* A kernel stack belongs to a process or to a fork() past allocproc().
StackInv ==
  \A s \in Slots : kstack[s] <=> \/ state[s] \notin {"UNUSED", "EMBRYO"}
                                 \/ \E p \in Slots : np[p] = s /\ kpc[p] # "alloc"

\* p->parent: none in a slot that is free or not yet filled, and a live process
\* in the others.  init is live, until it panics.
ParentInv ==
  /\ parent[initproc] = none /\ state[initproc] \in Live
  /\ \A s \in Slots : state[s] = "UNUSED" => parent[s] = none
  /\ \A p \in Slots : np[p] # none =>
       parent[np[p]] = IF kpc[p] = "ready" THEN p ELSE none
  /\ \A s \in Slots \ {initproc} : state[s] \notin {"UNUSED", "EMBRYO"} =>
       parent[s] \in Slots /\ state[parent[s]] \in Live
  /\ \A s \in Slots : parent[s] # s

\* A process sleeps in wait() on itself or in sys_sleep() on &ticks.
SleepInv ==
  \A p \in Slots : state[p] = "SLEEPING" =>
    \/ chan[p] = p /\ kpc[p] = "wait"
    \/ chan[p] = ticks /\ kpc[p] = "tick_check"

\* init does not get into exit() without a panic.
PanicInv == kpc[initproc] = "exit" => panicked

\* The inductive invariant.
ProcInv ==
  /\ TypeOK /\ CpuInv /\ UniquePids /\ ForkInv /\ DormantInv /\ StackInv
  /\ ParentInv /\ SleepInv /\ NoMissedExit /\ PanicInv

-----------------------------------------------------------------------------
(* Slots, and what a step may leave alone. *)

\* A set of naturals has a least element.
LEMMA LeastNatural ==
  ASSUME NEW S \in SUBSET Nat, S # {}
  PROVE  \E s \in S : \A t \in S : s <= t
<1> DEFINE R == OpToRel(<, Nat)
<1>1. IsWellFoundedOn(R, Nat)
  BY NatLessThanWellFounded, Zenon
<1>2. R = {ss \in Nat \X Nat : ss[1] < ss[2]}
  BY Zenon DEF OpToRel
<1> HIDE DEF R
<1>3. \A s, t \in Nat : t < s => <<t, s>> \in R
  BY <1>2
<1>4. PICK s \in S : \A t \in S : ~(<<t, s>> \in R)
  BY <1>1, WFMin
<1>5. \A t \in S : ~(t < s)
  BY <1>3, <1>4
<1> QED
  BY <1>5

\* The null pointer and &ticks are no slots; init is one.
LEMMA SlotFacts ==
  /\ none \notin Slots /\ initproc \in Slots /\ ticks \notin Slots /\ ticks # none
  /\ Slots \in SUBSET Nat
BY TableAssumption DEF TableAssumption, none, initproc, ticks, Slots

\* A loop over the table stops at the first slot it looks for.
LEMMA FirstSlot ==
  ASSUME NEW S \in SUBSET Slots, S # {}
  PROVE  Smallest(S) \in S
<1>1. S \in SUBSET Nat
  BY SlotFacts
<1> QED
  BY <1>1, LeastNatural DEF Smallest

\* Processors do not notice a step that starts and stops nobody.
LEMMA SameCpus ==
  ASSUME TypeOK, CpuInv, UNCHANGED cpu,
         \A s \in Slots : state'[s] = "RUNNING" <=> state[s] = "RUNNING"
  PROVE  CpuInv'
BY DEF CpuInv, TypeOK

\* sched() takes the process off its processor, and off no other.
LEMMA SchedCpus ==
  ASSUME TypeOK, CpuInv, NEW p \in Slots, state[p] = "RUNNING", sched(p),
         state'[p] # "RUNNING",
         \A s \in Slots : s # p => (state'[s] = "RUNNING" <=> state[s] = "RUNNING")
  PROVE  CpuInv' /\ cpu' \in [Cpus -> Slots \union {none}]
<1>1. cpu' \in [Cpus -> Slots \union {none}]
  BY DEF TypeOK, sched
<1>2. \A c \in Cpus : cpu'[c] = IF cpu[c] = p THEN none ELSE cpu[c]
  BY DEF sched
<1>3. \A c \in Cpus : cpu[c] = none \/ cpu[c] \in Slots
  BY DEF TypeOK
<1>4. CpuInv'
  <2>1. \A c \in Cpus : cpu'[c] # none => cpu'[c] = cpu[c] /\ cpu[c] \in Slots /\ cpu[c] # p
    BY <1>2, <1>3
  <2>2. \A c \in Cpus : cpu'[c] # none => state'[cpu'[c]] = "RUNNING"
    BY <2>1 DEF CpuInv
  <2>3. \A c, d \in Cpus : cpu'[c] # none /\ cpu'[c] = cpu'[d] => c = d
    BY <2>1 DEF CpuInv
  <2>4. \A s \in Slots : state'[s] = "RUNNING" => \E c \in Cpus : cpu'[c] = s
    <3> SUFFICES ASSUME NEW s \in Slots, state'[s] = "RUNNING"
                 PROVE  \E c \in Cpus : cpu'[c] = s
      OBVIOUS
    <3>1. s # p /\ state[s] = "RUNNING"
      OBVIOUS
    <3>2. PICK c \in Cpus : cpu[c] = s
      BY <3>1 DEF CpuInv
    <3> QED
      BY <1>2, <3>1, <3>2
  <2> QED
    BY <2>2, <2>3, <2>4 DEF CpuInv
<1> QED
  BY <1>1, <1>4

\* The slots being filled, when no fork() takes or leaves one.
LEMMA SameForks ==
  ASSUME TypeOK, ForkInv, UNCHANGED np,
         \A s \in Slots : state'[s] = "EMBRYO" <=> state[s] = "EMBRYO",
         \A p \in Slots : kpc'[p] \in Filling <=> kpc[p] \in Filling
  PROVE  ForkInv'
BY DEF ForkInv, TypeOK

\* Kernel stacks, when no fork() moves and no slot is taken or freed.
LEMMA SameStacks ==
  ASSUME TypeOK, ForkInv, StackInv, UNCHANGED <<np, kstack>>,
         \A s \in Slots : state'[s] \in {"UNUSED", "EMBRYO"} <=> state[s] \in {"UNUSED", "EMBRYO"},
         \A p \in Slots : kpc[p] \in Filling \/ kpc'[p] \in Filling => kpc'[p] = kpc[p]
  PROVE  StackInv'
<1>1. \A s, p \in Slots : np[p] = s => kpc'[p] = kpc[p]
  BY SlotFacts DEF ForkInv
<1> QED
  BY <1>1 DEF StackInv

\* Pids, when none is given out and no slot is taken.
LEMMA SamePids ==
  ASSUME UniquePids, UNCHANGED pid,
         \A s \in Slots : state[s] = "UNUSED" => state'[s] = "UNUSED"
  PROVE  UniquePids'
BY DEF UniquePids

\* Parents, when nobody is born, dies or is reaped.
LEMMA SameParents ==
  ASSUME TypeOK, ForkInv, ParentInv, UNCHANGED <<np, parent>>,
         \A s \in Slots : state'[s] = state[s] \/ (state[s] \in Live /\ state'[s] \in Live),
         \A p \in Slots : kpc[p] \in Filling => kpc'[p] = kpc[p]
  PROVE  ParentInv'
<1>1. \A s \in Slots : /\ state'[s] \in Live <=> state[s] \in Live
                       /\ state'[s] = "UNUSED" <=> state[s] = "UNUSED"
                       /\ state'[s] = "EMBRYO" <=> state[s] = "EMBRYO"
  BY DEF Live
<1>2. \A p \in Slots : np[p] # none => kpc'[p] = kpc[p]
  BY DEF ForkInv
<1> QED
  BY <1>1, <1>2, SlotFacts DEF ParentInv
-----------------------------------------------------------------------------
(* Every action preserves ProcInv. *)

\* A running process that is not filling a slot goes on to another such place;
\* sleep() may have left its channel to clear.
LEMMA MoveInv ==
  ASSUME ProcInv, NEW p \in Slots, NEW label \in KPCs \ Filling,
         state[p] = "RUNNING", kpc[p] \notin Filling, Goto(p, label),
         UNCHANGED <<state, pid, parent, killed, kstack, nextpid, cpu, scan, np>>,
         UNCHANGED chan \/ chan' = [chan EXCEPT ![p] = none],
         ~panicked, panicked' = (panicked \/ (label = "exit" /\ p = initproc))
  PROVE  ProcInv'
<1>0. /\ TypeOK /\ CpuInv /\ UniquePids /\ ForkInv /\ DormantInv /\ StackInv
      /\ ParentInv /\ SleepInv /\ NoMissedExit /\ PanicInv
  BY DEF ProcInv
<1>pc. \A s \in Slots : kpc'[s] = IF s = p THEN label ELSE kpc[s]
  BY <1>0 DEF Goto, TypeOK
<1>chan. \A s \in Slots : s # p => chan'[s] = chan[s]
  BY <1>0 DEF TypeOK
<1>type. TypeOK'
  BY <1>0 DEF TypeOK, Goto
<1>cpu. CpuInv'
  BY <1>0, SameCpus
<1>pids. UniquePids'
  BY <1>0, SamePids
<1>fork. ForkInv'
  BY <1>0, <1>pc, SameForks
<1>dorm. DormantInv'
  BY <1>0, <1>pc DEF DormantInv, Live
<1>stack. StackInv'
  BY <1>0, <1>pc, SameStacks
<1>par. ParentInv'
  BY <1>0, <1>pc, SameParents
<1>sleep. SleepInv'
  BY <1>0, <1>pc, <1>chan DEF SleepInv
<1>miss. NoMissedExit'
  BY <1>0, <1>chan DEF NoMissedExit
<1>panic. PanicInv'
  BY <1>0, <1>pc, SlotFacts DEF PanicInv
<1> QED
  BY <1>type, <1>cpu, <1>pids, <1>fork, <1>dorm, <1>stack, <1>par, <1>sleep, <1>miss,
     <1>panic DEF ProcInv

\* A wakeup: some sleeping processes become RUNNABLE, nothing else happens.
LEMMA WakeInv ==
  ASSUME ProcInv, state' \in [Slots -> States],
         \A s \in Slots : state'[s] = state[s] \/ (state[s] = "SLEEPING" /\ state'[s] = "RUNNABLE"),
         killed' \in [Slots -> BOOLEAN],
         \A s \in Slots : state'[s] = "SLEEPING" => killed'[s] = killed[s],
         UNCHANGED <<pid, parent, chan, kstack, nextpid, cpu, scan, kpc, np, panicked>>
  PROVE  ProcInv'
<1>0. /\ TypeOK /\ CpuInv /\ UniquePids /\ ForkInv /\ DormantInv /\ StackInv
      /\ ParentInv /\ SleepInv /\ NoMissedExit /\ PanicInv
  BY DEF ProcInv
<1>type. TypeOK'
  BY <1>0 DEF TypeOK
<1>cpu. CpuInv'
  BY <1>0, SameCpus
<1>pids. UniquePids'
  BY <1>0, SamePids
<1>fork. ForkInv'
  BY <1>0, SameForks
<1>dorm. DormantInv'
  BY <1>0 DEF DormantInv, Live
<1>stack. StackInv'
  BY <1>0, SameStacks
<1>par. ParentInv'
  BY <1>0, SameParents DEF Live
<1>sleep. SleepInv'
  BY <1>0 DEF SleepInv
<1>miss. NoMissedExit'
  BY <1>0 DEF NoMissedExit
<1>panic. PanicInv'
  BY <1>0 DEF PanicInv
<1> QED
  BY <1>type, <1>cpu, <1>pids, <1>fork, <1>dorm, <1>stack, <1>par, <1>sleep, <1>miss,
     <1>panic DEF ProcInv

\* fork() that fails goes back to user code, or to init's exit().
LEMMA ForkFailedPlace ==
  ASSUME NEW p \in Slots, ForkFailed(p)
  PROVE  \E label \in KPCs \ Filling : label # "exit" /\ Goto(p, label)
<1>1. "user" \in KPCs \ Filling /\ "fork_failed" \in KPCs \ Filling
  BY DEF KPCs, Filling
<1> QED
  BY <1>1 DEF ForkFailed

\* allocproc() takes a free slot for this fork() alone, with a new pid.
LEMMA allocprocInv ==
  ASSUME ProcInv, NEW p \in Slots, allocproc(p)
  PROVE  ProcInv'
<1>0. /\ TypeOK /\ CpuInv /\ UniquePids /\ ForkInv /\ DormantInv /\ StackInv
      /\ ParentInv /\ SleepInv /\ NoMissedExit /\ PanicInv
  BY DEF ProcInv
<1> DEFINE free == {t \in Slots : state[t] = "UNUSED"}
           s == Smallest(free)
<1>1. /\ state[p] = "RUNNING" /\ kpc[p] = "user" /\ kpc[p] \notin Filling
      /\ UNCHANGED <<parent, chan, killed, kstack, cpu, scan, panicked>>
  BY DEF allocproc, At, Filling
<1>2. CASE free = {}
  <2>1. ForkFailed(p) /\ UNCHANGED <<state, pid, nextpid, np>>
    BY <1>2 DEF allocproc
  <2>2. PICK label \in KPCs \ Filling : label # "exit" /\ Goto(p, label)
    BY <2>1, ForkFailedPlace
  <2>3. ~panicked /\ panicked' = (panicked \/ (label = "exit" /\ p = initproc))
    BY <1>0, <1>1, <2>2 DEF allocproc, At, TypeOK
  <2> QED
    BY <1>1, <2>1, <2>2, <2>3, MoveInv
<1>3. CASE free # {}
  <2>1. s \in Slots /\ state[s] = "UNUSED"
    BY <1>3, FirstSlot
  <2>2. /\ nextpid <= MaxPid /\ nextpid' = nextpid + 1
        /\ state' = [state EXCEPT ![s] = "EMBRYO"]
        /\ pid' = [pid EXCEPT ![s] = nextpid]
        /\ np' = [np EXCEPT ![p] = s] /\ Goto(p, "alloc")
    BY <1>3 DEF allocproc, newpid
  <2> HIDE DEF s
  <2>3. \A t \in Slots : /\ state'[t] = IF t = s THEN "EMBRYO" ELSE state[t]
                         /\ pid'[t] = IF t = s THEN nextpid ELSE pid[t]
                         /\ np'[t] = IF t = p THEN s ELSE np[t]
                         /\ kpc'[t] = IF t = p THEN "alloc" ELSE kpc[t]
    BY <1>0, <2>2 DEF TypeOK, Goto
  <2>4. /\ s # p /\ np[p] = none /\ s # none /\ s # initproc /\ parent[s] = none
        /\ \A q \in Slots : np[q] # s
    BY <1>0, <1>1, <2>1, SlotFacts DEF ForkInv, ParentInv, Live
  <2>type. TypeOK'
    <3>1. nextpid' \in 2 .. MaxPid + 1 /\ 0 .. nextpid - 1 \subseteq 0 .. nextpid' - 1
          /\ nextpid \in 0 .. nextpid' - 1
      BY <1>0, <2>2, TableAssumption DEF TypeOK, TableAssumption
    <3>2. pid' \in [Slots -> 0 .. nextpid' - 1]
      BY <1>0, <2>2, <3>1 DEF TypeOK
    <3> QED
      BY <1>0, <1>1, <2>1, <2>2, <3>1, <3>2 DEF TypeOK, Goto, States, KPCs
  <2>cpu. CpuInv'
    BY <1>0, <1>1, <2>1, <2>3, SameCpus
  <2>pids. UniquePids'
    <3>1. \A t \in Slots : pid[t] # nextpid
      BY <1>0 DEF TypeOK
    <3> QED
      BY <1>0, <2>3, <3>1 DEF UniquePids
  <2>fork. ForkInv'
    <3>1. \A q \in Slots : kpc'[q] \in Filling <=> np'[q] # none
      BY <1>0, <2>3, <2>4 DEF ForkInv, Filling
    <3>2. \A q \in Slots : np'[q] # none => state'[np'[q]] = "EMBRYO"
      BY <1>0, <2>1, <2>3 DEF ForkInv, TypeOK
    <3>3. \A q, r \in Slots : np'[q] # none /\ np'[q] = np'[r] => q = r
      BY <1>0, <2>3, <2>4 DEF ForkInv
    <3>4. \A t \in Slots : state'[t] = "EMBRYO" => \E q \in Slots : np'[q] = t
      <4> SUFFICES ASSUME NEW t \in Slots, state'[t] = "EMBRYO"
                   PROVE  \E q \in Slots : np'[q] = t
        OBVIOUS
      <4>1. CASE t = s
        BY <2>3, <4>1
      <4>2. CASE t # s
        <5>1. PICK q \in Slots : np[q] = t
          BY <1>0, <2>3, <4>2 DEF ForkInv
        <5>2. q # p
          BY <2>4, <5>1, SlotFacts
        <5> QED
          BY <2>3, <5>1, <5>2
      <4> QED
        BY <4>1, <4>2
    <3> QED
      BY <3>1, <3>2, <3>3, <3>4 DEF ForkInv
  <2>dorm. DormantInv'
    BY <1>0, <1>1, <2>1, <2>3, <2>4 DEF DormantInv, Live
  <2>stack. StackInv'
    BY <1>0, <1>1, <2>1, <2>3, <2>4, SlotFacts DEF StackInv
  <2>par. ParentInv'
    <3>1. parent'[initproc] = none /\ state'[initproc] \in Live
      BY <1>0, <1>1, <2>3, <2>4, SlotFacts DEF ParentInv
    <3>2. \A t \in Slots : state'[t] = "UNUSED" => parent'[t] = none
      BY <1>0, <1>1, <2>3 DEF ParentInv
    <3>3. \A q \in Slots : np'[q] # none =>
            parent'[np'[q]] = IF kpc'[q] = "ready" THEN q ELSE none
      BY <1>0, <1>1, <2>3, <2>4 DEF ParentInv
    <3>4. \A t \in Slots \ {initproc} : state'[t] \notin {"UNUSED", "EMBRYO"} =>
            parent'[t] \in Slots /\ state'[parent'[t]] \in Live
      BY <1>0, <1>1, <2>1, <2>3 DEF ParentInv, Live
    <3>5. \A t \in Slots : parent'[t] # t
      BY <1>0, <1>1 DEF ParentInv
    <3> QED
      BY <3>1, <3>2, <3>3, <3>4, <3>5 DEF ParentInv
  <2>sleep. SleepInv'
    BY <1>0, <1>1, <2>3 DEF SleepInv
  <2>miss. NoMissedExit'
    BY <1>0, <1>1, <2>3 DEF NoMissedExit
  <2>panic. PanicInv'
    BY <1>0, <1>1, <2>3, SlotFacts DEF PanicInv
  <2> QED
    BY <2>type, <2>cpu, <2>pids, <2>fork, <2>dorm, <2>stack, <2>par, <2>sleep, <2>miss,
       <2>panic DEF ProcInv
<1> QED
  BY <1>2, <1>3

\* fork() of p fails with a slot taken.
GiveBack(p) ==
  /\ state[p] = "RUNNING" /\ kpc[p] \in {"alloc", "copy"}
  /\ state' = [state EXCEPT ![np[p]] = "UNUSED"]
  /\ np' = [np EXCEPT ![p] = none]
  /\ ForkFailed(p)
  /\ kstack' = [kstack EXCEPT ![np[p]] = FALSE]
  /\ UNCHANGED <<pid, parent, chan, killed, nextpid, cpu, scan, panicked>>

\* fork() gives its slot back: nobody else has anything to do with it.
LEMMA GiveBackInv ==
  ASSUME ProcInv, NEW p \in Slots, GiveBack(p)
  PROVE  ProcInv'
<1>0. /\ TypeOK /\ CpuInv /\ UniquePids /\ ForkInv /\ DormantInv /\ StackInv
      /\ ParentInv /\ SleepInv /\ NoMissedExit /\ PanicInv
  BY DEF ProcInv
<1> DEFINE s == np[p]
<1>1. s \in Slots /\ s # none /\ state[s] = "EMBRYO" /\ s # p /\ s # initproc
      /\ parent[s] = none /\ \A q \in Slots : q # p => np[q] # s
  BY <1>0, SlotFacts DEF GiveBack, ForkInv, TypeOK, Filling, ParentInv, Live
<1>2. PICK label \in KPCs \ Filling : label # "exit" /\ Goto(p, label)
  BY ForkFailedPlace DEF GiveBack
<1>u. /\ state[p] = "RUNNING" /\ kpc[p] \in Filling
      /\ UNCHANGED <<pid, parent, chan, killed, nextpid, cpu, scan, panicked>>
  BY DEF GiveBack, Filling
<1> HIDE DEF s
<1>3. \A t \in Slots : /\ state'[t] = IF t = s THEN "UNUSED" ELSE state[t]
                       /\ kstack'[t] = IF t = s THEN FALSE ELSE kstack[t]
                       /\ np'[t] = IF t = p THEN none ELSE np[t]
                       /\ kpc'[t] = IF t = p THEN label ELSE kpc[t]
  BY <1>0, <1>2 DEF GiveBack, TypeOK, Goto, s
<1>type. TypeOK'
  BY <1>0, <1>2 DEF GiveBack, TypeOK, Goto, States
<1>cpu. CpuInv'
  BY <1>0, <1>u, <1>1, <1>3, SameCpus
<1>pids. UniquePids'
  BY <1>0, <1>u, <1>1, <1>3 DEF UniquePids
<1>fork. ForkInv'
  <2>1. \A q \in Slots : kpc'[q] \in Filling <=> np'[q] # none
    BY <1>0, <1>u, <1>3 DEF ForkInv
  <2>2. \A q \in Slots : np'[q] # none => q # p /\ np'[q] = np[q] /\ np[q] \in Slots /\ np[q] # s
    BY <1>0, <1>u, <1>1, <1>3 DEF TypeOK
  <2>3. \A t \in Slots : state'[t] = "EMBRYO" => \E q \in Slots : np'[q] = t
    <3> SUFFICES ASSUME NEW t \in Slots, state'[t] = "EMBRYO"
                 PROVE  \E q \in Slots : np'[q] = t
      OBVIOUS
    <3>1. t # s /\ state[t] = "EMBRYO"
      BY <1>3
    <3>2. PICK q \in Slots : np[q] = t
      BY <1>0, <3>1 DEF ForkInv
    <3> QED
      BY <1>3, <3>1, <3>2 DEF s
  <2>4. ASSUME NEW q \in Slots, np'[q] # none PROVE state'[np'[q]] = "EMBRYO"
    <3>1. np'[q] = np[q] /\ np[q] \in Slots /\ np[q] # s
      BY <2>2, <2>4
    <3>2. state[np[q]] = "EMBRYO"
      BY <1>0, <2>4, <3>1 DEF ForkInv
    <3> QED
      BY <1>3, <3>1, <3>2
  <2>5. \A q, r \in Slots : np'[q] # none /\ np'[q] = np'[r] => q = r
    BY <1>0, <2>2 DEF ForkInv
  <2> QED
    BY <2>1, <2>3, <2>4, <2>5 DEF ForkInv
<1>dorm. DormantInv'
  BY <1>0, <1>u, <1>1, <1>3 DEF DormantInv, Live
<1>stack. StackInv'
  <2> SUFFICES ASSUME NEW t \in Slots
               PROVE  kstack'[t] <=> \/ state'[t] \notin {"UNUSED", "EMBRYO"}
                                     \/ \E q \in Slots : np'[q] = t /\ kpc'[q] # "alloc"
    BY DEF StackInv
  <2>1. CASE t = s
    BY <1>1, <1>3, <2>1, SlotFacts
  <2>2. CASE t # s
    <3>n. np'[p] = none /\ none # t
      BY <1>3, SlotFacts
    <3>0. np'[p] # t /\ np[p] # t
      BY <2>2, <3>n DEF s
    <3>1. \A q \in Slots : (np'[q] = t /\ kpc'[q] # "alloc") <=> (np[q] = t /\ kpc[q] # "alloc")
      BY <1>3, <3>0
    <3>2. kstack'[t] = kstack[t] /\ state'[t] = state[t]
      BY <1>3, <2>2
    <3> QED
      BY <1>0, <3>1, <3>2 DEF StackInv
  <2> QED
    BY <2>1, <2>2
<1>par. ParentInv'
  <2>1. parent'[initproc] = none /\ state'[initproc] \in Live
    BY <1>0, <1>u, <1>1, <1>3, SlotFacts DEF ParentInv
  <2>2. \A t \in Slots : state'[t] = "UNUSED" => parent'[t] = none
    BY <1>0, <1>u, <1>1, <1>3 DEF ParentInv
  <2>3. \A q \in Slots : np'[q] # none =>
          parent'[np'[q]] = IF kpc'[q] = "ready" THEN q ELSE none
    <3> SUFFICES ASSUME NEW q \in Slots, np'[q] # none
                 PROVE  parent[np'[q]] = IF kpc'[q] = "ready" THEN q ELSE none
      BY <1>u
    <3>1. np'[q] = np[q] /\ kpc'[q] = kpc[q]
      BY <1>3
    <3> QED
      BY <1>0, <3>1 DEF ParentInv
  <2>4. \A t \in Slots \ {initproc} : state'[t] \notin {"UNUSED", "EMBRYO"} =>
          parent'[t] \in Slots /\ state'[parent'[t]] \in Live
    BY <1>0, <1>u, <1>1, <1>3 DEF ParentInv, Live
  <2>5. \A t \in Slots : parent'[t] # t
    BY <1>0, <1>u DEF ParentInv
  <2> QED
    BY <2>1, <2>2, <2>3, <2>4, <2>5 DEF ParentInv
<1>sleep. SleepInv'
  BY <1>0, <1>u, <1>3 DEF SleepInv
<1>miss. NoMissedExit'
  <2>1. \A t \in Slots : /\ state'[t] = "SLEEPING" => state[t] = "SLEEPING"
                         /\ state'[t] = "ZOMBIE" => state[t] = "ZOMBIE"
    BY <1>3
  <2> QED
    BY <1>0, <1>u, <2>1 DEF NoMissedExit
<1>panic. PanicInv'
  BY <1>0, <1>u, <1>2, <1>3, SlotFacts DEF PanicInv
<1> QED
  BY <1>type, <1>cpu, <1>pids, <1>fork, <1>dorm, <1>stack, <1>par, <1>sleep, <1>miss,
     <1>panic DEF ProcInv

\* A kernel stack for the new process, or none left.
LEMMA alloc_kstackInv ==
  ASSUME ProcInv, NEW p \in Slots, alloc_kstack(p)
  PROVE  ProcInv'
<1>0. /\ TypeOK /\ CpuInv /\ UniquePids /\ ForkInv /\ DormantInv /\ StackInv
      /\ ParentInv /\ SleepInv /\ NoMissedExit /\ PanicInv
  BY DEF ProcInv
<1>1. /\ state[p] = "RUNNING" /\ kpc[p] = "alloc"
      /\ UNCHANGED <<pid, parent, chan, killed, nextpid, cpu, scan, panicked>>
  BY DEF alloc_kstack, At
<1> DEFINE s == np[p]
<1>2. s \in Slots /\ s # none /\ state[s] = "EMBRYO" /\ s # p
      /\ \A q \in Slots : q # p => np[q] # s
  BY <1>0, <1>1, SlotFacts DEF ForkInv, TypeOK, Filling
<1>3. CASE state' = [state EXCEPT ![s] = "UNUSED"] /\ np' = [np EXCEPT ![p] = none]
           /\ ForkFailed(p) /\ UNCHANGED kstack
  <2>1. kstack[s] = FALSE
    <3>1. \A q \in Slots : np[q] = s => kpc[q] = "alloc"
      BY <1>1, <1>2
    <3> QED
      BY <1>0, <1>2, <3>1 DEF StackInv, TypeOK
  <2>2. kstack' = [kstack EXCEPT ![s] = FALSE]
    BY <1>0, <1>2, <1>3, <2>1 DEF TypeOK
  <2> QED
    BY <1>1, <1>3, <2>2, GiveBackInv DEF GiveBack
<1>4. CASE kstack' = [kstack EXCEPT ![s] = TRUE] /\ Goto(p, "copy") /\ UNCHANGED <<state, np>>
  <2> HIDE DEF s
  <2>1. \A t \in Slots : /\ kstack'[t] = IF t = s THEN TRUE ELSE kstack[t]
                         /\ kpc'[t] = IF t = p THEN "copy" ELSE kpc[t]
    BY <1>0, <1>4 DEF TypeOK, Goto
  <2>type. TypeOK'
    BY <1>0, <1>1, <1>2, <1>4 DEF TypeOK, Goto, KPCs
  <2>cpu. CpuInv'
    BY <1>0, <1>1, <1>4, SameCpus
  <2>pids. UniquePids'
    BY <1>0, <1>1, <1>4, SamePids
  <2>fork. ForkInv'
    BY <1>0, <1>1, <1>4, <2>1, SameForks DEF Filling
  <2>dorm. DormantInv'
    BY <1>0, <1>1, <1>4, <2>1 DEF DormantInv, Live
  <2>stack. StackInv'
    <3> SUFFICES ASSUME NEW t \in Slots
                 PROVE  kstack'[t] <=> \/ state[t] \notin {"UNUSED", "EMBRYO"}
                                       \/ \E q \in Slots : np[q] = t /\ kpc'[q] # "alloc"
      BY <1>4 DEF StackInv
    <3>1. CASE t = s
      BY <2>1, <3>1 DEF s
    <3>2. CASE t # s
      <4>1. \A q \in Slots : np[q] = t => kpc'[q] = kpc[q]
        BY <2>1, <3>2 DEF s
      <4>2. kstack'[t] = kstack[t]
        BY <2>1, <3>2
      <4> QED
        BY <1>0, <4>1, <4>2 DEF StackInv
    <3> QED
      BY <3>1, <3>2
  <2>par. ParentInv'
    <3>1. \A q \in Slots : kpc'[q] = "ready" <=> kpc[q] = "ready"
      BY <1>1, <2>1
    <3> QED
      BY <1>0, <1>1, <1>4, <3>1 DEF ParentInv
  <2>sleep. SleepInv'
    BY <1>0, <1>1, <1>4, <2>1 DEF SleepInv
  <2>miss. NoMissedExit'
    BY <1>0, <1>1, <1>4 DEF NoMissedExit
  <2>panic. PanicInv'
    BY <1>0, <1>1, <2>1, SlotFacts DEF PanicInv
  <2> QED
    BY <2>type, <2>cpu, <2>pids, <2>fork, <2>dorm, <2>stack, <2>par, <2>sleep, <2>miss,
       <2>panic DEF ProcInv
<1> QED
  BY <1>3, <1>4 DEF alloc_kstack

\* The child gets its parent, or its slot and stack are given back.
LEMMA fork_copyInv ==
  ASSUME ProcInv, NEW p \in Slots, fork_copy(p)
  PROVE  ProcInv'
<1>0. /\ TypeOK /\ CpuInv /\ UniquePids /\ ForkInv /\ DormantInv /\ StackInv
      /\ ParentInv /\ SleepInv /\ NoMissedExit /\ PanicInv
  BY DEF ProcInv
<1>1. /\ state[p] = "RUNNING" /\ kpc[p] = "copy"
      /\ UNCHANGED <<pid, chan, killed, nextpid, cpu, scan, panicked>>
  BY DEF fork_copy, At
<1> DEFINE s == np[p]
<1>2. s \in Slots /\ s # none /\ state[s] = "EMBRYO" /\ s # p /\ s # initproc
      /\ \A q \in Slots : q # p => np[q] # s
  BY <1>0, <1>1, SlotFacts DEF ForkInv, TypeOK, Filling, ParentInv, Live
<1>3. CASE kstack' = kfree(s) /\ state' = [state EXCEPT ![s] = "UNUSED"]
           /\ np' = [np EXCEPT ![p] = none] /\ ForkFailed(p) /\ UNCHANGED parent
  BY <1>1, <1>3, GiveBackInv DEF kfree, GiveBack
<1>4. CASE parent' = [parent EXCEPT ![s] = p] /\ Goto(p, "ready")
           /\ UNCHANGED <<state, kstack, np>>
  <2> HIDE DEF s
  <2>1. \A t \in Slots : /\ parent'[t] = IF t = s THEN p ELSE parent[t]
                         /\ kpc'[t] = IF t = p THEN "ready" ELSE kpc[t]
    BY <1>0, <1>4 DEF TypeOK, Goto
  <2>type. TypeOK'
    BY <1>0, <1>1, <1>2, <1>4 DEF TypeOK, Goto, KPCs
  <2>cpu. CpuInv'
    BY <1>0, <1>1, <1>4, SameCpus
  <2>pids. UniquePids'
    BY <1>0, <1>1, <1>4, SamePids
  <2>fork. ForkInv'
    BY <1>0, <1>1, <1>4, <2>1, SameForks DEF Filling
  <2>dorm. DormantInv'
    BY <1>0, <1>1, <1>4, <2>1 DEF DormantInv, Live
  <2>stack. StackInv'
    BY <1>0, <1>1, <1>2, <1>4, <2>1 DEF StackInv, s
  <2>par. ParentInv'
    <3>1. \A q \in Slots : np[q] # none =>
            parent'[np[q]] = IF kpc'[q] = "ready" THEN q ELSE none
      BY <1>0, <1>1, <1>2, <2>1 DEF ParentInv, TypeOK, s
    <3> QED
      BY <1>0, <1>2, <1>4, <2>1, <3>1, SlotFacts DEF ParentInv
  <2>sleep. SleepInv'
    BY <1>0, <1>1, <1>4, <2>1 DEF SleepInv
  <2>miss. NoMissedExit'
    <3> SUFFICES ASSUME NEW t \in Slots, state[t] = "SLEEPING", chan[t] = t
                 PROVE  /\ ~killed[t]
                        /\ \E c \in Slots : parent'[c] = t
                        /\ \A c \in Slots : parent'[c] = t => state[c] # "ZOMBIE"
      BY <1>1, <1>4 DEF NoMissedExit
    <3>1. t # p /\ parent[s] = none
      BY <1>0, <1>1, <1>2 DEF ParentInv, s
    <3>2. \A c \in Slots : parent'[c] = t <=> parent[c] = t
      BY <2>1, <3>1, SlotFacts
    <3> QED
      BY <1>0, <3>2 DEF NoMissedExit
  <2>panic. PanicInv'
    BY <1>0, <1>1, <2>1, SlotFacts DEF PanicInv
  <2> QED
    BY <2>type, <2>cpu, <2>pids, <2>fork, <2>dorm, <2>stack, <2>par, <2>sleep, <2>miss,
       <2>panic DEF ProcInv
<1> QED
  BY <1>3, <1>4 DEF fork_copy

\* The child becomes RUNNABLE, with a parent that is running.
LEMMA fork_readyInv ==
  ASSUME ProcInv, NEW p \in Slots, fork_ready(p)
  PROVE  ProcInv'
<1>0. /\ TypeOK /\ CpuInv /\ UniquePids /\ ForkInv /\ DormantInv /\ StackInv
      /\ ParentInv /\ SleepInv /\ NoMissedExit /\ PanicInv
  BY DEF ProcInv
<1> DEFINE s == np[p]
<1>1. /\ state[p] = "RUNNING" /\ kpc[p] = "ready"
      /\ state' = [state EXCEPT ![s] = "RUNNABLE"]
      /\ np' = [np EXCEPT ![p] = none] /\ Goto(p, "user")
      /\ UNCHANGED <<pid, parent, chan, killed, kstack, nextpid, cpu, scan, panicked>>
  BY DEF fork_ready, At
<1>2. s \in Slots /\ s # none /\ state[s] = "EMBRYO" /\ s # p /\ s # initproc
      /\ parent[s] = p /\ \A q \in Slots : q # p => np[q] # s
  BY <1>0, <1>1, SlotFacts DEF ForkInv, TypeOK, Filling, ParentInv, Live
<1> HIDE DEF s
<1>3. \A t \in Slots : /\ state'[t] = IF t = s THEN "RUNNABLE" ELSE state[t]
                       /\ np'[t] = IF t = p THEN none ELSE np[t]
                       /\ kpc'[t] = IF t = p THEN "user" ELSE kpc[t]
  BY <1>0, <1>1 DEF TypeOK, Goto
<1>type. TypeOK'
  BY <1>0, <1>1 DEF TypeOK, Goto, States, KPCs
<1>cpu. CpuInv'
  BY <1>0, <1>1, <1>2, <1>3, SameCpus
<1>pids. UniquePids'
  BY <1>0, <1>1, <1>2, <1>3 DEF UniquePids
<1>fork. ForkInv'
  <2>1. \A q \in Slots : kpc'[q] \in Filling <=> np'[q] # none
    BY <1>0, <1>3 DEF ForkInv, Filling
  <2>2. \A q \in Slots : np'[q] # none => q # p /\ np'[q] = np[q] /\ np[q] \in Slots /\ np[q] # s
    BY <1>0, <1>2, <1>3 DEF TypeOK
  <2>3. \A t \in Slots : state'[t] = "EMBRYO" => \E q \in Slots : np'[q] = t
    <3> SUFFICES ASSUME NEW t \in Slots, state'[t] = "EMBRYO"
                 PROVE  \E q \in Slots : np'[q] = t
      OBVIOUS
    <3>1. t # s /\ state[t] = "EMBRYO"
      BY <1>3
    <3>2. PICK q \in Slots : np[q] = t
      BY <1>0, <3>1 DEF ForkInv
    <3> QED
      BY <1>3, <3>1, <3>2 DEF s
  <2> QED
    BY <1>0, <1>3, <2>1, <2>2, <2>3 DEF ForkInv
<1>dorm. DormantInv'
  BY <1>0, <1>1, <1>3 DEF DormantInv, Live
<1>stack. StackInv'
  <2> SUFFICES ASSUME NEW t \in Slots
               PROVE  kstack'[t] <=> \/ state'[t] \notin {"UNUSED", "EMBRYO"}
                                     \/ \E q \in Slots : np'[q] = t /\ kpc'[q] # "alloc"
    BY DEF StackInv
  <2>1. CASE t = s
    BY <1>0, <1>1, <1>2, <1>3, <2>1 DEF StackInv, s
  <2>2. CASE t # s
    <3>n. np'[p] = none /\ none # t
      BY <1>3, SlotFacts
    <3>0. np'[p] # t /\ np[p] # t
      BY <2>2, <3>n DEF s
    <3>1. \A q \in Slots : (np'[q] = t /\ kpc'[q] # "alloc") <=> (np[q] = t /\ kpc[q] # "alloc")
      BY <1>3, <3>0
    <3>2. kstack'[t] = kstack[t] /\ state'[t] = state[t]
      BY <1>1, <1>3, <2>2
    <3> QED
      BY <1>0, <3>1, <3>2 DEF StackInv
  <2> QED
    BY <2>1, <2>2
<1>par. ParentInv'
  <2>1. parent'[initproc] = none /\ state'[initproc] \in Live
    BY <1>0, <1>1, <1>2, <1>3, SlotFacts DEF ParentInv
  <2>2. \A t \in Slots : state'[t] = "UNUSED" => parent'[t] = none
    BY <1>0, <1>1, <1>3 DEF ParentInv
  <2>3. \A q \in Slots : np'[q] # none =>
          parent'[np'[q]] = IF kpc'[q] = "ready" THEN q ELSE none
    BY <1>0, <1>1, <1>3 DEF ParentInv
  <2>4. \A t \in Slots \ {initproc} : state'[t] \notin {"UNUSED", "EMBRYO"} =>
          parent'[t] \in Slots /\ state'[parent'[t]] \in Live
    BY <1>0, <1>1, <1>2, <1>3 DEF ParentInv, Live
  <2>5. \A t \in Slots : parent'[t] # t
    BY <1>0, <1>1 DEF ParentInv
  <2> QED
    BY <2>1, <2>2, <2>3, <2>4, <2>5 DEF ParentInv
<1>sleep. SleepInv'
  BY <1>0, <1>1, <1>3 DEF SleepInv
<1>miss. NoMissedExit'
  BY <1>0, <1>1, <1>3 DEF NoMissedExit
<1>panic. PanicInv'
  BY <1>0, <1>1, <1>3, SlotFacts DEF PanicInv
<1> QED
  BY <1>type, <1>cpu, <1>pids, <1>fork, <1>dorm, <1>stack, <1>par, <1>sleep, <1>miss,
     <1>panic DEF ProcInv

\* exit(): the parent is woken, the children go to init, and init is woken if
\* one of them is a zombie already.
LEMMA exitInv ==
  ASSUME ProcInv, NEW p \in Slots, exit(p)
  PROVE  ProcInv'
<1>0. /\ TypeOK /\ CpuInv /\ UniquePids /\ ForkInv /\ DormantInv /\ StackInv
      /\ ParentInv /\ SleepInv /\ NoMissedExit /\ PanicInv
  BY DEF ProcInv
<1> DEFINE orphan == \E s \in Slots : parent[s] = p /\ state[s] = "ZOMBIE"
           wakes(s) == state[s] = "SLEEPING"
                       /\ (chan[s] = parent[p] \/ (orphan /\ chan[s] = initproc))
<1>1. /\ state[p] = "RUNNING" /\ kpc[p] = "exit" /\ sched(p) /\ Goto(p, "user")
      /\ parent' = adopt(p)
      /\ UNCHANGED <<pid, chan, killed, kstack, nextpid, scan, np, panicked>>
  BY DEF exit, At
<1>2. /\ state' \in [Slots -> States]
      /\ \A s \in Slots : state'[s] = IF s = p THEN "ZOMBIE"
                                      ELSE IF wakes(s) THEN "RUNNABLE" ELSE state[s]
  <2>1. state \in [Slots -> States] /\ {"ZOMBIE", "RUNNABLE"} \subseteq States
    BY <1>0 DEF TypeOK, States
  <2>2. CASE orphan
    <3>1. state' = [wakeup1(wakeup1(state, parent[p]), initproc) EXCEPT ![p] = "ZOMBIE"]
      BY <2>2 DEF exit
    <3> QED
      BY <2>1, <2>2, <3>1 DEF wakeup1
  <2>3. CASE ~orphan
    <3>1. state' = [wakeup1(state, parent[p]) EXCEPT ![p] = "ZOMBIE"]
      BY <2>3 DEF exit
    <3> QED
      BY <2>1, <2>3, <3>1 DEF wakeup1
  <2> QED
    BY <2>2, <2>3
<1>3. \A s \in Slots : /\ kpc'[s] = IF s = p THEN "user" ELSE kpc[s]
                       /\ parent'[s] = IF parent[s] = p THEN initproc ELSE parent[s]
  BY <1>0, <1>1 DEF TypeOK, Goto, adopt
<1>4. np[p] = none /\ kpc[p] \notin Filling
  BY <1>0, <1>1 DEF ForkInv, Filling
<1>5. p # initproc
  <2>1. ~panicked
    BY DEF exit, At
  <2> QED
    BY <1>0, <1>1, <2>1 DEF PanicInv
<1> HIDE DEF orphan, wakes
<1>6. \A s \in Slots : s # p => \/ state'[s] = state[s]
                                \/ state[s] = "SLEEPING" /\ state'[s] = "RUNNABLE"
  BY <1>2 DEF wakes
<1>7. state'[p] = "ZOMBIE"
  BY <1>2
<1>type. TypeOK'
  <2>1. cpu' \in [Cpus -> Slots \union {none}]
    BY <1>0, <1>1 DEF TypeOK, sched
  <2>2. parent' \in [Slots -> Slots \union {none}]
    BY <1>0, <1>1, SlotFacts DEF TypeOK, adopt
  <2> QED
    BY <1>0, <1>1, <1>2, <2>1, <2>2 DEF TypeOK, Goto, KPCs
<1>cpu. CpuInv'
  BY <1>0, <1>1, <1>6, <1>7, SchedCpus
<1>pids. UniquePids'
  BY <1>0, <1>1, <1>6, <1>7, SamePids
<1>fork. ForkInv'
  BY <1>0, <1>1, <1>3, <1>4, <1>6, <1>7, SameForks DEF Filling
<1>dorm. DormantInv'
  BY <1>0, <1>3, <1>6 DEF DormantInv, Live
<1>stack. StackInv'
  BY <1>0, <1>1, <1>3, <1>4, <1>6, <1>7, SameStacks DEF Filling
<1>par. ParentInv'
  <2>1. parent'[initproc] = none /\ state'[initproc] \in Live
    BY <1>0, <1>3, <1>5, <1>6, SlotFacts DEF ParentInv, Live
  <2>2. \A t \in Slots : state'[t] = "UNUSED" => parent'[t] = none
    BY <1>0, <1>3, <1>6, <1>7, SlotFacts DEF ParentInv
  <2>3. \A q \in Slots : np'[q] # none =>
          parent'[np'[q]] = IF kpc'[q] = "ready" THEN q ELSE none
    <3> SUFFICES ASSUME NEW q \in Slots, np[q] # none
                 PROVE  parent'[np[q]] = IF kpc'[q] = "ready" THEN q ELSE none
      BY <1>1
    <3>1. q # p /\ np[q] \in Slots
      BY <1>0, <1>4 DEF TypeOK
    <3>2. parent[np[q]] = IF kpc[q] = "ready" THEN q ELSE none
      BY <1>0 DEF ParentInv
    <3> QED
      BY <1>3, <3>1, <3>2, SlotFacts
  <2>4. \A t \in Slots \ {initproc} : state'[t] \notin {"UNUSED", "EMBRYO"} =>
          parent'[t] \in Slots /\ state'[parent'[t]] \in Live
    <3> SUFFICES ASSUME NEW t \in Slots \ {initproc}, state'[t] \notin {"UNUSED", "EMBRYO"}
                 PROVE  parent'[t] \in Slots /\ state'[parent'[t]] \in Live
      OBVIOUS
    <3>1. state[t] \notin {"UNUSED", "EMBRYO"}
      BY <1>1, <1>6
    <3>2. parent[t] \in Slots /\ state[parent[t]] \in Live
      BY <1>0, <3>1 DEF ParentInv
    <3>3. CASE parent[t] = p
      BY <1>3, <2>1, <3>3, SlotFacts
    <3>4. CASE parent[t] # p
      BY <1>3, <1>6, <3>2, <3>4 DEF Live
    <3> QED
      BY <3>3, <3>4
  <2>5. \A t \in Slots : parent'[t] # t
    BY <1>0, <1>3, SlotFacts DEF ParentInv
  <2> QED
    BY <2>1, <2>2, <2>3, <2>4, <2>5 DEF ParentInv
<1>sleep. SleepInv'
  BY <1>0, <1>1, <1>3, <1>6, <1>7 DEF SleepInv
<1>miss. NoMissedExit'
  <2> SUFFICES ASSUME NEW t \in Slots, state'[t] = "SLEEPING", chan[t] = t
               PROVE  /\ ~killed[t]
                      /\ \E c \in Slots : parent'[c] = t
                      /\ \A c \in Slots : parent'[c] = t => state'[c] # "ZOMBIE"
    BY <1>1 DEF NoMissedExit
  <2>1. t # p /\ state[t] = "SLEEPING" /\ ~wakes(t)
    BY <1>2
  <2>2. t # parent[p] /\ (t = initproc => ~orphan)
    BY <2>1 DEF wakes
  <2>3. /\ ~killed[t] /\ \E c \in Slots : parent[c] = t
        /\ \A c \in Slots : parent[c] = t => state[c] # "ZOMBIE"
    BY <1>0, <2>1 DEF NoMissedExit
  <2>4. \E c \in Slots : parent'[c] = t
    BY <1>3, <2>1, <2>3
  <2>5. ASSUME NEW c \in Slots, parent'[c] = t PROVE state'[c] # "ZOMBIE"
    <3>1. c # p
      BY <1>0, <1>3, <2>2, <2>5 DEF ParentInv
    <3>2. state[c] # "ZOMBIE"
      BY <1>3, <2>2, <2>3, <2>5 DEF orphan
    <3> QED
      BY <1>6, <3>1, <3>2
  <2> QED
    BY <2>3, <2>4, <2>5
<1>panic. PanicInv'
  BY <1>0, <1>1, <1>3, <1>5, SlotFacts DEF PanicInv
<1> QED
  BY <1>type, <1>cpu, <1>pids, <1>fork, <1>dorm, <1>stack, <1>par, <1>sleep, <1>miss,
     <1>panic DEF ProcInv

\* p goes to sleep in wait() or in sys_sleep().
Doze(p) ==
  /\ state[p] = "RUNNING" /\ kpc[p] \notin Filling
  /\ \/ /\ chan' = [chan EXCEPT ![p] = p] /\ kpc[p] = "wait" /\ Goto(p, "wait")
        /\ ~killed[p]
        /\ \E s \in Slots : parent[s] = p
        /\ \A s \in Slots : parent[s] = p => state[s] # "ZOMBIE"
     \/ chan' = [chan EXCEPT ![p] = ticks] /\ Goto(p, "tick_check")
  /\ state' = [state EXCEPT ![p] = "SLEEPING"]
  /\ sched(p)
  /\ UNCHANGED <<pid, parent, killed, kstack, nextpid, scan, np, panicked>>

\* sleep(): the process is off its processor and on a channel in one step.
LEMMA DozeInv ==
  ASSUME ProcInv, NEW p \in Slots, Doze(p)
  PROVE  ProcInv'
<1>0. /\ TypeOK /\ CpuInv /\ UniquePids /\ ForkInv /\ DormantInv /\ StackInv
      /\ ParentInv /\ SleepInv /\ NoMissedExit /\ PanicInv
  BY DEF ProcInv
<1>1. /\ state[p] = "RUNNING" /\ kpc[p] \notin Filling /\ sched(p)
      /\ UNCHANGED <<pid, parent, killed, kstack, nextpid, scan, np, panicked>>
  BY DEF Doze
<1>2. /\ \A s \in Slots : state'[s] = IF s = p THEN "SLEEPING" ELSE state[s]
      /\ \A s \in Slots : s # p => kpc'[s] = kpc[s] /\ chan'[s] = chan[s]
      /\ kpc'[p] \notin Filling /\ kpc'[p] # "exit"
      /\ \/ chan'[p] = p /\ kpc'[p] = "wait"
         \/ chan'[p] = ticks /\ kpc'[p] = "tick_check"
  BY <1>0 DEF Doze, TypeOK, Goto, Filling
<1>3. chan'[p] = p => /\ ~killed[p]
                      /\ \E s \in Slots : parent[s] = p
                      /\ \A s \in Slots : parent[s] = p => state[s] # "ZOMBIE"
  BY <1>0, SlotFacts DEF Doze, TypeOK
<1>type. TypeOK'
  <2>1. cpu' \in [Cpus -> Slots \union {none}]
    BY <1>0, <1>1 DEF TypeOK, sched
  <2>2. chan' \in [Slots -> Slots \union {none, ticks}] /\ kpc' \in [Slots -> KPCs]
    BY <1>0 DEF TypeOK, Doze, Goto, KPCs
  <2>3. state' \in [Slots -> States]
    BY <1>0 DEF TypeOK, Doze, States
  <2> QED
    BY <1>0, <1>1, <2>1, <2>2, <2>3 DEF TypeOK
<1>cpu. CpuInv'
  BY <1>0, <1>1, <1>2, SchedCpus
<1>pids. UniquePids'
  BY <1>0, <1>1, <1>2, SamePids
<1>fork. ForkInv'
  BY <1>0, <1>1, <1>2, SameForks
<1>dorm. DormantInv'
  BY <1>0, <1>2 DEF DormantInv, Live
<1>stack. StackInv'
  BY <1>0, <1>1, <1>2, SameStacks
<1>par. ParentInv'
  BY <1>0, <1>1, <1>2, SameParents DEF Live
<1>sleep. SleepInv'
  BY <1>0, <1>2 DEF SleepInv
<1>miss. NoMissedExit'
  <2> SUFFICES ASSUME NEW t \in Slots, state'[t] = "SLEEPING", chan'[t] = t
               PROVE  /\ ~killed[t]
                      /\ \E c \in Slots : parent[c] = t
                      /\ \A c \in Slots : parent[c] = t => state'[c] # "ZOMBIE"
    BY <1>1 DEF NoMissedExit
  <2>1. CASE t = p
    BY <1>2, <1>3, <2>1
  <2>2. CASE t # p
    BY <1>0, <1>2, <2>2 DEF NoMissedExit
  <2> QED
    BY <2>1, <2>2
<1>panic. PanicInv'
  BY <1>0, <1>1, <1>2, SlotFacts DEF PanicInv
<1> QED
  BY <1>type, <1>cpu, <1>pids, <1>fork, <1>dorm, <1>stack, <1>par, <1>sleep, <1>miss,
     <1>panic DEF ProcInv

\* wait() of p frees the slot z of a zombie.
Reap(p, z) ==
  /\ state[p] = "RUNNING" /\ kpc[p] \notin Filling
  /\ state[z] = "ZOMBIE" /\ parent[z] = p
  /\ state' = [state EXCEPT ![z] = "UNUSED"]
  /\ pid' = [pid EXCEPT ![z] = 0]
  /\ parent' = [parent EXCEPT ![z] = none]
  /\ killed' = [killed EXCEPT ![z] = FALSE]
  /\ kstack' = [kstack EXCEPT ![z] = FALSE]
  /\ chan' = [chan EXCEPT ![p] = none]
  /\ Goto(p, "user")
  /\ UNCHANGED <<nextpid, cpu, scan, np, panicked>>

\* A zombie is nobody's parent and no fork() is at work on it: its slot can go.
LEMMA ReapInv ==
  ASSUME ProcInv, NEW p \in Slots, NEW z \in Slots, Reap(p, z)
  PROVE  ProcInv'
<1>0. /\ TypeOK /\ CpuInv /\ UniquePids /\ ForkInv /\ DormantInv /\ StackInv
      /\ ParentInv /\ SleepInv /\ NoMissedExit /\ PanicInv
  BY DEF ProcInv
<1>1. /\ state[p] = "RUNNING" /\ kpc[p] \notin Filling
      /\ state[z] = "ZOMBIE" /\ parent[z] = p /\ z # p
      /\ UNCHANGED <<nextpid, cpu, scan, np, panicked>>
  BY DEF Reap
<1>2. \A t \in Slots : /\ state'[t] = IF t = z THEN "UNUSED" ELSE state[t]
                       /\ pid'[t] = IF t = z THEN 0 ELSE pid[t]
                       /\ parent'[t] = IF t = z THEN none ELSE parent[t]
                       /\ killed'[t] = IF t = z THEN FALSE ELSE killed[t]
                       /\ kstack'[t] = IF t = z THEN FALSE ELSE kstack[t]
                       /\ chan'[t] = IF t = p THEN none ELSE chan[t]
                       /\ kpc'[t] = IF t = p THEN "user" ELSE kpc[t]
  BY <1>0 DEF Reap, TypeOK, Goto
<1>3. /\ z # initproc /\ np[p] = none
      /\ \A q \in Slots : np[q] # z
  BY <1>0, <1>1, SlotFacts DEF ParentInv, Live, ForkInv
<1>type. TypeOK'
  <2>1. 0 \in 0 .. nextpid - 1
    BY <1>0 DEF TypeOK
  <2> QED
    BY <1>0, <2>1 DEF Reap, TypeOK, Goto, States, KPCs
<1>cpu. CpuInv'
  BY <1>0, <1>1, <1>2, SameCpus
<1>pids. UniquePids'
  <2>1. \A t \in Slots : state'[t] # "UNUSED" => state[t] # "UNUSED" /\ pid'[t] = pid[t]
    BY <1>2
  <2> QED
    BY <1>0, <2>1 DEF UniquePids
<1>fork. ForkInv'
  BY <1>0, <1>1, <1>2, SameForks DEF Filling
<1>dorm. DormantInv'
  BY <1>0, <1>1, <1>2 DEF DormantInv, Live
<1>stack. StackInv'
  <2> SUFFICES ASSUME NEW t \in Slots
               PROVE  kstack'[t] <=> \/ state'[t] \notin {"UNUSED", "EMBRYO"}
                                     \/ \E q \in Slots : np[q] = t /\ kpc'[q] # "alloc"
    BY <1>1 DEF StackInv
  <2>1. CASE t = z
    BY <1>2, <1>3, <2>1
  <2>2. CASE t # z
    <3>1. \A q \in Slots : np[q] = t => kpc'[q] = kpc[q]
      BY <1>2, <1>3, SlotFacts
    <3>2. kstack'[t] = kstack[t] /\ state'[t] = state[t]
      BY <1>2, <2>2
    <3> QED
      BY <1>0, <3>1, <3>2 DEF StackInv
  <2> QED
    BY <2>1, <2>2
<1>par. ParentInv'
  <2>1. parent'[initproc] = none /\ state'[initproc] \in Live
    BY <1>0, <1>2, <1>3, SlotFacts DEF ParentInv
  <2>2. \A t \in Slots : state'[t] = "UNUSED" => parent'[t] = none
    BY <1>0, <1>2 DEF ParentInv
  <2>3. \A q \in Slots : np'[q] # none =>
          parent'[np'[q]] = IF kpc'[q] = "ready" THEN q ELSE none
    <3> SUFFICES ASSUME NEW q \in Slots, np[q] # none
                 PROVE  parent'[np[q]] = IF kpc'[q] = "ready" THEN q ELSE none
      BY <1>1
    <3>1. q # p /\ np[q] \in Slots /\ np[q] # z
      BY <1>0, <1>3 DEF TypeOK
    <3>2. parent[np[q]] = IF kpc[q] = "ready" THEN q ELSE none
      BY <1>0 DEF ParentInv
    <3> QED
      BY <1>2, <3>1, <3>2
  <2>4. \A t \in Slots \ {initproc} : state'[t] \notin {"UNUSED", "EMBRYO"} =>
          parent'[t] \in Slots /\ state'[parent'[t]] \in Live
    <3> SUFFICES ASSUME NEW t \in Slots \ {initproc}, state'[t] \notin {"UNUSED", "EMBRYO"}
                 PROVE  parent'[t] \in Slots /\ state'[parent'[t]] \in Live
      OBVIOUS
    <3>1. t # z /\ state[t] \notin {"UNUSED", "EMBRYO"}
      BY <1>2
    <3>2. parent[t] \in Slots /\ state[parent[t]] \in Live
      BY <1>0, <3>1 DEF ParentInv
    <3>3. parent[t] # z
      BY <1>1, <3>2 DEF Live
    <3> QED
      BY <1>2, <3>1, <3>2, <3>3
  <2>5. ASSUME NEW t \in Slots PROVE parent'[t] # t
    <3>1. parent'[t] = none \/ parent'[t] = parent[t]
      BY <1>2
    <3>2. parent[t] # t /\ none # t
      BY <1>0, SlotFacts DEF ParentInv
    <3> QED
      BY <3>1, <3>2
  <2> QED
    BY <2>1, <2>2, <2>3, <2>4, <2>5 DEF ParentInv
<1>sleep. SleepInv'
  <2>1. \A t \in Slots : state'[t] = "SLEEPING" =>
          state[t] = "SLEEPING" /\ chan'[t] = chan[t] /\ kpc'[t] = kpc[t]
    BY <1>1, <1>2
  <2> QED
    BY <1>0, <2>1 DEF SleepInv
<1>miss. NoMissedExit'
  <2> SUFFICES ASSUME NEW t \in Slots, state'[t] = "SLEEPING", chan'[t] = t
               PROVE  /\ ~killed'[t]
                      /\ \E c \in Slots : parent'[c] = t
                      /\ \A c \in Slots : parent'[c] = t => state'[c] # "ZOMBIE"
    BY DEF NoMissedExit
  <2>1. t # p /\ t # z /\ state[t] = "SLEEPING" /\ chan[t] = t
    BY <1>1, <1>2, SlotFacts
  <2>2. ASSUME NEW c \in Slots PROVE parent'[c] = t <=> parent[c] = t
    <3>1. parent'[c] = IF c = z THEN none ELSE parent[c]
      BY <1>2
    <3>2. parent[z] # t /\ none # t
      BY <1>1, <2>1, SlotFacts
    <3> QED
      BY <3>1, <3>2
  <2>3. \A c \in Slots : state'[c] = "ZOMBIE" => state[c] = "ZOMBIE"
    BY <1>2
  <2>4. killed'[t] = killed[t]
    BY <1>2, <2>1
  <2>5. /\ ~killed[t] /\ \E c \in Slots : parent[c] = t
        /\ \A c \in Slots : parent[c] = t => state[c] # "ZOMBIE"
    BY <1>0, <2>1 DEF NoMissedExit
  <2> QED
    BY <2>2, <2>3, <2>4, <2>5
<1>panic. PanicInv'
  BY <1>0, <1>1, <1>2, SlotFacts DEF PanicInv
<1> QED
  BY <1>type, <1>cpu, <1>pids, <1>fork, <1>dorm, <1>stack, <1>par, <1>sleep, <1>miss,
     <1>panic DEF ProcInv

\* wait(): reap a zombie, give up, or sleep, with the table locked throughout.
LEMMA waitInv ==
  ASSUME ProcInv, NEW p \in Slots, wait(p)
  PROVE  ProcInv'
<1> DEFINE kids == {s \in Slots : parent[s] = p}
           zombies == {s \in kids : state[s] = "ZOMBIE"}
           z == Smallest(zombies)
<1>1. /\ state[p] = "RUNNING" /\ kpc[p] = "wait" /\ kpc[p] \notin Filling /\ ~panicked
      /\ UNCHANGED <<nextpid, scan, np, panicked>>
  BY DEF wait, At, Filling
<1>2. "user" \in KPCs \ Filling
  BY DEF KPCs, Filling
<1>3. CASE zombies # {}
  <2>1. z \in Slots /\ state[z] = "ZOMBIE" /\ parent[z] = p
    <3>1. z \in zombies
      BY <1>3, FirstSlot
    <3> QED
      BY <3>1
  <2>2. /\ state' = [state EXCEPT ![z] = "UNUSED"]
        /\ pid' = [pid EXCEPT ![z] = 0]
        /\ parent' = [parent EXCEPT ![z] = none]
        /\ killed' = [killed EXCEPT ![z] = FALSE]
        /\ kstack' = [kstack EXCEPT ![z] = FALSE]
        /\ chan' = [chan EXCEPT ![p] = none]
        /\ Goto(p, "user")
        /\ UNCHANGED cpu
    BY <1>3 DEF wait, kfree
  <2> HIDE DEF z
  <2>3. Reap(p, z)
    BY <1>1, <2>1, <2>2 DEF Reap
  <2> QED
    BY <2>1, <2>3, ReapInv
<1>4. CASE zombies = {} /\ (kids = {} \/ killed[p])
  <2>1. /\ chan' = [chan EXCEPT ![p] = none] /\ Goto(p, "user")
        /\ UNCHANGED <<state, pid, parent, killed, kstack, cpu>>
    BY <1>4 DEF wait
  <2>2. panicked' = (panicked \/ ("user" = "exit" /\ p = initproc))
    BY <1>1 DEF ProcInv, TypeOK
  <2> QED
    BY <1>1, <1>2, <2>1, <2>2, MoveInv
<1>5. CASE zombies = {} /\ kids # {} /\ ~killed[p]
  <2>1. /\ chan' = [chan EXCEPT ![p] = p]
        /\ state' = [state EXCEPT ![p] = "SLEEPING"]
        /\ sched(p)
        /\ UNCHANGED <<pid, parent, killed, kstack, kpc>>
    BY <1>5 DEF wait
  <2>2. Goto(p, "wait")
    BY <1>1, <2>1 DEF ProcInv, TypeOK, Goto
  <2>3. /\ \E s \in Slots : parent[s] = p
        /\ \A s \in Slots : parent[s] = p => state[s] # "ZOMBIE"
    BY <1>5
  <2> HIDE DEF kids, zombies
  <2> QED
    BY <1>1, <1>5, <2>1, <2>2, <2>3, DozeInv DEF Doze
<1> QED
  BY <1>3, <1>4, <1>5

\* The timer takes the process off its processor and changes nothing else.
LEMMA yieldInv ==
  ASSUME ProcInv, NEW p \in Slots, yield(p)
  PROVE  ProcInv'
<1>0. /\ TypeOK /\ CpuInv /\ UniquePids /\ ForkInv /\ DormantInv /\ StackInv
      /\ ParentInv /\ SleepInv /\ NoMissedExit /\ PanicInv
  BY DEF ProcInv
<1>1. /\ state[p] = "RUNNING" /\ sched(p)
      /\ UNCHANGED <<pid, parent, chan, killed, kstack, nextpid, scan, kpc, np, panicked>>
  BY DEF yield
<1>2. \A s \in Slots : state'[s] = IF s = p THEN "RUNNABLE" ELSE state[s]
  BY <1>0 DEF yield, TypeOK
<1>type. TypeOK'
  <2>1. cpu' \in [Cpus -> Slots \union {none}]
    BY <1>0, <1>1 DEF TypeOK, sched
  <2>2. state' \in [Slots -> States]
    BY <1>0 DEF TypeOK, yield, States
  <2> QED
    BY <1>0, <1>1, <2>1, <2>2 DEF TypeOK
<1>cpu. CpuInv'
  BY <1>0, <1>1, <1>2, SchedCpus
<1>pids. UniquePids'
  BY <1>0, <1>1, <1>2, SamePids
<1>fork. ForkInv'
  BY <1>0, <1>1, <1>2, SameForks
<1>dorm. DormantInv'
  BY <1>0, <1>1, <1>2 DEF DormantInv, Live
<1>stack. StackInv'
  BY <1>0, <1>1, <1>2, SameStacks
<1>par. ParentInv'
  BY <1>0, <1>1, <1>2, SameParents DEF Live
<1>sleep. SleepInv'
  BY <1>0, <1>1, <1>2 DEF SleepInv
<1>miss. NoMissedExit'
  BY <1>0, <1>1, <1>2 DEF NoMissedExit
<1>panic. PanicInv'
  BY <1>0, <1>1 DEF PanicInv
<1> QED
  BY <1>type, <1>cpu, <1>pids, <1>fork, <1>dorm, <1>stack, <1>par, <1>sleep, <1>miss,
     <1>panic DEF ProcInv

\* scheduler() runs a process that no other processor runs: it was RUNNABLE.
LEMMA schedulerInv ==
  ASSUME ProcInv, NEW c \in Cpus, scheduler(c)
  PROVE  ProcInv'
<1>0. /\ TypeOK /\ CpuInv /\ UniquePids /\ ForkInv /\ DormantInv /\ StackInv
      /\ ParentInv /\ SleepInv /\ NoMissedExit /\ PanicInv
  BY DEF ProcInv
<1> DEFINE found == {t \in Slots : t >= scan[c] /\ state[t] = "RUNNABLE"}
           s == Smallest(found)
<1>1. /\ cpu[c] = none
      /\ UNCHANGED <<pid, parent, chan, killed, kstack, nextpid, kpc, np, panicked>>
  BY DEF scheduler
<1>2. CASE found = {}
  <2>1. scan' = [scan EXCEPT ![c] = 1] /\ UNCHANGED <<cpu, state>>
    BY <1>2 DEF scheduler
  <2>2. scan' \in [Cpus -> 1 .. NPROC + 1]
    BY <1>0, <2>1, TableAssumption DEF TypeOK, TableAssumption
  <2> HIDE DEF found
  <2>type. TypeOK'
    BY <1>0, <1>1, <2>1, <2>2 DEF TypeOK
  <2> QED
    BY <1>0, <1>1, <2>1, <2>type DEF ProcInv, CpuInv, UniquePids, ForkInv, DormantInv, StackInv,
       ParentInv, SleepInv, NoMissedExit, PanicInv
<1>3. CASE found # {}
  <2>1. s \in Slots /\ state[s] = "RUNNABLE"
    <3>1. s \in found
      BY <1>3, FirstSlot
    <3> QED
      BY <3>1
  <2>2. /\ cpu' = [cpu EXCEPT ![c] = s]
        /\ state' = [state EXCEPT ![s] = "RUNNING"]
        /\ scan' = [scan EXCEPT ![c] = s + 1]
    BY <1>3 DEF scheduler
  <2> HIDE DEF s, found
  <2>3. /\ \A t \in Slots : state'[t] = IF t = s THEN "RUNNING" ELSE state[t]
        /\ \A d \in Cpus : cpu'[d] = IF d = c THEN s ELSE cpu[d]
    BY <1>0, <2>2 DEF TypeOK
  <2>type. TypeOK'
    <3>1. s + 1 \in 1 .. NPROC + 1
      BY <2>1, TableAssumption DEF TableAssumption, Slots
    <3>2. scan' \in [Cpus -> 1 .. NPROC + 1]
      BY <1>0, <2>2, <3>1 DEF TypeOK
    <3>3. state' \in [Slots -> States] /\ cpu' \in [Cpus -> Slots \union {none}]
      BY <1>0, <2>1, <2>2 DEF TypeOK, States
    <3> QED
      BY <1>0, <1>1, <3>2, <3>3 DEF TypeOK
  <2>cpu. CpuInv'
    <3>1. \A d \in Cpus : cpu[d] # s
      BY <1>0, <2>1, SlotFacts DEF CpuInv
    <3>2. \A d \in Cpus : cpu[d] = none \/ cpu[d] \in Slots
      BY <1>0 DEF TypeOK
    <3>3. \A d \in Cpus : cpu'[d] # none => state'[cpu'[d]] = "RUNNING"
      <4> SUFFICES ASSUME NEW d \in Cpus, cpu'[d] # none
                   PROVE  state'[cpu'[d]] = "RUNNING"
        OBVIOUS
      <4>1. CASE d = c
        BY <2>1, <2>3, <4>1
      <4>2. CASE d # c
        <5>1. cpu'[d] = cpu[d] /\ cpu[d] \in Slots /\ cpu[d] # s
          BY <2>3, <3>1, <3>2, <4>2
        <5> QED
          BY <1>0, <2>3, <5>1, SlotFacts DEF CpuInv
      <4> QED
        BY <4>1, <4>2
    <3>4. \A d, e \in Cpus : cpu'[d] # none /\ cpu'[d] = cpu'[e] => d = e
      BY <1>0, <2>3, <3>1 DEF CpuInv
    <3>5. \A t \in Slots : state'[t] = "RUNNING" => \E d \in Cpus : cpu'[d] = t
      <4> SUFFICES ASSUME NEW t \in Slots, state'[t] = "RUNNING"
                   PROVE  \E d \in Cpus : cpu'[d] = t
        OBVIOUS
      <4>1. CASE t = s
        BY <2>3, <4>1
      <4>2. CASE t # s
        <5>1. PICK d \in Cpus : cpu[d] = t
          BY <1>0, <2>3, <4>2 DEF CpuInv
        <5>2. d # c
          BY <1>1, <5>1, SlotFacts
        <5> QED
          BY <2>3, <5>1, <5>2
      <4> QED
        BY <4>1, <4>2
    <3> QED
      BY <3>3, <3>4, <3>5 DEF CpuInv
  <2>pids. UniquePids'
    BY <1>0, <1>1, <2>1, <2>3, SamePids
  <2>fork. ForkInv'
    BY <1>0, <1>1, <2>1, <2>3, SameForks
  <2>dorm. DormantInv'
    BY <1>0, <1>1, <2>1, <2>3 DEF DormantInv, Live
  <2>stack. StackInv'
    BY <1>0, <1>1, <2>1, <2>3, SameStacks
  <2>par. ParentInv'
    BY <1>0, <1>1, <2>1, <2>3, SameParents DEF Live
  <2>sleep. SleepInv'
    BY <1>0, <1>1, <2>3 DEF SleepInv
  <2>miss. NoMissedExit'
    BY <1>0, <1>1, <2>3 DEF NoMissedExit
  <2>panic. PanicInv'
    BY <1>0, <1>1 DEF PanicInv
  <2> QED
    BY <2>type, <2>cpu, <2>pids, <2>fork, <2>dorm, <2>stack, <2>par, <2>sleep, <2>miss,
       <2>panic DEF ProcInv
<1> QED
  BY <1>2, <1>3

\* The steps that only move one process along its code.
LEMMA PlaceInv ==
  ASSUME ProcInv, NEW p \in Slots,
         call_exit(p) \/ call_wait(p) \/ call_sleep(p) \/ tick_check(p)
  PROVE  ProcInv'
<1>1. panicked \in BOOLEAN
  BY DEF ProcInv, TypeOK
<1>2. /\ \A label \in {"user", "exit", "wait", "tick_check", "tick_sleep"} :
           label \in KPCs \ Filling
      /\ \A label \in {"user", "fork_failed", "tick_check"} : label \notin Filling
  BY DEF KPCs, Filling
<1>3. CASE call_exit(p)
  <2>1. /\ state[p] = "RUNNING" /\ kpc[p] \notin Filling /\ ~panicked /\ Goto(p, "exit")
        /\ panicked' = (panicked \/ ("exit" = "exit" /\ p = initproc))
        /\ UNCHANGED <<state, pid, parent, chan, killed, kstack, nextpid, cpu, scan, np>>
    BY <1>1, <1>2, <1>3 DEF call_exit, At, table
  <2> QED
    BY <1>2, <2>1, MoveInv
<1>4. CASE call_wait(p)
  <2>1. /\ state[p] = "RUNNING" /\ kpc[p] \notin Filling /\ ~panicked /\ Goto(p, "wait")
        /\ panicked' = (panicked \/ ("wait" = "exit" /\ p = initproc))
        /\ UNCHANGED <<state, pid, parent, chan, killed, kstack, nextpid, cpu, scan, np>>
    BY <1>1, <1>2, <1>4 DEF call_wait, At, table
  <2> QED
    BY <1>2, <2>1, MoveInv
<1>5. CASE call_sleep(p)
  <2>1. /\ state[p] = "RUNNING" /\ kpc[p] \notin Filling /\ ~panicked /\ Goto(p, "tick_check")
        /\ panicked' = (panicked \/ ("tick_check" = "exit" /\ p = initproc))
        /\ UNCHANGED <<state, pid, parent, chan, killed, kstack, nextpid, cpu, scan, np>>
    BY <1>1, <1>2, <1>5 DEF call_sleep, At, table
  <2> QED
    BY <1>2, <2>1, MoveInv
<1>6. CASE tick_check(p)
  <2>1. PICK label \in {"user", "tick_sleep"} : Goto(p, label)
    BY <1>6 DEF tick_check
  <2>2. /\ state[p] = "RUNNING" /\ kpc[p] \notin Filling /\ ~panicked
        /\ panicked' = (panicked \/ (label = "exit" /\ p = initproc))
        /\ chan' = [chan EXCEPT ![p] = none]
        /\ UNCHANGED <<state, pid, parent, killed, kstack, nextpid, cpu, scan, np>>
    BY <1>1, <1>2, <1>6, <2>1 DEF tick_check, At
  <2> QED
    BY <1>2, <2>1, <2>2, MoveInv
<1> QED
  BY <1>3, <1>4, <1>5, <1>6

\* sleep(&ticks, &tickslock).
LEMMA tick_sleepInv ==
  ASSUME ProcInv, NEW p \in Slots, tick_sleep(p)
  PROVE  ProcInv'
BY DozeInv DEF tick_sleep, At, Doze, Filling

\* wakeup(&ticks).
LEMMA clock_tickInv ==
  ASSUME ProcInv, clock_tick
  PROVE  ProcInv'
<1>1. state \in [Slots -> States] /\ killed \in [Slots -> BOOLEAN] /\ "RUNNABLE" \in States
  BY DEF ProcInv, TypeOK, States
<1>2. /\ state' \in [Slots -> States]
      /\ \A s \in Slots : state'[s] = state[s] \/ (state[s] = "SLEEPING" /\ state'[s] = "RUNNABLE")
  BY <1>1 DEF clock_tick, wakeup1
<1>3. UNCHANGED <<pid, parent, chan, killed, kstack, nextpid, cpu, scan, kpc, np, panicked>>
  BY DEF clock_tick
<1> QED
  BY <1>1, <1>2, <1>3, WakeInv

\* kill() wakes what it marks, so nobody sleeps in wait() with the mark set.
LEMMA killInv ==
  ASSUME ProcInv, NEW p \in Slots, NEW n \in 0 .. MaxPid, kill(p, n)
  PROVE  ProcInv'
<1> DEFINE hit == {t \in Slots : pid[t] = n}
           s == Smallest(hit)
<1>0. s \in Slots
  <2>1. hit # {}
    BY DEF kill
  <2> QED
    BY <2>1, FirstSlot
<1>1. /\ killed' = [killed EXCEPT ![s] = TRUE]
      /\ state' = [state EXCEPT ![s] = rouse(s)]
      /\ UNCHANGED <<pid, parent, chan, kstack, nextpid, cpu, scan, kpc, np, panicked>>
  BY DEF kill
<1> HIDE DEF s
<1>2. state \in [Slots -> States] /\ killed \in [Slots -> BOOLEAN] /\ "RUNNABLE" \in States
  BY DEF ProcInv, TypeOK, States
<1>3. /\ state' \in [Slots -> States] /\ killed' \in [Slots -> BOOLEAN]
      /\ \A t \in Slots : state'[t] = state[t] \/ (state[t] = "SLEEPING" /\ state'[t] = "RUNNABLE")
      /\ \A t \in Slots : state'[t] = "SLEEPING" => killed'[t] = killed[t]
  BY <1>0, <1>1, <1>2 DEF rouse
<1> QED
  BY <1>1, <1>3, WakeInv
-----------------------------------------------------------------------------
(* The invariant, and the theorems. *)

\* userinit() leaves a consistent table.
LEMMA Initial == Init => ProcInv
<1> SUFFICES ASSUME Init PROVE ProcInv
  OBVIOUS
<1>0. \A s \in Slots : /\ state[s] = IF s = initproc THEN "RUNNABLE" ELSE "UNUSED"
                       /\ pid[s] = IF s = initproc THEN 1 ELSE 0
                       /\ parent[s] = none /\ kstack[s] = (s = initproc)
                       /\ kpc[s] = "user" /\ np[s] = none
  BY DEF Init
<1>1. TypeOK
  <2>1. nextpid = 2 /\ 2 \in 2 .. MaxPid + 1 /\ 0 .. nextpid - 1 = {0, 1} /\ 1 \in 1 .. NPROC + 1
    BY TableAssumption DEF Init, TableAssumption
  <2>2. pid \in [Slots -> 0 .. nextpid - 1] /\ nextpid \in 2 .. MaxPid + 1
    BY <2>1 DEF Init
  <2>3. scan \in [Cpus -> 1 .. NPROC + 1] /\ cpu \in [Cpus -> Slots \union {none}]
    BY <2>1 DEF Init
  <2>4. /\ state \in [Slots -> States] /\ parent \in [Slots -> Slots \union {none}]
        /\ chan \in [Slots -> Slots \union {none, ticks}] /\ np \in [Slots -> Slots \union {none}]
    BY DEF Init, States
  <2>5. /\ killed \in [Slots -> BOOLEAN] /\ kstack \in [Slots -> BOOLEAN]
        /\ kpc \in [Slots -> KPCs] /\ panicked \in BOOLEAN
    BY DEF Init, KPCs
  <2> QED
    BY <2>2, <2>3, <2>4, <2>5 DEF TypeOK
<1>2. CpuInv
  BY <1>0 DEF Init, CpuInv
<1>3. UniquePids
  BY <1>0 DEF UniquePids
<1>4. ForkInv /\ DormantInv
  BY <1>0 DEF ForkInv, DormantInv, Filling
<1>5. StackInv
  BY <1>0, SlotFacts DEF StackInv
<1>6. ParentInv
  BY <1>0, SlotFacts DEF ParentInv, Live
<1>7. SleepInv /\ NoMissedExit
  BY <1>0 DEF SleepInv, NoMissedExit
<1>8. PanicInv
  BY <1>0, SlotFacts DEF PanicInv
<1> QED
  BY <1>1, <1>2, <1>3, <1>4, <1>5, <1>6, <1>7, <1>8 DEF ProcInv

\* Every state of the table satisfies ProcInv.
LEMMA Invariant == Spec => []ProcInv
<1>1. ProcInv /\ [Next]_vars => ProcInv'
  <2> SUFFICES ASSUME ProcInv, [Next]_vars PROVE ProcInv'
    OBVIOUS
  <2>1. ASSUME NEW p \in Slots, allocproc(p) \/ alloc_kstack(p) \/ fork_copy(p) \/ fork_ready(p)
        PROVE  ProcInv'
    BY <2>1, allocprocInv, alloc_kstackInv, fork_copyInv, fork_readyInv
  <2>2. ASSUME NEW p \in Slots, exit(p) \/ wait(p) \/ tick_sleep(p) \/ yield(p)
        PROVE  ProcInv'
    BY <2>2, exitInv, waitInv, tick_sleepInv, yieldInv
  <2>3. ASSUME NEW p \in Slots, call_exit(p) \/ call_wait(p) \/ call_sleep(p) \/ tick_check(p)
        PROVE  ProcInv'
    BY <2>3, PlaceInv
  <2>4. CASE UNCHANGED vars
    BY <2>4 DEF vars, ProcInv, TypeOK, CpuInv, UniquePids, ForkInv, DormantInv, StackInv,
       ParentInv, SleepInv, NoMissedExit, PanicInv
  <2> QED
    BY <2>1, <2>2, <2>3, <2>4, killInv, schedulerInv, clock_tickInv DEF Next
<1> QED
  BY <1>1, Initial, PTL DEF Spec

\* Processors count: one for a RUNNING process, none for the others.
LEMMA OneCpu == ProcInv => RunsOnOneCpu
<1> SUFFICES ASSUME ProcInv, NEW s \in Slots
             PROVE  Cardinality({c \in Cpus : cpu[c] = s}) = IF state[s] = "RUNNING" THEN 1 ELSE 0
  BY DEF RunsOnOneCpu
<1>0. CpuInv
  BY DEF ProcInv
<1>1. CASE state[s] = "RUNNING"
  <2>1. PICK c \in Cpus : cpu[c] = s
    BY <1>0, <1>1 DEF CpuInv
  <2>2. {d \in Cpus : cpu[d] = s} = {c}
    BY <1>0, <2>1, SlotFacts DEF CpuInv
  <2> QED
    BY <1>1, <2>2, FS_Singleton
<1>2. CASE state[s] # "RUNNING"
  <2>1. {d \in Cpus : cpu[d] = s} = {}
    BY <1>0, <1>2, SlotFacts DEF CpuInv
  <2> QED
    BY <1>2, <2>1, FS_EmptySet
<1> QED
  BY <1>1, <1>2

\* Slots and stacks have one owner each.
LEMMA OneOwner == ProcInv => SlotOwnership
<1> SUFFICES ASSUME ProcInv, NEW s \in Slots
             PROVE  /\ Cardinality(Forkers(s)) = IF state[s] = "EMBRYO" THEN 1 ELSE 0
                    /\ kstack[s] <=> \/ state[s] \notin {"UNUSED", "EMBRYO"}
                                     \/ \E p \in Forkers(s) : kpc[p] # "alloc"
  BY DEF SlotOwnership
<1>0. ForkInv /\ StackInv
  BY DEF ProcInv
<1>1. Forkers(s) = {p \in Slots : np[p] = s}
  <2>1. \A p \in Slots : np[p] = s => kpc[p] \in Filling
    BY <1>0, SlotFacts DEF ForkInv
  <2> QED
    BY <2>1 DEF Forkers, Filling
<1>2. kstack[s] <=> \/ state[s] \notin {"UNUSED", "EMBRYO"}
                    \/ \E p \in Forkers(s) : kpc[p] # "alloc"
  BY <1>0, <1>1 DEF StackInv
<1>3. CASE state[s] = "EMBRYO"
  <2>1. PICK p \in Slots : np[p] = s
    BY <1>0, <1>3 DEF ForkInv
  <2>2. \A q \in Slots : np[q] = s => q = p
    BY <1>0, <2>1, SlotFacts DEF ForkInv
  <2>3. {q \in Slots : np[q] = s} = {p}
    BY <2>1, <2>2
  <2> QED
    BY <1>1, <1>2, <1>3, <2>3, FS_Singleton
<1>4. CASE state[s] # "EMBRYO"
  <2>1. \A q \in Slots : np[q] # s
    BY <1>0, <1>4, SlotFacts DEF ForkInv
  <2>2. {q \in Slots : np[q] = s} = {}
    BY <2>1
  <2> QED
    BY <1>1, <1>2, <1>4, <2>2, FS_EmptySet
<1> QED
  BY <1>3, <1>4

\* The process table is consistent after every critical section of proc.c, for
\* any number of slots, processors and pids: types, one processor per RUNNING
\* process, unique pids, one fork() per EMBRYO slot, one owner per kernel stack.
THEOREM TableConsistent == Spec => []TableInv
<1>1. ProcInv => TableInv
  BY OneCpu, OneOwner DEF ProcInv, TableInv
<1> QED
  BY <1>1, Invariant, PTL

\* exit() passes every child on to init, so each process has a live parent.
THEOREM LiveParents == Spec => []LiveParent
<1>1. ProcInv => LiveParent
  BY DEF ProcInv, ParentInv, LiveParent, Live
<1> QED
  BY <1>1, Invariant, PTL

\* No exit() of a child and no kill() slips between the checks of wait() and
\* its sleep(), nor between exit()'s wakeup and its becoming a zombie.
THEOREM NoExitMissed == Spec => []NoMissedExit
<1>1. ProcInv => NoMissedExit
  BY DEF ProcInv
<1> QED
  BY <1>1, Invariant, PTL
=============================================================================

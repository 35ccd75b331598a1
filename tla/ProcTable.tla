------------------------------ MODULE ProcTable ------------------------------
(***************************************************************************)
(* The process table of xv6 (os/5/proc.c, with the callers in sysproc.c    *)
(* and trap.c): creation, scheduling, sleeping, killing, exit and reaping. *)
(*                                                                         *)
(* A critical section of ptable.lock is one action; what runs between two  *)
(* of them (allocproc() and fork() after the slot is taken) is interleaved *)
(* with everything else.  A process executes only while it is RUNNING, and *)
(* the timer may preempt it anywhere but with a lock held.  User programs  *)
(* make any system call at any time; init only forks and waits, and exits  *)
(* when fork() fails (init.c).  Memory may run out at any allocation.      *)
(***************************************************************************)
EXTENDS Integers, FiniteSets

CONSTANTS
  NPROC,    \* slots of ptable.proc
  Cpus,     \* processors, each running scheduler()
  MaxPid    \* bound on nextpid

ASSUME TableAssumption ==
  /\ NPROC \in Nat /\ NPROC > 1
  /\ MaxPid \in Nat /\ MaxPid > 1

Slots == 1..NPROC
none == 0              \* null pointer
initproc == 1          \* userinit() takes the first slot
ticks == NPROC + 1     \* the channel &ticks

States == {"UNUSED", "EMBRYO", "SLEEPING", "RUNNABLE", "RUNNING", "ZOMBIE"}

VARIABLES
  state, pid, parent, chan, killed,   \* fields of struct proc
  kstack,    \* the slot owns a kernel stack page
  nextpid,
  cpu,       \* c->proc of each processor
  scan,      \* where the scheduler() loop of each processor continues
  kpc,       \* where a process is: user code or a place in the kernel
  np,        \* the slot fork() is filling
  panicked   \* init exited

table == <<state, pid, parent, chan, killed, kstack, nextpid>>
vars == <<state, pid, parent, chan, killed, kstack, nextpid, cpu, scan, kpc, np, panicked>>

KPCs == {"user", "alloc", "copy", "ready", "wait", "tick_check", "tick_sleep",
         "fork_failed", "exit"}

Smallest(S) == CHOOSE s \in S : \A t \in S : s <= t

At(p, label) == state[p] = "RUNNING" /\ kpc[p] = label /\ ~panicked
Goto(p, label) == kpc' = [kpc EXCEPT ![p] = label]

\* fork() returned -1: init.c calls exit(), other programs go on.
ForkFailed(p) == Goto(p, IF p = initproc THEN "fork_failed" ELSE "user")

\* sched(): p's processor goes back to its scheduler() loop.
sched(p) == cpu' = [c \in Cpus |-> IF cpu[c] = p THEN none ELSE cpu[c]]

\* Mutant: nobody is woken.
wakeup1Nobody(st, ch) == st

\* wakeup1(): the table's states after waking everyone asleep on channel ch.
wakeup1(st, ch) ==
  [s \in Slots |-> IF st[s] = "SLEEPING" /\ chan[s] = ch THEN "RUNNABLE" ELSE st[s]]

\* The pid of the next process.
newpid == nextpid

\* Mutant: the page is not given back.
kfreeLeak(s) == kstack

\* kfree() of slot s's kernel stack.
kfree(s) == [kstack EXCEPT ![s] = FALSE]

\* Mutant: the children keep their dead parent.
adoptNone(p) == parent

\* Parents after exit() passed p's children to init.
adopt(p) == [s \in Slots |-> IF parent[s] = p THEN initproc ELSE parent[s]]

\* Mutant: a sleeping process is marked but not woken.
rouseNot(s) == state[s]

\* The state kill() leaves slot s in.
rouse(s) == IF state[s] = "SLEEPING" THEN "RUNNABLE" ELSE state[s]
-----------------------------------------------------------------------------
\* After userinit(): one RUNNABLE process, init.
Init ==
  /\ state = [s \in Slots |-> IF s = initproc THEN "RUNNABLE" ELSE "UNUSED"]
  /\ pid = [s \in Slots |-> IF s = initproc THEN 1 ELSE 0]
  /\ parent = [s \in Slots |-> none]
  /\ chan = [s \in Slots |-> none]
  /\ killed = [s \in Slots |-> FALSE]
  /\ kstack = [s \in Slots |-> s = initproc]
  /\ nextpid = 2
  /\ cpu = [c \in Cpus |-> none]
  /\ scan = [c \in Cpus |-> 1]
  /\ kpc = [s \in Slots |-> "user"]
  /\ np = [s \in Slots |-> none]
  /\ panicked = FALSE
-----------------------------------------------------------------------------
(* fork() *)

\* allocproc() up to release(): take the first free slot, or fail.
allocproc(p) ==
  LET free == {s \in Slots : state[s] = "UNUSED"}
      s == Smallest(free)
  IN
  /\ At(p, "user") /\ ~killed[p]
  /\ \/ /\ free # {}
        /\ nextpid <= MaxPid
        /\ state' = [state EXCEPT ![s] = "EMBRYO"]
        /\ pid' = [pid EXCEPT ![s] = newpid]
        /\ nextpid' = nextpid + 1
        /\ np' = [np EXCEPT ![p] = s]
        /\ Goto(p, "alloc")
     \/ /\ free = {}
        /\ ForkFailed(p)
        /\ UNCHANGED <<state, pid, nextpid, np>>
  /\ UNCHANGED <<parent, chan, killed, kstack, cpu, scan, panicked>>

\* allocproc() after release(): the kernel stack, or the slot is given back.
alloc_kstack(p) ==
  /\ At(p, "alloc")
  /\ \/ /\ kstack' = [kstack EXCEPT ![np[p]] = TRUE]
        /\ Goto(p, "copy")
        /\ UNCHANGED <<state, np>>
     \/ /\ state' = [state EXCEPT ![np[p]] = "UNUSED"]
        /\ np' = [np EXCEPT ![p] = none]
        /\ ForkFailed(p)
        /\ UNCHANGED kstack
  /\ UNCHANGED <<pid, parent, chan, killed, nextpid, cpu, scan, panicked>>

\* copyuvm() and the fields of the child; or the slot is given back.
fork_copy(p) ==
  /\ At(p, "copy")
  /\ \/ /\ parent' = [parent EXCEPT ![np[p]] = p]
        /\ Goto(p, "ready")
        /\ UNCHANGED <<state, kstack, np>>
     \/ /\ kstack' = kfree(np[p])
        /\ state' = [state EXCEPT ![np[p]] = "UNUSED"]
        /\ np' = [np EXCEPT ![p] = none]
        /\ ForkFailed(p)
        /\ UNCHANGED parent
  /\ UNCHANGED <<pid, chan, killed, nextpid, cpu, scan, panicked>>

\* The last critical section of fork(): the child starts in user code.
fork_ready(p) ==
  /\ At(p, "ready")
  /\ state' = [state EXCEPT ![np[p]] = "RUNNABLE"]
  /\ np' = [np EXCEPT ![p] = none]
  /\ Goto(p, "user")
  /\ UNCHANGED <<pid, parent, chan, killed, kstack, nextpid, cpu, scan, panicked>>
-----------------------------------------------------------------------------
(* exit() and wait() *)

\* exit() is called: by the program, or by trap() because of p->killed.
call_exit(p) ==
  /\ \/ At(p, "user") /\ (p # initproc \/ killed[p])
     \/ At(p, "fork_failed")
  /\ panicked' = (p = initproc)
  /\ Goto(p, "exit")
  /\ UNCHANGED <<table, cpu, scan, np>>

\* exit()'s critical section: wake the parent, hand the children to init,
\* become a zombie.
exit(p) ==
  LET woken == wakeup1(state, parent[p])
      all == IF \E s \in Slots : parent[s] = p /\ state[s] = "ZOMBIE"
             THEN wakeup1(woken, initproc) ELSE woken
  IN
  /\ At(p, "exit")
  /\ state' = [all EXCEPT ![p] = "ZOMBIE"]
  /\ parent' = adopt(p)
  /\ Goto(p, "user")     \* where the slot's next process will start
  /\ sched(p)
  /\ UNCHANGED <<pid, chan, killed, kstack, nextpid, scan, np, panicked>>

call_wait(p) ==
  /\ At(p, "user") /\ ~killed[p]
  /\ Goto(p, "wait")
  /\ UNCHANGED <<table, cpu, scan, np, panicked>>

\* One pass of wait()'s loop, entered from the call or from sleep().
wait(p) ==
  LET kids == {s \in Slots : parent[s] = p}
      zombies == {s \in kids : state[s] = "ZOMBIE"}
      z == Smallest(zombies)
  IN
  /\ At(p, "wait")
  /\ \/ /\ zombies # {}
        /\ state' = [state EXCEPT ![z] = "UNUSED"]
        /\ pid' = [pid EXCEPT ![z] = 0]
        /\ parent' = [parent EXCEPT ![z] = none]
        /\ killed' = [killed EXCEPT ![z] = FALSE]
        /\ kstack' = kfree(z)
        /\ chan' = [chan EXCEPT ![p] = none]
        /\ Goto(p, "user")
        /\ UNCHANGED cpu
     \/ /\ zombies = {}
        /\ kids = {} \/ killed[p]
        /\ chan' = [chan EXCEPT ![p] = none]
        /\ Goto(p, "user")
        /\ UNCHANGED <<state, pid, parent, killed, kstack, cpu>>
     \/ /\ zombies = {} /\ kids # {} /\ ~killed[p]
        /\ chan' = [chan EXCEPT ![p] = p]
        /\ state' = [state EXCEPT ![p] = "SLEEPING"]
        /\ sched(p)
        /\ UNCHANGED <<pid, parent, killed, kstack, kpc>>
  /\ UNCHANGED <<nextpid, scan, np, panicked>>
-----------------------------------------------------------------------------
(* sys_sleep(), kill() and the timer *)

call_sleep(p) ==
  /\ At(p, "user") /\ ~killed[p] /\ p # initproc
  /\ Goto(p, "tick_check")
  /\ UNCHANGED <<table, cpu, scan, np, panicked>>

\* Holder of tickslock while it decides to sleep.
TicksHeld == \E p \in Slots : kpc[p] = "tick_sleep" /\ state[p] = "RUNNING"

\* acquire(&tickslock) and the loop test: the time is over, p was killed, or
\* p goes to sleep, still holding tickslock.
tick_check(p) ==
  /\ At(p, "tick_check") /\ ~TicksHeld
  /\ \/ Goto(p, "user")
     \/ ~killed[p] /\ Goto(p, "tick_sleep")
  /\ chan' = [chan EXCEPT ![p] = none]
  /\ UNCHANGED <<state, pid, parent, killed, kstack, nextpid, cpu, scan, np, panicked>>

\* sleep(&ticks, &tickslock) under ptable.lock.
tick_sleep(p) ==
  /\ At(p, "tick_sleep")
  /\ chan' = [chan EXCEPT ![p] = ticks]
  /\ state' = [state EXCEPT ![p] = "SLEEPING"]
  /\ Goto(p, "tick_check")
  /\ sched(p)
  /\ UNCHANGED <<pid, parent, killed, kstack, nextpid, scan, np, panicked>>

\* The clock interrupt of processor 0: wakeup(&ticks) with tickslock held.
clock_tick ==
  /\ ~TicksHeld /\ ~panicked
  /\ state' = wakeup1(state, ticks)
  /\ UNCHANGED <<pid, parent, chan, killed, kstack, nextpid, cpu, scan, kpc, np, panicked>>

\* kill(n), n any integer a program passes: the first slot with that pid.
kill(p, n) ==
  LET hit == {s \in Slots : pid[s] = n}
      s == Smallest(hit)
  IN
  /\ At(p, "user") /\ ~killed[p] /\ p # initproc
  /\ hit # {}       \* otherwise kill() returns -1
  /\ killed' = [killed EXCEPT ![s] = TRUE]
  /\ state' = [state EXCEPT ![s] = rouse(s)]
  /\ UNCHANGED <<pid, parent, chan, kstack, nextpid, cpu, scan, kpc, np, panicked>>

\* The timer interrupt: yield(), unless trap() finds p killed in user space.
\* acquire() disables interrupts, so p is not preempted while it holds
\* tickslock, nor while it spins for it.
yield(p) ==
  /\ state[p] = "RUNNING" /\ ~panicked
  /\ kpc[p] # "tick_sleep"
  /\ kpc[p] = "tick_check" => ~TicksHeld
  /\ kpc[p] = "user" => ~killed[p]
  /\ state' = [state EXCEPT ![p] = "RUNNABLE"]
  /\ sched(p)
  /\ UNCHANGED <<pid, parent, chan, killed, kstack, nextpid, scan, kpc, np, panicked>>

\* scheduler() on an idle processor: run the next RUNNABLE slot of this pass,
\* or start the next pass.
scheduler(c) ==
  LET found == {s \in Slots : s >= scan[c] /\ state[s] = "RUNNABLE"}
      s == Smallest(found)
  IN
  /\ cpu[c] = none /\ ~panicked
  /\ \/ /\ found # {}
        /\ cpu' = [cpu EXCEPT ![c] = s]
        /\ state' = [state EXCEPT ![s] = "RUNNING"]
        /\ scan' = [scan EXCEPT ![c] = s + 1]
     \/ /\ found = {} /\ scan[c] # 1
        /\ scan' = [scan EXCEPT ![c] = 1]
        /\ UNCHANGED <<cpu, state>>
  /\ UNCHANGED <<pid, parent, chan, killed, kstack, nextpid, kpc, np, panicked>>
-----------------------------------------------------------------------------
\* What p does next inside a call, without user code having a choice.
KernelStep(p) ==
  \/ alloc_kstack(p) \/ fork_copy(p) \/ fork_ready(p)
  \/ exit(p) \/ wait(p) \/ tick_check(p) \/ tick_sleep(p)
  \/ (killed[p] \/ kpc[p] = "fork_failed") /\ call_exit(p)

Next ==
  \/ \E p \in Slots :
       \/ allocproc(p) \/ alloc_kstack(p) \/ fork_copy(p) \/ fork_ready(p)
       \/ call_exit(p) \/ exit(p) \/ call_wait(p) \/ wait(p)
       \/ call_sleep(p) \/ tick_check(p) \/ tick_sleep(p) \/ yield(p)
  \/ \E p \in Slots, n \in 0..MaxPid : kill(p, n)
  \/ \E c \in Cpus : scheduler(c)
  \/ clock_tick

Spec == Init /\ [][Next]_vars

\* Every processor keeps running scheduler(), the clock ticks and preempts,
\* and a process gets on between preemptions (hence strong fairness: a step is
\* disabled while the process is not on a processor).  init calls wait() again
\* and again (init.c).
FairSpec ==
  /\ Spec
  /\ \A c \in Cpus : WF_vars(scheduler(c))
  /\ \A p \in Slots : WF_vars(yield(p)) /\ SF_vars(KernelStep(p))
  /\ WF_vars(clock_tick)
  /\ SF_vars(call_wait(initproc))
-----------------------------------------------------------------------------
(* Properties. *)

\* Types of the process table; pids given out by allocproc() stay below nextpid.
TypeOK ==
  /\ state \in [Slots -> States]
  /\ pid \in [Slots -> 0 .. nextpid - 1]
  /\ parent \in [Slots -> Slots \union {none}]
  /\ chan \in [Slots -> Slots \union {none, ticks}]
  /\ killed \in [Slots -> BOOLEAN]
  /\ kstack \in [Slots -> BOOLEAN]
  /\ nextpid \in 2 .. MaxPid + 1
  /\ cpu \in [Cpus -> Slots \union {none}]
  /\ scan \in [Cpus -> 1 .. NPROC + 1]
  /\ kpc \in [Slots -> KPCs]
  /\ np \in [Slots -> Slots \union {none}]
  /\ panicked \in BOOLEAN

\* No two processors ever run the same process, and no processor runs a
\* process whose slot says something else: scheduler(), sched() and the
\* wakeups of other processes agree about who is where.
RunsOnOneCpu ==
  \A s \in Slots :
    Cardinality({c \in Cpus : cpu[c] = s}) = IF state[s] = "RUNNING" THEN 1 ELSE 0

\* Processes that exist have different pids, so kill() and wait() mean one.
UniquePids ==
  \A s, t \in Slots :
    s # t /\ state[s] # "UNUSED" /\ state[t] # "UNUSED" => pid[s] # pid[t]

\* Every process but init has a parent that can still wait() for it: exit()
\* leaves no child behind with a dead parent, whatever is being forked, woken
\* or killed meanwhile.
LiveParent ==
  \A s \in Slots \ {initproc} :
    state[s] \notin {"UNUSED", "EMBRYO"} =>
      /\ parent[s] \in Slots
      /\ state[parent[s]] \notin {"UNUSED", "EMBRYO", "ZOMBIE"}

\* A process asleep in wait() has not missed an exit() or a kill(): it has
\* children, none of them a zombie, and was not killed.
NoMissedExit ==
  \A p \in Slots : state[p] = "SLEEPING" /\ chan[p] = p =>
    /\ ~killed[p]
    /\ \E s \in Slots : parent[s] = p
    /\ \A s \in Slots : parent[s] = p => state[s] # "ZOMBIE"

\* Processes whose fork() is filling slot s.
Forkers(s) == {p \in Slots : kpc[p] \in {"alloc", "copy", "ready"} /\ np[p] = s}

\* A slot being filled belongs to exactly one fork(), and kernel stacks are
\* neither leaked by a fork() that fails nor missing in a process.
SlotOwnership ==
  \A s \in Slots :
    /\ Cardinality(Forkers(s)) = IF state[s] = "EMBRYO" THEN 1 ELSE 0
    /\ kstack[s] <=> \/ state[s] \notin {"UNUSED", "EMBRYO"}
                     \/ \E p \in Forkers(s) : kpc[p] # "alloc"

\* The process table is consistent after every critical section of fork(),
\* exit(), wait(), kill(), sleep(), wakeup() and the schedulers: pids name one
\* process, no process is on two processors, and every slot and kernel stack
\* has one owner.
TableInv == TypeOK /\ RunsOnOneCpu /\ UniquePids /\ SlotOwnership

\* A killed process gets to exit(), wherever it was: in user code, runnable,
\* asleep, or not even started.
KilledDies ==
  \A s \in Slots \ {initproc} :
    killed[s] /\ state[s] # "UNUSED" ~> state[s] \in {"ZOMBIE", "UNUSED"} \/ panicked

\* The zombie children of init, orphans included, are reaped.
OrphanReaped ==
  \A s \in Slots \ {initproc} :
    state[s] = "ZOMBIE" /\ parent[s] = initproc ~> state[s] = "UNUSED" \/ panicked
=============================================================================

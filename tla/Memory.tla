------------------------------- MODULE Memory -------------------------------
(* Physical and user memory of os/5: the page allocator (kalloc.c), the page  *)
(* tables (vm.c) and the three system calls that build and take apart address *)
(* spaces, fork(), exec() and sbrk().                                         *)
(*                                                                            *)
(* kalloc() and kfree() are atomic under kmem.lock; between them processes on *)
(* other CPUs allocate and free, so copyuvm() and allocuvm() are modelled one *)
(* page at a time and memory may run out before any of them.  Frames are      *)
(* alike: the free list is a set, of which the least frame is taken.          *)
EXTENDS Integers, FiniteSets, FiniteSetsExt

CONSTANTS Frames,      \* the pages between end and PHYSTOP, 1 .. n
          PGSIZE,      \* bytes of a page
          NPTENTRIES,  \* pages of a page table
          KERNBASE,    \* the end of user memory, a multiple of PGSIZE * NPTENTRIES
          Procs,       \* the slots of the process table, 1 .. n; 1 is init
          Programs,    \* memsz of the executables
          Bytes        \* arguments of sbrk()

ASSUME MemorySizes ==
    /\ PGSIZE \in Nat \ {0} /\ NPTENTRIES \in Nat \ {0}
    /\ KERNBASE \in Nat \ {0} /\ KERNBASE % (PGSIZE * NPTENTRIES) = 0
    /\ IsFiniteSet(Frames) /\ Frames \subseteq Nat \ {0} /\ 1 .. 5 \subseteq Frames
    /\ Procs \subseteq Nat \ {0} /\ 1 \in Procs
    /\ Programs \subseteq Nat /\ Bytes \subseteq Int

VARIABLES ram,   \* the free frames and what every frame holds
          proc   \* the processes: their memory and the call under way

memvars == <<ram, proc>>

init == 1

\* What a frame holds besides what process p stored, which is p.
JUNK == -3
ZERO == -2
CODE == -1

Pages == 0 .. KERNBASE \div PGSIZE - 1
Tables == 0 .. KERNBASE \div (PGSIZE * NPTENTRIES) - 1
PGROUNDUP(sz) == ((sz + PGSIZE - 1) \div PGSIZE) * PGSIZE

\* A page directory: its own frame, the kernel's page tables (one frame here),
\* the user page tables, the user pages and the pages with PTE_U.
NoSpace == [dir |-> 0, ktab |-> 0, tab |-> [t \in Tables |-> 0], pte |-> [i \in Pages |-> 0], user |-> {}]
NoCall == [k |-> "none", s |-> NoSpace, a |-> 0, from |-> 0, to |-> 0, child |-> 0]
Unused == [st |-> "unused", kstack |-> 0, s |-> NoSpace, sz |-> 0, call |-> NoCall, own |-> {}]
------------------------------------------------------------------------------
kalloc(m) == IF m.free = {} THEN 0 ELSE Min(m.free)

Take(m, f, content) == [m EXCEPT !.free = @ \ {f}, !.holds[f] = content]

\* kfree() of several frames fills them with junk; a frame that is free already
\* would tie the list into a knot, which twice records.
kfree(m, S) == [free |-> m.free \cup S, twice |-> m.twice \/ m.free \cap S # {},
                holds |-> [f \in Frames |-> IF f \in S THEN JUNK ELSE m.holds[f]]]

Present(F) == {F[i] : i \in DOMAIN F} \ {0}

\* mappages() of one page: walkpgdir() may have to allocate the page table.
mappages(m, s, i, f, user) ==
    LET t == i \div NPTENTRIES
        new == kalloc(m)
        put == [s EXCEPT !.pte[i] = f, !.user = IF user THEN @ \cup {i} ELSE @ \ {i}]
    IN  IF s.tab[t] # 0 THEN [ok |-> TRUE, m |-> m, s |-> put]
        ELSE IF new = 0 THEN [ok |-> FALSE, m |-> m, s |-> s]
        ELSE [ok |-> TRUE, m |-> Take(m, new, ZERO), s |-> [put EXCEPT !.tab[t] = new]]

setupkvm(m) ==
    LET d == kalloc(m)
        k == kalloc(Take(m, d, ZERO))
    IN  IF d = 0 THEN [ok |-> FALSE, m |-> m, s |-> NoSpace]
        ELSE IF k = 0 THEN [ok |-> FALSE, m |-> kfree(Take(m, d, ZERO), {d}), s |-> NoSpace]
        ELSE [ok |-> TRUE, m |-> Take(Take(m, d, ZERO), k, ZERO),
              s |-> [NoSpace EXCEPT !.dir = d, !.ktab = k]]

\* Mutant: the first address is rounded down.
droppedLow(s, oldsz, newsz) ==
    {i \in Pages : /\ newsz < oldsz /\ newsz \div PGSIZE <= i /\ i * PGSIZE < oldsz
                   /\ s.tab[i \div NPTENTRIES] # 0 /\ s.pte[i] # 0}

\* The pages deallocuvm() frees; it leaves the page tables.
dropped(s, oldsz, newsz) ==
    {i \in Pages : /\ newsz < oldsz /\ PGROUNDUP(newsz) <= i * PGSIZE /\ i * PGSIZE < oldsz
                   /\ s.tab[i \div NPTENTRIES] # 0 /\ s.pte[i] # 0}

deallocuvm(m, s, oldsz, newsz) ==
    LET D == dropped(s, oldsz, newsz) IN
    [m |-> kfree(m, {s.pte[i] : i \in D}),
     s |-> [s EXCEPT !.pte = [i \in Pages |-> IF i \in D THEN 0 ELSE @[i]], !.user = @ \ D]]

freevm(m, s) ==
    LET d == deallocuvm(m, s, KERNBASE, 0) IN
    kfree(kfree(d.m, Present(d.s.tab) \cup {d.s.ktab}), {d.s.dir})

\* Mutant: the page is not freed when there is no page table for it.
allocuvmLeaks(m, s, i, oldsz, newsz) ==
    LET f == kalloc(m)
        p == mappages(Take(m, f, ZERO), s, i, f, TRUE)
        undo == deallocuvm(p.m, p.s, newsz, oldsz)
        none == deallocuvm(m, s, newsz, oldsz)
    IN  IF f = 0 THEN [ok |-> FALSE, m |-> none.m, s |-> none.s]
        ELSE IF ~p.ok THEN [ok |-> FALSE, m |-> undo.m, s |-> undo.s]
        ELSE p

\* One turn of the loop of allocuvm(), for page i on the way from oldsz to newsz.
allocuvm(m, s, i, oldsz, newsz) ==
    LET f == kalloc(m)
        p == mappages(Take(m, f, ZERO), s, i, f, TRUE)
        undo == deallocuvm(p.m, p.s, newsz, oldsz)
        none == deallocuvm(m, s, newsz, oldsz)
    IN  IF f = 0 THEN [ok |-> FALSE, m |-> none.m, s |-> none.s]
        ELSE IF ~p.ok THEN [ok |-> FALSE, m |-> kfree(undo.m, {f}), s |-> undo.s]
        ELSE p

\* One turn of the loop of copyuvm(): page i of s goes to d.
copyuvm(m, s, d, i) ==
    LET f == kalloc(m)
        p == mappages(Take(m, f, m.holds[s.pte[i]]), d, i, f, i \in s.user)
    IN  IF f = 0 THEN [ok |-> FALSE, m |-> freevm(m, d), s |-> NoSpace]
        ELSE IF ~p.ok THEN [ok |-> FALSE, m |-> freevm(kfree(p.m, {f}), d), s |-> NoSpace]
        ELSE p
------------------------------------------------------------------------------
Idle(p) == proc[p].st = "run" /\ proc[p].call.k = "none"
Calls(p, k) == proc[p].call.k = k
UnusedSlots == {c \in Procs : proc[c].st = "unused"}

\* fork() up to the kernel stack of allocproc(), then setupkvm(), the pages, and
\* the child made RUNNABLE.
fork(p) ==
    LET c == Min(UnusedSlots)
        f == kalloc(ram)
    IN  /\ Idle(p) /\ UnusedSlots # {} /\ f # 0
        /\ ram' = Take(ram, f, ZERO)
        /\ proc' = [proc EXCEPT ![c] = [Unused EXCEPT !.st = "embryo", !.kstack = f],
                                ![p].call = [NoCall EXCEPT !.k = "fork", !.child = c]]

\* The memory after a failed fork(), and the table.
unfork(p, m) ==
    /\ ram' = kfree(m, {proc[proc[p].call.child].kstack})
    /\ proc' = [proc EXCEPT ![proc[p].call.child] = Unused, ![p].call = NoCall]

fork_kvm(p) ==
    LET v == setupkvm(ram) IN
    /\ Calls(p, "fork") /\ proc[p].call.s = NoSpace
    /\ \/ /\ v.ok
          /\ ram' = v.m /\ proc' = [proc EXCEPT ![p].call.s = v.s]
       \/ ~v.ok /\ unfork(p, v.m)

fork_page(p) ==
    LET c == proc[p].call
        v == copyuvm(ram, proc[p].s, c.s, c.a \div PGSIZE)
    IN  /\ Calls(p, "fork") /\ c.s # NoSpace /\ c.a < proc[p].sz
        /\ \/ /\ v.ok
              /\ ram' = v.m /\ proc' = [proc EXCEPT ![p].call.s = v.s, ![p].call.a = @ + PGSIZE]
           \/ ~v.ok /\ unfork(p, v.m)

fork_end(p) ==
    LET c == proc[p].call IN
    /\ Calls(p, "fork") /\ c.s # NoSpace /\ c.a >= proc[p].sz
    /\ proc' = [proc EXCEPT ![p].call = NoCall,
                            ![c.child] = [@ EXCEPT !.st = "run", !.s = c.s, !.sz = proc[p].sz,
                                                   !.own = proc[p].own \cup {c.child}]]
    /\ UNCHANGED ram
------------------------------------------------------------------------------
\* exec() of a program whose header is good, up to the new page directory.
exec(p, memsz) ==
    LET v == setupkvm(ram)
        large == memsz >= KERNBASE
    IN  /\ Idle(p)
        /\ ram' = IF v.ok /\ large THEN freevm(v.m, v.s) ELSE v.m
        /\ proc' = [proc EXCEPT ![p].call = IF ~v.ok \/ large THEN NoCall
                                            ELSE [NoCall EXCEPT !.k = "load", !.s = v.s, !.to = memsz]]

exec_bad(p) ==
    /\ proc[p].call.k \in {"load", "stack"} /\ proc[p].call.a >= proc[p].call.to
    /\ ram' = freevm(ram, proc[p].call.s)
    /\ proc' = [proc EXCEPT ![p].call = NoCall]

\* loaduvm() of a segment whose file part is the first page, and the start of
\* the allocation of the guard page and the stack.
loaduvm(p) ==
    LET c == proc[p].call
        top == PGROUNDUP(c.to)
    IN  /\ Calls(p, "load") /\ c.a >= c.to
        /\ IF top + 2 * PGSIZE >= KERNBASE
           THEN ram' = freevm(ram, c.s) /\ proc' = [proc EXCEPT ![p].call = NoCall]
           ELSE /\ ram' = [ram EXCEPT !.holds[c.s.pte[0]] = CODE]
                /\ proc' = [proc EXCEPT ![p].call = [c EXCEPT !.k = "stack", !.a = top, !.from = top,
                                                              !.to = top + 2 * PGSIZE]]

clearpteu(s, i) == [s EXCEPT !.user = @ \ {i}]

\* The frame the kernel may write page i of a user through; 0 is none.
uva2ka(s, i) == IF i \in s.user THEN s.pte[i] ELSE 0

\* copyout() of process p's bytes to pages S of space s.
copyout(m, s, S, p) ==
    [ok |-> \A i \in S : uva2ka(s, i) # 0,
     m |-> [m EXCEPT !.holds = [f \in Frames |-> IF \E i \in S : uva2ka(s, i) = f THEN p ELSE @[f]]]]

\* The guard page, arguments of n pages copied out below the top of the stack,
\* and the commit; arguments larger than the stack page reach the guard page.
exec_commit(p, n) ==
    LET c == proc[p].call
        top == c.to \div PGSIZE
        s == clearpteu(c.s, top - 2)
        v == copyout(ram, s, top - n .. top - 1, p)
    IN  /\ Calls(p, "stack") /\ c.a >= c.to
        /\ ram' = freevm(v.m, IF v.ok THEN proc[p].s ELSE s)
        /\ proc' = [proc EXCEPT ![p] = IF v.ok THEN [@ EXCEPT !.s = s, !.sz = c.to, !.call = NoCall, !.own = {p}]
                                       ELSE [@ EXCEPT !.call = NoCall]]

\* growproc(n), n > 0; from KERNBASE on it fails at once.
grow(p, n) ==
    /\ Idle(p) /\ n > 0 /\ proc[p].sz + n < KERNBASE
    /\ proc' = [proc EXCEPT ![p].call = [NoCall EXCEPT !.k = "grow", !.from = proc[p].sz,
                                                       !.a = PGROUNDUP(proc[p].sz), !.to = proc[p].sz + n]]
    /\ UNCHANGED ram

grow_end(p) ==
    /\ Calls(p, "grow") /\ proc[p].call.a >= proc[p].call.to
    /\ proc' = [proc EXCEPT ![p].sz = proc[p].call.to, ![p].call = NoCall]
    /\ UNCHANGED ram

\* The loop of allocuvm() for sbrk(), on the process's own page directory, and
\* for exec(), on the new one; exec() frees what is left of it.
alloc_page(p) ==
    LET c == proc[p].call
        s == IF c.k = "grow" THEN proc[p].s ELSE c.s
        v == allocuvm(ram, s, c.a \div PGSIZE, c.from, c.to)
    IN  /\ c.k \in {"grow", "load", "stack"} /\ c.a < c.to
        /\ IF c.k = "grow"
           THEN /\ ram' = v.m
                /\ proc' = [proc EXCEPT ![p].s = v.s, ![p].call = IF v.ok THEN [c EXCEPT !.a = @ + PGSIZE] ELSE NoCall]
           ELSE /\ ram' = IF v.ok THEN v.m ELSE freevm(v.m, v.s)
                /\ proc' = [proc EXCEPT ![p].call = IF v.ok THEN [c EXCEPT !.s = v.s, !.a = @ + PGSIZE] ELSE NoCall]

\* growproc(-n): sz - n wraps below zero, which deallocuvm() takes for no change.
\* A result of zero counts as a failure and leaves sz, with the pages gone: the
\* process cannot run another instruction.
shrink(p, n) ==
    LET to == (proc[p].sz - n) % (2 * KERNBASE)
        v == deallocuvm(ram, proc[p].s, proc[p].sz, to)
    IN  /\ Idle(p) /\ to < proc[p].sz
        /\ ram' = v.m
        /\ proc' = [proc EXCEPT ![p] = IF to = 0 THEN [@ EXCEPT !.s = v.s, !.st = "fault"]
                                       ELSE [@ EXCEPT !.s = v.s, !.sz = to]]
------------------------------------------------------------------------------
\* A store of the process to one of its pages.
store(p, i) ==
    /\ Idle(p) /\ i \in proc[p].s.user
    /\ ram' = [ram EXCEPT !.holds[proc[p].s.pte[i]] = p]
    /\ UNCHANGED proc

exit(p) ==
    /\ p # init /\ (Idle(p) \/ proc[p].st = "fault")
    /\ proc' = [proc EXCEPT ![p].st = "zombie"]
    /\ UNCHANGED ram

\* wait() of the parent, or of init.
reap(p) ==
    /\ proc[p].st = "zombie"
    /\ ram' = freevm(kfree(ram, {proc[p].kstack}), proc[p].s)
    /\ proc' = [proc EXCEPT ![p] = Unused]

\* kinit1(), kinit2() and userinit(): init has one page of code, in frame 5.
MemInit ==
    /\ ram = [free |-> {f \in Frames : f > 5}, twice |-> FALSE,
              holds |-> [f \in Frames |-> CASE f < 5 -> ZERO [] f = 5 -> CODE [] OTHER -> JUNK]]
    /\ proc = [p \in Procs |-> IF p # init THEN Unused
                 ELSE [Unused EXCEPT !.st = "run", !.kstack = 1, !.sz = PGSIZE, !.own = {init},
                         !.s = [NoSpace EXCEPT !.dir = 2, !.ktab = 3, !.tab[0] = 4, !.pte[0] = 5, !.user = {0}]]]

MemNext ==
    \E p \in Procs :
      \/ fork(p) \/ fork_kvm(p) \/ fork_page(p) \/ fork_end(p)
      \/ \E n \in Programs : exec(p, n)
      \/ exec_bad(p) \/ loaduvm(p)
      \/ \E n \in {1, 2} : exec_commit(p, n)
      \/ \E n \in Bytes : grow(p, n) \/ shrink(p, n)
      \/ grow_end(p) \/ alloc_page(p)
      \/ \E i \in Pages : store(p, i)
      \/ exit(p) \/ reap(p)

MemSpec == MemInit /\ [][MemNext]_memvars
------------------------------------------------------------------------------
\* What every frame in use is used for.
SpaceUses(x, s) ==
    {<<x, "dir", 0, s.dir>>, <<x, "ktab", 0, s.ktab>>} \cup {<<x, "tab", t, s.tab[t]>> : t \in Tables}
      \cup {<<x, "page", i, s.pte[i]>> : i \in Pages}

Uses == {u \in UNION {{<<p, "kstack", 0, proc[p].kstack>>} \cup SpaceUses(p, proc[p].s)
                        \cup SpaceUses(-p, proc[p].call.s) : p \in Procs} : u[4] # 0}

\* Whatever fork(), exec(), sbrk() and exit() do at the same time, and wherever
\* memory runs out, every frame is free or has one use: no failure path of
\* copyuvm(), allocuvm() or exec() loses a page, shares one or frees one twice.
FramesOnce ==
    /\ ~ram.twice
    /\ {u[4] : u \in Uses} \cup ram.free = Frames
    /\ Cardinality(Uses) + Cardinality(ram.free) = Cardinality(Frames)

\* The pages of a process that can run are those below its size, as sbrk() is
\* extending or has left it, and hold what the program loaded or it or an
\* ancestor since the last exec() stored, never another's leavings or junk; the
\* pages fork() has copied are the parent's, guard page included.
AddressSpaces ==
    \A p \in Procs : proc[p].st = "run" =>
      LET s == proc[p].s
          c == proc[p].call
          Below(n) == {i \in Pages : i * PGSIZE < n}
      IN  /\ {i \in Pages : s.pte[i] # 0} = Below(IF c.k = "grow" /\ c.a > proc[p].sz THEN c.a ELSE proc[p].sz)
          /\ \A i \in Pages : s.pte[i] # 0 => ram.holds[s.pte[i]] \in {ZERO, CODE} \cup proc[p].own
          /\ c.k = "fork" /\ c.s # NoSpace =>
               \A i \in Below(c.a) : /\ ram.holds[c.s.pte[i]] = ram.holds[s.pte[i]]
                                     /\ i \in c.s.user <=> i \in s.user
=============================================================================

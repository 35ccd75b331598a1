------------------------------- MODULE UserMode -------------------------------
(***************************************************************************)
(* Processes that run the scripts of UserTests over the system calls of    *)
(* Files, in every interleaving of their calls.  The test runs as process  *)
(* 1, started by init, which also reaps what the test leaves behind.       *)
(***************************************************************************)
EXTENDS Files, UserTests, FiniteSetsExt

CONSTANT Tests        \* the scripts to run, one of them in each behaviour

VARIABLES
  k,        \* the kernel's tables
  proc,     \* the processes
  failed    \* a test has reported a failure, or the kernel a panic

vars == <<k, proc, failed>>

INIT == 0             \* the pid of init, as a parent
Vars == {"r", "n", "fd", "fd1", "p0", "p1", "p", "pid", "pid1", "pid2", "pid3", "wpid",
         "ppid", "a", "b", "c", "oldbrk", "last", "kernbase", "stdin", "stdout", "stderr"}
Unused == [state |-> "unused", script |-> <<>>, buf |-> <<>>, parent |-> INIT, killed |-> FALSE,
           env |-> [v \in Vars |-> CASE v = "stdout" -> 1 [] v = "stderr" -> 2 [] v = "last" -> Big - 1 [] v = "kernbase" -> 99 [] OTHER -> 0]]

\* The image: the root directory, the programs a test names and the console.
Programs == <<"README", "echo", "cat", "init", "sh", "mkdir">>
Image(console) ==
  LET names == IF console THEN Programs \o <<"console">> ELSE Programs
  IN  [i \in Inums |->
         CASE i = ROOTINO -> [type |-> "dir", nlink |-> 1, ref |-> 1,
                              data |-> <<<<".", ROOTINO>>, <<"..", ROOTINO>>>>
                                       \o [n \in DOMAIN names |-> <<names[n], n + 1>>]]
           [] i \in 2 .. Len(names) + 1 ->
                [FreeInode EXCEPT !.type = IF names[i - 1] = "console" THEN "dev" ELSE "file", !.nlink = 1,
                                  !.ref = IF names[i - 1] = "console" THEN 1 ELSE 0]
           [] OTHER -> FreeInode]

\* init itself starts without a console and without open files.
Init ==
  \E test \in Tests :
    LET booted == test # init
    IN  /\ k = [inode |-> Image(booted), console |-> <<>>,
                file |-> [f \in Entries |-> IF f = 1 /\ booted
                            THEN [ref |-> 3, type |-> "inode", ip |-> Len(Programs) + 2, off |-> 0,
                                  readable |-> TRUE, writable |-> TRUE]
                            ELSE NoFile],
                pipe |-> [q \in Entries |-> NoPipe],
                ofile |-> [p \in Procs |-> [fd \in Fds |-> IF p = 1 /\ booted /\ fd < 3 THEN 1 ELSE 0]],
                cwd |-> [p \in Procs |-> IF p = 1 THEN ROOTINO ELSE 0],
                mem |-> [p \in Procs |-> IF p = 1 THEN Zeros(PGSIZE) ELSE <<>>],
                sz |-> [p \in Procs |-> IF p = 1 THEN PGSIZE ELSE 0],
                free |-> NPAGES - 1 - OVERHEAD]
        /\ proc = [p \in Procs |-> IF p = 1 THEN [Unused EXCEPT !.state = "running", !.script = test \o exit] ELSE Unused]
        /\ failed = FALSE
-----------------------------------------------------------------------------
Current(p, ops) == /\ ~failed /\ proc[p].state = "running"
                   /\ Head(proc[p].script).op \in ops
This(p) == Head(proc[p].script)
Env(p, v) == proc[p].env[v]

\* Process p goes on with script s after a call that answered a; or the test has failed.
Resume(p, c, a, s, env, buf) ==
  /\ k' = a.k
  /\ IF a.r \in c.want
     THEN /\ proc' = [proc EXCEPT ![p].script = s, ![p].env = [env EXCEPT ![c.to] = a.r], ![p].buf = buf]
          /\ UNCHANGED failed
     ELSE failed' = TRUE /\ UNCHANGED proc
Return(p, c, a) == Resume(p, c, a, Tail(proc[p].script), proc[p].env, proc[p].buf)

Syscall(p) ==
  /\ Current(p, {"open", "close", "dup", "mkdir", "mknod", "chdir", "link", "unlink", "fstat", "getpid"})
  /\ LET c == This(p)
     IN  Return(p, c, CASE c.op = "open" -> sys_open(k, p, c.path, c.mode)
                        [] c.op = "close" -> sys_close(k, p, Env(p, c.fd))
                        [] c.op = "dup" -> sys_dup(k, p, Env(p, c.fd))
                        [] c.op = "mkdir" -> sys_mkdir(k, p, c.path)
                        [] c.op = "mknod" -> sys_mknod(k, p, c.path)
                        [] c.op = "chdir" -> sys_chdir(k, p, c.path)
                        [] c.op = "link" -> sys_link(k, p, c.path, c.new)
                        [] c.op = "unlink" -> sys_unlink(k, p, c.path)
                        [] c.op = "fstat" -> sys_fstat(k, p, Env(p, c.fd))
                        [] c.op = "getpid" -> Answer(k, p))

Pipes(p) ==
  /\ Current(p, {"pipe"})
  /\ LET a == sys_pipe(k, p)
     IN  Resume(p, This(p), a, Tail(proc[p].script),
                [proc[p].env EXCEPT !["p0"] = a.fds[1], !["p1"] = a.fds[2]], proc[p].buf)

Blocked(p, c, n, Blocks(_, _, _)) == LET f == argfd(k, p, Env(p, c.fd)) IN f # 0 /\ Blocks(k, f, n)

Read(p) ==
  /\ Current(p, {"read"})
  /\ LET c == This(p)
         a == sys_read(k, p, Env(p, c.fd), c.n)
     IN  /\ ~Blocked(p, c, c.n, ReadBlocks)
         /\ Resume(p, c, a, Tail(proc[p].script), proc[p].env, a.data)

\* while((n = read(fd, buf, cc)) > 0), where cc doubles up to the size of the buffer.
ReadAll(p) ==
  /\ Current(p, {"readall"})
  /\ LET c == This(p)
         a == sys_read(k, p, Env(p, c.fd), c.n)
     IN  /\ ~Blocked(p, c, c.n, ReadBlocks)
         /\ k' = a.k /\ UNCHANGED failed
         /\ IF a.r > 0
            THEN proc' = [proc EXCEPT ![p].script[1] = [c EXCEPT !.acc = @ \o a.data, !.n = Min({2 * @, c.cap})]]
            ELSE proc' = [proc EXCEPT ![p].script = Tail(@), ![p].buf = c.acc]

\* A write goes on until all is written; the result is the whole, or -1.
Write(p) ==
  /\ Current(p, {"write"})
  /\ LET c == This(p)
         a == sys_write(k, p, Env(p, c.fd), c.data)
         rest == SubSeq(c.data, a.r + 1, Len(c.data))
     IN  /\ ~Blocked(p, c, Len(c.data), WriteBlocks)
         /\ IF a.r < 0 \/ rest = <<>>
            THEN Return(p, c, IF a.r < 0 THEN a ELSE Answer(a.k, c.done + a.r))
            ELSE /\ k' = a.k /\ UNCHANGED failed
                 /\ proc' = [proc EXCEPT ![p].script[1] = [c EXCEPT !.data = rest, !.done = @ + a.r]]

\* write(fd, buf, n) of what was read last; an error ends the program.
Copy(p) ==
  /\ Current(p, {"copy"})
  /\ LET w == write(This(p).fd, proc[p].buf)[1]
     IN  proc' = [proc EXCEPT ![p].script = <<[w EXCEPT !.want = ANY]>> \o ifneg("r", exit) \o Tail(@)]
  /\ UNCHANGED <<k, failed>>

Memory(p) ==
  /\ Current(p, {"sbrk", "growto", "shrinkto"})
  /\ LET c == This(p)
         n == CASE c.op = "sbrk" -> c.n
                [] c.op = "growto" -> Max({0, c.n - k.sz[p]})
                [] c.op = "shrinkto" -> Min({0, Env(p, c.v) - k.sz[p]})
     IN  Return(p, [to |-> IF c.op = "shrinkto" THEN "r" ELSE c.to, want |-> IF c.op = "sbrk" THEN c.want ELSE ANY],
                sys_sbrk(k, p, n))

Fork(p) ==
  /\ Current(p, {"fork"})
  /\ LET c == This(p)
         free == {q \in Procs : proc[q].state = "unused"}
         q == Min(free)
     IN  IF free = {} \/ ForkPages(k, p) > k.free THEN Return(p, c, Fail(k))
         ELSE /\ k' = forked(k, p, q) /\ UNCHANGED failed
              /\ proc' = [proc EXCEPT ![p].script = Tail(@), ![p].env[c.to] = q,
                                      ![q] = [proc[p] EXCEPT !.script = c.child, !.parent = p, !.killed = FALSE,
                                                             !.env[c.to] = 0]]

Wait(p) ==
  /\ Current(p, {"wait"})
  /\ LET kids == {q \in Procs : proc[q].state # "unused" /\ proc[q].parent = p}
         c == This(p)
     IN  \/ kids = {} /\ Return(p, c, Fail(k))
         \/ \E q \in kids :
              /\ proc[q].state = "zombie" /\ k' = reaped(k, q)
              /\ proc' = [proc EXCEPT ![q] = Unused, ![p].env[c.to] = q, ![p].script = Tail(@)]
              /\ failed' = (q \notin c.want)

\* exit(): children go to init.
Dies(p) ==
  /\ k' = exited(k, p) /\ UNCHANGED failed
  /\ proc' = [q \in Procs |-> IF q = p THEN [Unused EXCEPT !.state = "zombie", !.parent = proc[p].parent]
                              ELSE IF proc[q].parent = p THEN [proc[q] EXCEPT !.parent = INIT] ELSE proc[q]]
Exit(p) == Current(p, {"exit"}) /\ Dies(p)

\* trap() ends a killed process on its way to or from the kernel, also one that sleeps there.
Killed(p) == ~failed /\ proc[p].state = "running" /\ proc[p].killed /\ Dies(p)

InitReaps(q) ==
  /\ proc[q].state = "zombie" /\ proc[q].parent = INIT
  /\ k' = reaped(k, q) /\ proc' = [proc EXCEPT ![q] = Unused] /\ UNCHANGED failed

Kill(p) ==
  /\ Current(p, {"kill"})
  /\ LET q == Env(p, This(p).pid)
     IN  proc' = [proc EXCEPT ![p].script = Tail(@),
                              ![q].killed = IF proc[q].state = "running" THEN TRUE ELSE @]
  /\ UNCHANGED <<k, failed>>

\* exec() replaces the program unless the file is missing or its arguments do not fit.
ExecProg(p) ==
  /\ Current(p, {"exec"})
  /\ LET c == This(p)
         ip == namei(k, p, c.path)
     IN  IF ip = PANIC THEN Return(p, c, Answer(k, PANIC))
         ELSE IF ip = 0 \/ c.bytes > PGSIZE THEN Return(p, c, Fail(k))
         ELSE /\ proc' = [proc EXCEPT ![p].script = c.prog] /\ UNCHANGED <<k, failed>>

\* Loads and stores; one outside the process's pages is a page fault, which kills it.
Access(p) ==
  /\ Current(p, {"poke", "peek"})
  /\ LET c == This(p)
         a == Env(p, c.addr) + 1
     IN  IF a > Len(k.mem[p]) THEN Dies(p)
         ELSE /\ k' = IF c.op = "poke" THEN [k EXCEPT !.mem[p][a] = c.x] ELSE k
              /\ proc' = [proc EXCEPT ![p].script = Tail(@), ![p].buf = IF c.op = "peek" THEN <<k.mem[p][a]>> ELSE @]
              /\ UNCHANGED failed

Control(p) ==
  /\ Current(p, {"add", "while", "ifneg", "ifpos", "either"})
  /\ LET c == This(p)
         rest == Tail(proc[p].script)
         go(s) == proc' = [proc EXCEPT ![p].script = s]
     IN  \/ c.op = "add" /\ proc' = [proc EXCEPT ![p].script = rest, ![p].env[c.v] = @ + c.n]
         \/ c.op = "while" /\ go(IF Env(p, c.v) > 0 THEN c.body \o proc[p].script ELSE rest)
         \/ c.op = "ifneg" /\ go(IF Env(p, c.v) < 0 THEN c.body \o rest ELSE rest)
         \/ c.op = "ifpos" /\ go(IF Env(p, c.v) > 0 THEN c.body \o rest ELSE rest)
         \/ c.op = "either" /\ \E b \in c.bodies : go(b \o rest)
  /\ UNCHANGED <<k, failed>>

\* The program looks at what it got.
Check(p) ==
  /\ Current(p, {"expect", "same", "listed", "printed"})
  /\ LET c == This(p)
     IN  failed' = ~ CASE c.op = "expect" -> proc[p].buf \in c.in
                       [] c.op = "same" -> Env(p, c.v) = Env(p, c.w) + c.d
                       [] c.op = "listed" -> \A n \in c.names : Len(SelectSeq(proc[p].buf, LAMBDA de : de[1] = n)) = 1
                       [] c.op = "printed" -> k.console \in c.in
  /\ proc' = [proc EXCEPT ![p].script = Tail(@)] /\ UNCHANGED k

Step(p) ==
  \/ Syscall(p) \/ Pipes(p) \/ Read(p) \/ ReadAll(p) \/ Write(p) \/ Copy(p) \/ Memory(p)
  \/ Fork(p) \/ Wait(p) \/ Exit(p) \/ Kill(p) \/ ExecProg(p) \/ Access(p) \/ Control(p) \/ Check(p)
  \/ Killed(p) \/ InitReaps(p)

AllGone == \A p \in Procs : proc[p].state = "unused"
Over == (AllGone \/ failed) /\ UNCHANGED vars

Next == Over \/ \E p \in Procs : Step(p)

Spec == Init /\ [][Next]_vars
-----------------------------------------------------------------------------
\* No test of usertests.c, and no program, meets a result it calls a failure, and no
\* call reaches panic(), in any interleaving of the test's processes.
TestsPass == ~failed

\* The entries that are links to inode i, in directories that have a name themselves.
NamesOf(i) ==
  UNION {{<<d, e>> : e \in {e \in DOMAIN k.inode[d].data : k.inode[d].data[e][2] = i /\ k.inode[d].data[e][1] # "."}} :
         d \in {d \in Inums : k.inode[d].type = "dir" /\ k.inode[d].nlink > 0}}

\* file.c and fs.c: a file is referenced by exactly the descriptors that name it, an
\* inode by the open files and current directories, and its links are its names: the
\* entry in its parent and the ".." of its subdirectories, as long as these have a name.
CountsMatch ==
  /\ \A f \in Entries : k.file[f].ref = Cardinality({d \in Procs \X Fds : k.ofile[d[1]][d[2]] = f})
  /\ \A i \in Inums :
       /\ k.inode[i].ref = Cardinality({f \in Entries : k.file[f].type = "inode" /\ k.file[f].ip = i})
                           + Cardinality({p \in Procs : k.cwd[p] = i})
       /\ k.inode[i].nlink = Cardinality(NamesOf(i))

\* When all processes of a test have been waited for, everything they took is given
\* back: no file, pipe or page is in use, and an inode is only kept by a name.
NothingLeft ==
  AllGone => /\ \A f \in Entries : k.file[f] = NoFile /\ k.pipe[f] = NoPipe
             /\ k.free = NPAGES
             /\ \A i \in Inums : k.inode[i].type # "none" => k.inode[i].nlink > 0

\* Process p can go on only when another one acts: it reads an empty pipe that has a
\* writer, writes a full one that has a reader, waits for a child, or spins.
Waits(p) ==
  /\ ~proc[p].killed
  /\ LET c == This(p)
     IN  CASE c.op \in {"read", "readall"} -> Blocked(p, c, c.n, ReadBlocks)
           [] c.op = "write" -> Blocked(p, c, Len(c.data), WriteBlocks)
           [] c.op = "wait" -> /\ \E q \in Procs : proc[q].state # "unused" /\ proc[q].parent = p
                               /\ \A q \in Procs : proc[q].parent = p => proc[q].state # "zombie"
           [] OTHER -> c.op = "spin"

\* No test and no command of the shell leaves all its processes waiting for each
\* other: each end of a pipe that nobody will use any more has been closed.
NoneStuck ==
  LET running == {p \in Procs : proc[p].state = "running"}
  IN  running = {} \/ failed \/ \E p \in running : ~Waits(p)
==============================================================================

-------------------------------- MODULE Files --------------------------------
(***************************************************************************)
(* The system calls of xv6 as a user program sees them: os/5/sysfile.c,    *)
(* file.c, the name, directory and data operations of fs.c, pipes, and     *)
(* what fork(), exit(), wait() and sbrk() of proc.c do to open files,      *)
(* current directories and memory.                                         *)
(*                                                                         *)
(* A call maps the kernel's tables k to the tables after it and a result;  *)
(* UserMode runs programs over these operators.  A call is atomic here     *)
(* (Inode has the locks inside), but for write(), which stops after each   *)
(* transaction of MAXWRITE units and whenever a pipe is full.              *)
(*                                                                         *)
(* Data are units (a block, a pipe's byte, a directory entry).  A          *)
(* directory's data are its entries <<name, inum>>, inum 0 when free.      *)
(***************************************************************************)
EXTENDS Integers, Sequences, FiniteSets, TLC, SequencesExt

CONSTANTS
  NPROC,      \* process slots, which are also the pids
  NINODES,    \* inodes of the image
  NFILE,      \* entries of ftable
  NOFILE,     \* descriptors of a process
  MAXFILE,    \* units a file may hold
  MAXWRITE,   \* units filewrite() writes in one transaction
  PIPESIZE,   \* units a pipe holds
  PGSIZE,     \* addresses of a page
  NPAGES,     \* pages kalloc() can give
  OVERHEAD    \* pages of a process for its kernel stack and page tables

ASSUME FilesAssumption ==
  /\ \A n \in {NPROC, NINODES, NFILE, NOFILE, MAXWRITE, PIPESIZE, PGSIZE} : n \in Nat \ {0}
  /\ MAXFILE \in Nat /\ NPAGES \in Nat /\ OVERHEAD \in Nat

Procs == 1 .. NPROC
Inums == 1 .. NINODES
Fds == 0 .. NOFILE - 1
FdSeq == [i \in 1 .. NOFILE |-> i - 1]
Entries == 1 .. NFILE
ROOTINO == 1
PANIC == -2      \* the result of a call that reaches panic()

Answer(k, r) == [k |-> k, r |-> r]
Fail(k) == Answer(k, -1)
-----------------------------------------------------------------------------
(* Inodes *)

FreeInode == [type |-> "none", nlink |-> 0, ref |-> 0, data |-> <<>>]

idup(k, i) == [k EXCEPT !.inode[i].ref = @ + 1]

\* Mutant: the last reference to an unlinked inode does not free it.
iputKeeps(k, i) == [k EXCEPT !.inode[i].ref = @ - 1]

\* The last reference to an inode without links truncates and frees it.
iput(k, i) ==
  [k EXCEPT !.inode[i] = IF @.ref = 1 /\ @.nlink = 0 THEN FreeInode ELSE [@ EXCEPT !.ref = @ - 1]]

\* At offset off of inode ip: n units read; d written over or after the data, -1 past the limit.
readi(ip, off, n) == SubSeq(ip.data, off + 1, Min({off + n, Len(ip.data)}))
writei(ip, off, d) ==
  IF off > Len(ip.data) \/ off + Len(d) > MAXFILE THEN -1 ELSE Len(d)
patched(s, off, d) == [i \in 1 .. Max({Len(s), off + Len(d)}) |->
                         IF i \in off + 1 .. off + Len(d) THEN d[i - off] ELSE s[i]]

\* What skipelem() keeps of a path element and namecmp() compares: DIRSIZ characters.
DIRSIZ == 14
namecmp(s) == SubSeq(s, 1, Min({Len(s), DIRSIZ}))

\* The entry of that name, or 0.
entry(ip, name) == SelectInSeq(ip.data, LAMBDA de : de[2] # 0 /\ de[1] = name)
dirlookup(k, dp, name) == LET e == entry(k.inode[dp], name)
                          IN  IF e = 0 THEN 0 ELSE k.inode[dp].data[e][2]

\* The entry goes to the first free place, or to the end.
dirlink(k, dp, name, inum) ==
  LET free == SelectInSeq(k.inode[dp].data, LAMBDA de : de[2] = 0)
  IN  [k EXCEPT !.inode[dp].data = IF free = 0 THEN Append(@, <<name, inum>>)
                                   ELSE [@ EXCEPT ![free] = <<name, inum>>]]

\* ilock() panics on an inode that has been freed; a removed directory keeps its "..".
ilock(k, ip) == IF ip > 0 /\ k.inode[ip].type = "none" THEN PANIC ELSE ip

\* The inode a path (a sequence of elements, "/" first when absolute) leads to, or 0.
\* Every directory on the way is locked.
namex(k, p, path) ==
  LET absolute == path # <<>> /\ path[1] = "/"
      down(ip, name) == IF ilock(k, ip) \in {0, PANIC} THEN ilock(k, ip)
                        ELSE IF k.inode[ip].type # "dir" THEN 0
                        ELSE dirlookup(k, ip, namecmp(name))
  IN  FoldLeft(down, IF absolute THEN ROOTINO ELSE k.cwd[p], IF absolute THEN Tail(path) ELSE path)

\* namei(), and the ilock() with which each of its callers goes on.
namei(k, p, path) == ilock(k, namex(k, p, path))

\* The directory that holds, or would hold, the last element of the path, or 0.
nameiparent(k, p, path) ==
  IF path \in {<<>>, <<"/">>} THEN 0
  ELSE LET dp == namei(k, p, Front(path))
       IN  IF dp > 0 /\ k.inode[dp].type # "dir" THEN 0 ELSE dp
last(path) == namecmp(Last(path))
-----------------------------------------------------------------------------
(* The file table and descriptors; 0 is no file and -1 no descriptor *)

NoFile == [ref |-> 0, type |-> "none", ip |-> 0, off |-> 0, readable |-> FALSE, writable |-> FALSE]
NoPipe == [data |-> <<>>, readopen |-> FALSE, writeopen |-> FALSE]

free_files(k) == {f \in Entries : k.file[f].ref = 0}
free_fds(k, p) == {fd \in Fds : k.ofile[p][fd] = 0}
free_pipes(k) == {q \in DOMAIN k.pipe : k.pipe[q] = NoPipe}
argfd(k, p, fd) == IF fd \in Fds THEN k.ofile[p][fd] ELSE 0

filedup(k, f) == [k EXCEPT !.file[f].ref = @ + 1]
fdalloc(k, p, f) == [k EXCEPT !.ofile[p][Min(free_fds(k, p))] = f]

pipeclose(k, q, writable) ==
  LET e == IF writable THEN [k.pipe[q] EXCEPT !.writeopen = FALSE]
           ELSE [k.pipe[q] EXCEPT !.readopen = FALSE]
  IN  IF e.readopen \/ e.writeopen THEN [k EXCEPT !.pipe[q] = e]
      ELSE [k EXCEPT !.pipe[q] = NoPipe, !.free = @ + 1]

fileclose(k, f) ==
  LET ff == k.file[f]
      gone == [k EXCEPT !.file[f] = NoFile]
  IN  IF ff.ref > 1 THEN [k EXCEPT !.file[f].ref = @ - 1]
      ELSE CASE ff.type = "pipe" -> pipeclose(gone, ff.ip, ff.writable)
             [] ff.type = "inode" -> iput(gone, ff.ip)
             [] OTHER -> gone

sys_close(k, p, fd) ==
  LET f == argfd(k, p, fd)
  IN  IF f = 0 THEN Fail(k) ELSE Answer(fileclose([k EXCEPT !.ofile[p][fd] = 0], f), 0)

sys_dup(k, p, fd) ==
  LET f == argfd(k, p, fd)
  IN  IF f = 0 \/ free_fds(k, p) = {} THEN Fail(k)
      ELSE Answer(filedup(fdalloc(k, p, f), f), Min(free_fds(k, p)))

\* A pipe without data blocks its reader while it has a writer; consoleread() blocks for
\* a line, and nobody types one.
ReadBlocks(k, f, n) ==
  LET ff == k.file[f]
  IN  /\ ff.readable
      /\ \/ ff.type = "pipe" /\ n >= 0 /\ k.pipe[ff.ip].data = <<>> /\ k.pipe[ff.ip].writeopen
         \/ ff.type = "inode" /\ n > 0 /\ k.inode[ff.ip].type = "dev"

\* What a reader gets that need not wait.
fileread(k, f, n) ==
  LET ff == k.file[f]
      src == IF ff.type = "pipe" THEN k.pipe[ff.ip].data ELSE readi(k.inode[ff.ip], ff.off, n)
      got == SubSeq(src, 1, Min({n, Len(src)}))
  IN  [k |-> IF ff.type = "pipe" THEN [k EXCEPT !.pipe[ff.ip].data = SubSeq(@, Len(got) + 1, Len(@))]
             ELSE [k EXCEPT !.file[f].off = @ + Len(got)],
       r |-> Len(got), data |-> got]

sys_read(k, p, fd, n) ==
  LET f == argfd(k, p, fd)
  IN  IF f = 0 \/ n < 0 THEN Fail(k) @@ [data |-> <<>>]
      ELSE IF ~k.file[f].readable THEN Fail(k) @@ [data |-> <<>>]
      ELSE fileread(k, f, n)

\* pipewrite() asks whether the pipe has a reader only when it is full.
full(k, q) == Len(k.pipe[q].data) = PIPESIZE
WriteBlocks(k, f, n) ==
  LET ff == k.file[f]
  IN  ff.writable /\ ff.type = "pipe" /\ n > 0 /\ full(k, ff.ip) /\ k.pipe[ff.ip].readopen

\* One transaction, or what fits in the pipe.  A device takes all at once: k.console keeps it.
filewrite(k, f, d) ==
  LET ff == k.file[f]
      room == IF ff.type = "pipe" THEN PIPESIZE - Len(k.pipe[ff.ip].data) ELSE MAXWRITE
      now == SubSeq(d, 1, Min({Len(d), room}))
  IN  CASE ff.type = "pipe" ->
             IF d # <<>> /\ full(k, ff.ip) THEN Fail(k)
             ELSE Answer([k EXCEPT !.pipe[ff.ip].data = @ \o now], Len(now))
        [] ff.type # "pipe" /\ k.inode[ff.ip].type = "dev" -> Answer([k EXCEPT !.console = @ \o d], Len(d))
        [] OTHER ->
             IF writei(k.inode[ff.ip], ff.off, now) < 0 THEN Fail(k)
             ELSE Answer([k EXCEPT !.inode[ff.ip].data = patched(@, ff.off, now),
                                   !.file[f].off = @ + Len(now)], Len(now))

sys_write(k, p, fd, d) ==
  LET f == argfd(k, p, fd)
  IN  IF f = 0 THEN Fail(k) ELSE IF ~k.file[f].writable THEN Fail(k) ELSE filewrite(k, f, d)

\* filestat(): only an inode has a status.
sys_fstat(k, p, fd) ==
  LET f == argfd(k, p, fd)
  IN  IF f = 0 THEN Fail(k) ELSE IF k.file[f].type = "inode" THEN Answer(k, 0) ELSE Fail(k)

\* pipealloc() takes two files and a page; sys_pipe() then two descriptors, or gives all back.
sys_pipe(k, p) ==
  IF \/ Cardinality(free_files(k)) < 2 \/ k.free < 1
     \/ Cardinality(free_fds(k, p)) < 2
  THEN Fail(k) @@ [fds |-> <<-1, -1>>]
  ELSE LET q == Min(free_pipes(k))
           rf == Min(free_files(k))
           wf == Min(free_files(k) \ {rf})
           end == [ref |-> 1, type |-> "pipe", ip |-> q, off |-> 0, readable |-> TRUE, writable |-> FALSE]
           k1 == [k EXCEPT !.free = @ - 1,
                           !.pipe[q] = [data |-> <<>>, readopen |-> TRUE, writeopen |-> TRUE],
                           !.file[rf] = end,
                           !.file[wf] = [end EXCEPT !.readable = FALSE, !.writable = TRUE]]
           k2 == fdalloc(k1, p, rf)
       IN  [k |-> fdalloc(k2, p, wf), r |-> 0, fds |-> <<Min(free_fds(k1, p)), Min(free_fds(k2, p))>>]
-----------------------------------------------------------------------------
(* Names *)

\* The inode of the path, created when there is none; referenced in the answer's tables.
create(k, p, path, type) ==
  LET dp == nameiparent(k, p, path)
      old == dirlookup(k, dp, last(path))
      ip == Min({i \in Inums : k.inode[i].type = "none"})
      k1 == [k EXCEPT !.inode[ip] = [FreeInode EXCEPT !.type = type, !.nlink = 1, !.ref = 1]]
      k2 == IF type = "dir" THEN dirlink(dirlink([k1 EXCEPT !.inode[dp].nlink = @ + 1], ip, ".", ip), ip, "..", dp)
            ELSE k1
  IN  IF dp \in {0, PANIC} THEN Answer(k, dp)
      ELSE IF ilock(k, old) = PANIC THEN Answer(k, PANIC)
      ELSE IF old # 0 THEN IF type = "file" /\ k.inode[old].type = "file"
                           THEN Answer(idup(k, old), old) ELSE Answer(k, 0)
      ELSE IF \A i \in Inums : k.inode[i].type # "none" THEN Answer(k, PANIC)
      ELSE Answer(dirlink(k2, dp, last(path), ip), ip)

\* mode is a set of the flags "create", "wronly" and "rdwr".
sys_open(k, p, path, mode) ==
  LET found == IF "create" \in mode THEN create(k, p, path, "file")
               ELSE LET ip == namei(k, p, path)
                    IN  IF ip \in {0, PANIC} THEN Answer(k, ip)
                        ELSE IF k.inode[ip].type = "dir" /\ mode # {} THEN Answer(k, 0)
                        ELSE Answer(idup(k, ip), ip)
      f == Min(free_files(k))
      k1 == [found.k EXCEPT !.file[f] = [ref |-> 1, type |-> "inode", ip |-> found.r, off |-> 0,
                                         readable |-> "wronly" \notin mode,
                                         writable |-> mode \intersect {"wronly", "rdwr"} # {}]]
  IN  IF found.r = PANIC THEN found
      ELSE IF found.r = 0 THEN Fail(found.k)
      ELSE IF free_files(k) = {} \/ free_fds(k, p) = {} THEN Fail(iput(found.k, found.r))
      ELSE Answer(fdalloc(k1, p, f), Min(free_fds(k, p)))

\* sys_mkdir() and sys_mknod()
made(k, p, path, type) ==
  LET c == create(k, p, path, type)
  IN  IF c.r = PANIC THEN c ELSE IF c.r = 0 THEN Fail(c.k) ELSE Answer(iput(c.k, c.r), 0)
sys_mkdir(k, p, path) == made(k, p, path, "dir")
sys_mknod(k, p, path) == made(k, p, path, "dev")

\* The new directory is referenced before the old one is put.
chdirTo(k, p, ip) == [iput(idup(k, ip), k.cwd[p]) EXCEPT !.cwd[p] = ip]
sys_chdir(k, p, path) ==
  LET ip == namei(k, p, path)
  IN  IF ip = PANIC THEN Answer(k, PANIC)
      ELSE IF ip = 0 THEN Fail(k)
      ELSE IF k.inode[ip].type # "dir" THEN Fail(k) ELSE Answer(chdirTo(k, p, ip), 0)

\* Mutant: the label bad of sys_link() only gives the reference back.
linkKeeps(k, ip) == iput(k, ip)

\* The label bad of sys_link(): the link that was counted is taken back.
linkBad(k, ip) == iput([k EXCEPT !.inode[ip].nlink = @ - 1], ip)

\* nlink is counted and written before the new name is looked for and entered.  There is
\* one device, so only dirlink() can refuse the directory, when it has the name already.
sys_link(k, p, old, new) ==
  LET ip == namei(k, p, old)
      k1 == [idup(k, ip) EXCEPT !.inode[ip].nlink = @ + 1]
      dp == nameiparent(k1, p, new)
  IN  IF ip = PANIC THEN Answer(k, PANIC)
      ELSE IF ip = 0 THEN Fail(k)
      ELSE IF k.inode[ip].type = "dir" THEN Fail(k)
      ELSE IF dp = PANIC THEN Answer(k1, PANIC)
      ELSE IF dp = 0 THEN Fail(linkBad(k1, ip))
      ELSE IF dirlookup(k1, dp, last(new)) # 0 THEN Fail(linkBad(k1, ip))
      ELSE Answer(iput(dirlink(k1, dp, last(new), ip), ip), 0)

isdirempty(ip) == \A e \in 3 .. Len(ip.data) : ip.data[e][2] = 0

sys_unlink(k, p, path) ==
  LET dp == nameiparent(k, p, path)
      name == last(path)
      ip == dirlookup(k, dp, name)
      k1 == [k EXCEPT !.inode[dp].data[entry(k.inode[dp], name)] = <<"", 0>>,
                      !.inode[dp].nlink = IF k.inode[ip].type = "dir" THEN @ - 1 ELSE @]
  IN  IF dp = PANIC THEN Answer(k, PANIC)
      ELSE IF dp = 0 THEN Fail(k)
      ELSE IF name \in {".", ".."} \/ ip = 0 THEN Fail(k)
      ELSE IF k.inode[ip].nlink < 1 THEN Answer(k, PANIC)
      ELSE IF k.inode[ip].type = "dir" /\ ~isdirempty(k.inode[ip]) THEN Fail(k)
      ELSE Answer(iput([k1 EXCEPT !.inode[ip].nlink = @ - 1, !.inode[ip].ref = @ + 1], ip), 0)
-----------------------------------------------------------------------------
(* Memory: mem[p] is the contents of the pages of p, sz[p] its size *)

Pages(sz) == (sz + PGSIZE - 1) \div PGSIZE
Zeros(n) == [a \in 1 .. n |-> 0]

\* Mutant: the pages allocuvm() took before it ran out are lost.
outOfPagesLeaks(k) == Fail([k EXCEPT !.free = 0])

\* allocuvm() runs out of pages half-way and gives back those it took.
outOfPages(k) == Fail(k)

\* sbrk(): growth takes zeroed pages, shrinking frees the pages past the new end.
sys_sbrk(k, p, n) ==
  LET sz == k.sz[p] + n
      more == Pages(sz) - Pages(k.sz[p])
  IN  IF more > k.free THEN outOfPages(k)
      ELSE Answer([k EXCEPT !.sz[p] = sz, !.free = @ - more,
                            !.mem[p] = IF more >= 0 THEN @ \o Zeros(more * PGSIZE)
                                       ELSE SubSeq(@, 1, Pages(sz) * PGSIZE)], k.sz[p])

\* What fork() gives child c of p; there must be a slot and the pages for it.
ForkPages(k, p) == Pages(k.sz[p]) + OVERHEAD
forked(k, p, c) ==
  [FoldLeft(LAMBDA x, fd : IF k.ofile[p][fd] = 0 THEN x ELSE filedup(x, k.ofile[p][fd]),
            idup(k, k.cwd[p]), FdSeq)
     EXCEPT !.ofile[c] = k.ofile[p], !.cwd[c] = k.cwd[p], !.mem[c] = k.mem[p], !.sz[c] = k.sz[p],
            !.free = @ - ForkPages(k, p)]

\* exit() closes every file and puts the directory; the memory stays until wait().
exited(k, p) ==
  [iput(FoldLeft(LAMBDA x, fd : IF k.ofile[p][fd] = 0 THEN x ELSE fileclose(x, k.ofile[p][fd]), k, FdSeq),
        k.cwd[p]) EXCEPT !.ofile[p] = [fd \in Fds |-> 0], !.cwd[p] = 0]
reaped(k, c) == [k EXCEPT !.free = @ + ForkPages(k, c), !.sz[c] = 0, !.mem[c] = <<>>]
==============================================================================

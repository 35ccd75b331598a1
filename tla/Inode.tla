-------------------------------- MODULE Inode --------------------------------
(***************************************************************************)
(* The inode layer of xv6, os/5/fs.c, under the calls of os/5/sysfile.c    *)
(* that create, link, unlink, open, write and close files, with processes  *)
(* that interleave at every lock and a machine that may crash.             *)
(*                                                                         *)
(* An action runs from one acquisition of an inode's sleep-lock, or of     *)
(* icache.lock, to the next: what happens inside is visible to nobody      *)
(* else, but for the on-disk inode that ialloc() scans without a lock.     *)
(* icache.lock itself is never held across steps.  A file or directory     *)
(* has at most one block; a directory's block maps names to inode numbers  *)
(* (0: no entry).  The log is TransDisk: what the calls in progress wrote  *)
(* becomes durable together, when the last of them ends.                   *)
(***************************************************************************)
EXTENDS Integers, Sequences, FiniteSets, FiniteSetsExt

CONSTANTS
  Procs,         \* processes
  Nobody,        \* a sleep-lock is free
  NINODES,       \* inodes on the disk: 1 .. NINODES
  NINODE,        \* entries of the inode cache: 1 .. NINODE
  NBLOCKS,       \* data blocks: 1 .. NBLOCKS
  Names, File,   \* names of entries, "." and ".." apart; a file of the image
  Calls,         \* Calls[p]: the system calls process p may make
  MaxCalls,      \* bound on the number of calls
  MaxCrashes     \* bound on the number of crashes

ROOTINO == 1
Inums == 1 .. NINODES
Slots == 1 .. NINODE
Blocks == 1 .. NBLOCKS
Dots == {".", ".."}
AllNames == Names \union Dots

\* A path is a sequence of names, after "/" or not.
Paths == {s \in Seq(AllNames \union {"/"}) : \A i \in 2 .. Len(s) : s[i] # "/"}

ASSUME InodeAssumption ==
  /\ IsFiniteSet(Procs) /\ Nobody \notin Procs
  /\ NINODES \in Nat /\ NINODES > 1 /\ NINODE \in Nat \ {0} /\ NBLOCKS \in Nat \ {0}
  /\ IsFiniteSet(Names) /\ Names \intersect {".", "..", "/"} = {} /\ File \in Names
  /\ \A p \in Procs : \A c \in Calls[p] : c.path \in Paths /\ c.new \in Paths
  /\ MaxCalls \in Nat /\ MaxCrashes \in Nat

VARIABLES
  disk,      \* inodes, bitmap and blocks as the calls see them
  durable,   \* the same, as recovery would find them
  icache,    \* icache.inode[], each with the owner of its sleep-lock
  proc,      \* what each process has open, where it is in its call, its local variables
  ncalls, crashes,   \* numbers of calls and crashes so far
  panicked   \* why panic() was called, or "no"

vars == <<disk, durable, icache, proc, ncalls, crashes, panicked>>

Free == [type |-> "none", nlink |-> 0, addr |-> 0]
Zeroed == [n \in AllNames |-> 0]

\* A process in user space: fd and cwd are the entries of its open file (0: none)
\* and current directory.  In a call dp, ip and old are the entries it refers to,
\* x the one iput() works on, ret where iput() returns to, ino what ialloc() found.
Idle(f, d) == [pc |-> "user", fd |-> f, cwd |-> d, call |-> "none", path |-> <<>>, new |-> <<>>,
               dp |-> 0, ip |-> 0, old |-> 0, x |-> 0, ret |-> "end", ino |-> 0]

\* The image of mkfs: a root directory with one file.
Image ==
  [ino |-> [i \in Inums |-> CASE i = ROOTINO -> [type |-> "dir", nlink |-> 1, addr |-> 1]
                              [] i = 2 -> [type |-> "file", nlink |-> 1, addr |-> 0]
                              [] OTHER -> Free],
   used |-> {1},
   data |-> [b \in Blocks |-> IF b = 1 THEN [Zeroed EXCEPT !["."] = ROOTINO, ![".."] = ROOTINO, ![File] = 2]
                              ELSE Zeroed]]

\* After boot all processes are in the root directory (userinit(), fork()).
FreshCache == [s \in Slots |-> [inum |-> ROOTINO, ref |-> IF s = 1 THEN Cardinality(Procs) ELSE 0,
                                valid |-> FALSE, di |-> Free, lock |-> Nobody]]
FreshProcs == [p \in Procs |-> Idle(0, 1)]

Init ==
  /\ disk = Image /\ durable = Image
  /\ icache = FreshCache /\ proc = FreshProcs
  /\ ncalls = 0 /\ crashes = 0 /\ panicked = "no"
-----------------------------------------------------------------------------
(* The inode cache *)

hit(n) == {s \in Slots : icache[s].ref > 0 /\ icache[s].inum = n}
empty == {s \in Slots : icache[s].ref = 0}

\* The entry iget() returns for inode n.
slot_of(n) == IF hit(n) # {} THEN CHOOSE s \in hit(n) : TRUE ELSE Min(empty)

\* Mutant: the recycled entry keeps its valid flag.
recycledStale(s, n) == [icache[s] EXCEPT !.inum = n, !.ref = 1]

recycled(s, n) == [icache[s] EXCEPT !.inum = n, !.ref = 1, !.valid = FALSE]

\* The cache after idup() of entry s, and after iget() of inode n.
idup(s) == [icache EXCEPT ![s].ref = @ + 1]
iget(n) == LET s == slot_of(n)
           IN  IF hit(n) # {} THEN idup(s) ELSE [icache EXCEPT ![s] = recycled(s, n)]

\* iget() of inode n finds neither it nor a free entry, and panics.
NoEntry(n) == hit(n) = {} /\ empty = {}

Unlocked(s) == icache[s].lock = Nobody

\* What ilock() finds, or reads from the disk; a freed inode is its panic "no type".
inode(s) == IF icache[s].valid THEN icache[s].di ELSE disk.ino[icache[s].inum]
NoType(s) == inode(s).type = "none"

\* Cache ic once s was read by ilock(), changed to i in memory and unlocked; or kept by p.
written(ic, s, i) == [ic EXCEPT ![s].valid = TRUE, ![s].di = i, ![s].lock = Nobody]
read(ic, s) == written(ic, s, inode(s))
held(ic, s, p) == [ic EXCEPT ![s].lock = p]
-----------------------------------------------------------------------------
(* Blocks and directory entries of a disk image d; i is inode n in memory *)

\* The first free block, marked and zeroed.
balloc(d) == [d EXCEPT !.used = @ \union {Min(Blocks \ d.used)},
                       !.data[Min(Blocks \ d.used)] = Zeroed]
OutOfBlocks == disk.used = Blocks

iupdate(d, n, i) == [d EXCEPT !.ino[n] = i]

\* bmap(): a first block is allocated; the change in memory and on the disk.
bmapped(d, i) == IF i.addr # 0 THEN i ELSE [i EXCEPT !.addr = Min(Blocks \ d.used)]
bmap(d, n, i) == IF i.addr # 0 THEN d ELSE iupdate(balloc(d), n, bmapped(d, i))

itrunc(d, i) == [d EXCEPT !.used = @ \ {i.addr}]

entries(d, i) == IF i.addr = 0 THEN Zeroed ELSE d.data[i.addr]
dirlookup(s, name) == entries(disk, inode(s))[name]

\* dirlink() of a name that is not there, and unlink's writei() of a zero entry.
dirlink(d, n, i, name, inum) == [bmap(d, n, i) EXCEPT !.data[bmapped(d, i).addr][name] = inum]

isdirempty(i) == \A n \in Names : entries(disk, i)[n] = 0
-----------------------------------------------------------------------------
(* Steps of a call *)

Calm == panicked = "no" /\ UNCHANGED <<durable, ncalls, crashes, panicked>>

\* panic(), for want of a block, inode or entry ("full") or over a broken file system.
Stop(why) == panicked = "no" /\ panicked' = why /\ UNCHANGED <<disk, durable, icache, proc, ncalls, crashes>>
Panic == Stop("broken")

\* The call of p goes on at label with the local variables of r; or after iput(s).
Goto(p, r, label) == proc' = [proc EXCEPT ![p] = [r EXCEPT !.pc = label]] /\ Calm
IputThen(p, r, s, label) == Goto(p, [r EXCEPT !.x = s, !.ret = label], "iput")

\* namex() starts at the root or at the current directory.
absolute(path) == path # <<>> /\ path[1] = "/"
start(p, path) == IF absolute(path) THEN slot_of(ROOTINO) ELSE proc[p].cwd
started(p, path) == IF absolute(path) THEN iget(ROOTINO) ELSE idup(proc[p].cwd)
elements(path) == IF absolute(path) THEN Tail(path) ELSE path
no_start(path) == absolute(path) /\ NoEntry(ROOTINO)

\* begin_op() and the start of the call; "create" is open() with O_CREATE.
Begin(p, c) ==
  LET r == [proc[p] EXCEPT !.call = c.op]
      enter(r2, label) == proc' = [proc EXCEPT ![p] = [r2 EXCEPT !.pc = label]]
      named == /\ c.op \in {"open", "create", "mkdir", "link", "unlink", "chdir"}
               /\ c.op \in {"open", "create"} => r.fd = 0
  IN
  /\ panicked = "no" /\ r.pc = "user" /\ ncalls < MaxCalls
  /\ ncalls' = ncalls + 1
  /\ \/ /\ named /\ no_start(c.path)
        /\ panicked' = "full" /\ UNCHANGED <<icache, proc>>
     \/ /\ named /\ ~no_start(c.path)
        /\ icache' = started(p, c.path)
        /\ enter([r EXCEPT !.path = elements(c.path), !.new = c.new, !.ip = start(p, c.path)], "namex")
        /\ UNCHANGED panicked
     \/ c.op = "write" /\ r.fd # 0 /\ enter(r, "write") /\ UNCHANGED <<icache, panicked>>
     \/ /\ c.op = "close" /\ r.fd # 0
        /\ enter([r EXCEPT !.x = r.fd, !.fd = 0], "iput") /\ UNCHANGED <<icache, panicked>>
  /\ UNCHANGED <<disk, durable, crashes>>

\* end_op(): with no other call in progress, the group commits.
end_op(p) ==
  /\ panicked = "no" /\ proc[p].pc = "end"
  /\ proc' = [proc EXCEPT ![p] = Idle(@.fd, @.cwd)]
  /\ durable' = IF \A q \in Procs \ {p} : proc[q].pc = "user" THEN disk ELSE durable
  /\ UNCHANGED <<disk, icache, ncalls, crashes, panicked>>
-----------------------------------------------------------------------------
(* iput() *)

\* Mutant: links are not looked at.
deadNoLinks(s) == icache[s].valid /\ icache[s].ref = 1

\* The last reference to an inode without links.
dead(s) == icache[s].valid /\ icache[s].di.nlink = 0 /\ icache[s].ref = 1

\* acquiresleep(), the test, and releasesleep() if the inode lives on.
iput(p) ==
  LET r == proc[p] IN
  /\ r.pc = "iput" /\ Unlocked(r.x)
  /\ \/ dead(r.x) /\ icache' = held(icache, r.x, p) /\ Goto(p, r, "iput_free")
     \/ ~dead(r.x) /\ Goto(p, r, "iput_ref") /\ UNCHANGED icache
  /\ UNCHANGED disk

\* itrunc(), type = 0, iupdate(): from here on ialloc() may take the inode.
iput_free(p) ==
  LET r == proc[p]
      e == icache[r.x]
  IN
  /\ r.pc = "iput_free"
  /\ disk' = iupdate(itrunc(disk, e.di), e.inum, Free)
  /\ icache' = [icache EXCEPT ![r.x].di = Free]
  /\ Goto(p, r, "iput_valid")

invalidated(s) == [icache EXCEPT ![s].valid = FALSE]

\* valid = 0, releasesleep()
iput_valid(p) ==
  LET r == proc[p] IN
  /\ r.pc = "iput_valid"
  /\ icache' = held(invalidated(r.x), r.x, Nobody)
  /\ Goto(p, r, "iput_ref")
  /\ UNCHANGED disk

iput_ref(p) ==
  LET r == proc[p] IN
  /\ r.pc = "iput_ref"
  /\ icache' = [icache EXCEPT ![r.x].ref = @ - 1]
  /\ Goto(p, [r EXCEPT !.x = 0, !.ret = "end"], r.ret)
  /\ UNCHANGED disk
-----------------------------------------------------------------------------
(* namex() *)

parent_wanted(r) == r.call \in {"create", "mkdir", "unlink"} \/ r.old # 0
found(r) == CASE r.old # 0 -> "ln_link"
              [] r.call = "mkdir" -> "create"
              [] r.call = "link" /\ r.old = 0 -> "ln_lock"
              [] OTHER -> r.call
not_found(r) == IF r.old # 0 THEN "ln_bad" ELSE "end"

\* One pass of the loop: lock, look the element up, unlock, put; or the end of the path.
namex(p) ==
  LET r == proc[p]
      i == inode(r.ip)
      last == parent_wanted(r) /\ Len(r.path) = 1
      next == dirlookup(r.ip, Head(r.path))
      fails == IputThen(p, [r EXCEPT !.ip = 0], r.ip, not_found(r))
  IN
  /\ r.pc = "namex"
  /\ \/ /\ r.path = <<>>
        /\ IF parent_wanted(r) THEN fails ELSE Goto(p, r, found(r))
        /\ UNCHANGED <<disk, icache>>
     \/ r.path # <<>> /\ Unlocked(r.ip) /\ NoType(r.ip) /\ Panic
     \/ /\ r.path # <<>> /\ Unlocked(r.ip)
        /\ i.type = "file" \/ (i.type = "dir" /\ ~last /\ next = 0)
        /\ fails
        /\ icache' = read(icache, r.ip)
        /\ UNCHANGED disk
     \/ /\ r.path # <<>> /\ Unlocked(r.ip) /\ i.type = "dir" /\ last
        /\ Goto(p, [r EXCEPT !.dp = r.ip, !.ip = 0], found(r))
        /\ icache' = read(icache, r.ip)
        /\ UNCHANGED disk
     \/ r.path # <<>> /\ Unlocked(r.ip) /\ i.type = "dir" /\ ~last /\ next # 0 /\ NoEntry(next) /\ Stop("full")
     \/ /\ r.path # <<>> /\ Unlocked(r.ip) /\ i.type = "dir" /\ ~last /\ next # 0 /\ ~NoEntry(next)
        /\ IputThen(p, [r EXCEPT !.ip = slot_of(next), !.path = Tail(r.path)], r.ip, "namex")
        /\ icache' = read(iget(next), r.ip)
        /\ UNCHANGED disk
-----------------------------------------------------------------------------
(* sys_open(), sys_chdir(), filewrite() *)

\* sys_open() has its inode: a descriptor or, when the tables are full, nothing.
Opened(p, r) ==
  \/ Goto(p, [r EXCEPT !.fd = r.ip, !.ip = 0], "end")
  \/ IputThen(p, [r EXCEPT !.ip = 0], r.ip, "end")

open(p) ==
  LET r == proc[p] IN
  /\ r.pc = "open" /\ Unlocked(r.ip)
  /\ \/ NoType(r.ip) /\ Panic
     \/ ~NoType(r.ip) /\ Opened(p, r) /\ icache' = read(icache, r.ip) /\ UNCHANGED disk

chdir(p) ==
  LET r == proc[p]
      put == IF inode(r.ip).type = "dir" THEN r.cwd ELSE r.ip
      stay == IF inode(r.ip).type = "dir" THEN r.ip ELSE r.cwd
  IN
  /\ r.pc = "chdir" /\ Unlocked(r.ip)
  /\ \/ NoType(r.ip) /\ Panic
     \/ /\ ~NoType(r.ip)
        /\ IputThen(p, [r EXCEPT !.ip = 0, !.cwd = stay], put, "end")
        /\ icache' = read(icache, r.ip)
        /\ UNCHANGED disk

\* writei() of the first bytes: bmap() allocates.  A directory is open for reading only.
write(p) ==
  LET s == proc[p].fd
      i == inode(s)
      first == i.type = "file" /\ i.addr = 0
  IN
  /\ proc[p].pc = "write" /\ Unlocked(s)
  /\ \/ NoType(s) /\ Panic
     \/ first /\ OutOfBlocks /\ Stop("full")
     \/ /\ ~NoType(s) /\ (first => ~OutOfBlocks)
        /\ disk' = IF first THEN bmap(disk, icache[s].inum, i) ELSE disk
        /\ icache' = IF first THEN written(icache, s, bmapped(disk, i)) ELSE icache
        /\ Goto(p, proc[p], "end")
-----------------------------------------------------------------------------
(* create() *)

\* dirlookup() under the lock of dp.
create(p) ==
  LET r == proc[p]
      n == dirlookup(r.dp, Head(r.path))
  IN
  /\ r.pc = "create" /\ Unlocked(r.dp)
  /\ \/ NoType(r.dp) /\ Panic
     \/ ~NoType(r.dp) /\ n # 0 /\ NoEntry(n) /\ Stop("full")
     \/ /\ ~NoType(r.dp) /\ n # 0 /\ ~NoEntry(n)
        /\ icache' = read(iget(n), r.dp)
        /\ IputThen(p, [r EXCEPT !.ip = slot_of(n), !.dp = 0], r.dp, "cr_exists")
        /\ UNCHANGED disk
     \/ /\ ~NoType(r.dp) /\ n = 0
        /\ icache' = held(read(icache, r.dp), r.dp, p)
        /\ Goto(p, r, "cr_ialloc")
        /\ UNCHANGED disk

\* A file that exists is opened as it is.
cr_exists(p) ==
  LET r == proc[p] IN
  /\ r.pc = "cr_exists" /\ Unlocked(r.ip)
  /\ \/ NoType(r.ip) /\ Panic
     \/ /\ ~NoType(r.ip)
        /\ IF r.call = "create" /\ inode(r.ip).type = "file" THEN Opened(p, r)
           ELSE IputThen(p, [r EXCEPT !.ip = 0], r.ip, "end")
        /\ icache' = read(icache, r.ip)
        /\ UNCHANGED disk

\* The first inode whose type on the disk is 0.
ialloc(p) ==
  LET r == proc[p]
      free == {n \in Inums : disk.ino[n].type = "none"}
      type == IF r.call = "mkdir" THEN "dir" ELSE "file"
  IN
  /\ r.pc = "cr_ialloc"
  /\ \/ free = {} /\ Stop("full")
     \/ /\ free # {}
        /\ disk' = iupdate(disk, Min(free), [Free EXCEPT !.type = type])
        /\ Goto(p, [r EXCEPT !.ino = Min(free)], "cr_iget")
        /\ UNCHANGED icache

cr_iget(p) ==
  LET r == proc[p] IN
  /\ r.pc = "cr_iget"
  /\ \/ NoEntry(r.ino) /\ Stop("full")
     \/ /\ ~NoEntry(r.ino)
        /\ icache' = iget(r.ino)
        /\ Goto(p, [r EXCEPT !.ip = slot_of(r.ino), !.ino = 0], "cr_fill")
        /\ UNCHANGED disk

\* ilock(ip), nlink = 1, the dots of a directory, the entry in dp, iunlock(dp).
cr_fill(p) ==
  LET r == proc[p]
      n == icache[r.ip].inum
      dn == icache[r.dp].inum
      isdir == r.call = "mkdir"
      i == [inode(r.ip) EXCEPT !.nlink = 1]
      d0 == iupdate(disk, n, i)
      filled == IF isdir THEN dirlink(dirlink(d0, n, i, ".", n), n, bmapped(d0, i), "..", dn) ELSE d0
      parent == [icache[r.dp].di EXCEPT !.nlink = IF isdir THEN @ + 1 ELSE @]
  IN
  /\ r.pc = "cr_fill" /\ Unlocked(r.ip)
  /\ \/ NoType(r.ip) /\ Panic
     \/ ~NoType(r.ip) /\ isdir /\ OutOfBlocks /\ Stop("full")
     \/ /\ ~NoType(r.ip) /\ (isdir => ~OutOfBlocks)
        /\ disk' = dirlink(iupdate(filled, dn, parent), dn, parent, Head(r.path), n)
        /\ icache' = held(written(written(icache, r.ip, IF isdir THEN bmapped(d0, i) ELSE i), r.dp, parent),
                          r.ip, p)
        /\ IputThen(p, [r EXCEPT !.dp = 0], r.dp, "cr_done")

\* Back in sys_open() or sys_mkdir(), with ip locked.
cr_done(p) ==
  LET r == proc[p] IN
  /\ r.pc = "cr_done"
  /\ icache' = held(icache, r.ip, Nobody)
  /\ IF r.call = "create" THEN Opened(p, r) ELSE IputThen(p, [r EXCEPT !.ip = 0], r.ip, "end")
  /\ UNCHANGED disk
-----------------------------------------------------------------------------
(* sys_unlink() *)

unlink(p) ==
  LET r == proc[p]
      n == dirlookup(r.dp, Head(r.path))
      bad == Head(r.path) \in Dots \/ n = 0
  IN
  /\ r.pc = "unlink" /\ Unlocked(r.dp)
  /\ \/ NoType(r.dp) /\ Panic
     \/ /\ ~NoType(r.dp) /\ bad
        /\ icache' = read(icache, r.dp)
        /\ IputThen(p, [r EXCEPT !.dp = 0], r.dp, "end")
        /\ UNCHANGED disk
     \/ ~NoType(r.dp) /\ ~bad /\ NoEntry(n) /\ Stop("full")
     \/ /\ ~NoType(r.dp) /\ ~bad /\ ~NoEntry(n)
        /\ icache' = held(read(iget(n), r.dp), r.dp, p)
        /\ Goto(p, [r EXCEPT !.ip = slot_of(n)], "ul_entry")
        /\ UNCHANGED disk

\* ilock(ip) with dp locked, the tests, the entry zeroed, iunlock(dp).
ul_entry(p) ==
  LET r == proc[p]
      i == inode(r.ip)
      dn == icache[r.dp].inum
      parent == [icache[r.dp].di EXCEPT !.nlink = IF i.type = "dir" THEN @ - 1 ELSE @]
      removable == i.type = "file" \/ isdirempty(i)
  IN
  /\ r.pc = "ul_entry" /\ Unlocked(r.ip)
  /\ \/ (NoType(r.ip) \/ i.nlink < 1) /\ Panic
     \/ /\ ~NoType(r.ip) /\ i.nlink >= 1 /\ ~removable
        /\ icache' = read(icache, r.ip)
        /\ IputThen(p, [r EXCEPT !.ip = 0], r.ip, "ul_bad")
        /\ UNCHANGED disk
     \/ /\ ~NoType(r.ip) /\ i.nlink >= 1 /\ removable
        /\ disk' = dirlink(iupdate(disk, dn, parent), dn, parent, Head(r.path), 0)
        /\ icache' = held(written(read(icache, r.ip), r.dp, parent), r.ip, p)
        /\ IputThen(p, [r EXCEPT !.dp = 0], r.dp, "ul_drop")

\* iunlockput(dp) on the way out of sys_unlink(), and of sys_link() when dirlink() failed.
Release(p, label) ==
  /\ icache' = held(icache, proc[p].dp, Nobody)
  /\ IputThen(p, [proc[p] EXCEPT !.dp = 0], proc[p].dp, label)
  /\ UNCHANGED disk
ul_bad(p) == proc[p].pc = "ul_bad" /\ Release(p, "end")

ul_drop(p) ==
  LET r == proc[p]
      i == [icache[r.ip].di EXCEPT !.nlink = @ - 1]
  IN
  /\ r.pc = "ul_drop"
  /\ disk' = iupdate(disk, icache[r.ip].inum, i)
  /\ icache' = written(icache, r.ip, i)
  /\ IputThen(p, [r EXCEPT !.ip = 0], r.ip, "end")
-----------------------------------------------------------------------------
(* sys_link() *)

\* nlink is incremented before the new name is looked at.
ln_lock(p) ==
  LET r == proc[p]
      i == inode(r.ip)
      more == [i EXCEPT !.nlink = @ + 1]
  IN
  /\ r.pc = "ln_lock" /\ Unlocked(r.ip)
  /\ \/ NoType(r.ip) /\ Panic
     \/ /\ i.type = "dir"
        /\ icache' = read(icache, r.ip)
        /\ IputThen(p, [r EXCEPT !.ip = 0], r.ip, "end")
        /\ UNCHANGED disk
     \/ /\ i.type = "file"
        /\ disk' = iupdate(disk, icache[r.ip].inum, more)
        /\ icache' = written(icache, r.ip, more)
        /\ Goto(p, [r EXCEPT !.old = r.ip, !.ip = 0], "ln_parent")

\* nameiparent(new) starts.
ln_parent(p) ==
  LET r == proc[p] IN
  /\ r.pc = "ln_parent"
  /\ \/ no_start(r.new) /\ Stop("full")
     \/ /\ ~no_start(r.new)
        /\ icache' = started(p, r.new)
        /\ Goto(p, [r EXCEPT !.ip = start(p, r.new), !.path = elements(r.new), !.new = <<>>], "namex")
        /\ UNCHANGED disk

\* dirlink() under the lock of dp; if the name exists, iput() of what was found.
ln_link(p) ==
  LET r == proc[p]
      n == dirlookup(r.dp, Head(r.path))
  IN
  /\ r.pc = "ln_link" /\ Unlocked(r.dp)
  /\ \/ NoType(r.dp) /\ Panic
     \/ ~NoType(r.dp) /\ n # 0 /\ NoEntry(n) /\ Stop("full")
     \/ /\ ~NoType(r.dp) /\ n # 0 /\ ~NoEntry(n)
        /\ icache' = held(read(iget(n), r.dp), r.dp, p)
        /\ IputThen(p, r, slot_of(n), "ln_exists")
        /\ UNCHANGED disk
     \/ /\ ~NoType(r.dp) /\ n = 0
        /\ disk' = dirlink(disk, icache[r.dp].inum, inode(r.dp), Head(r.path), icache[r.old].inum)
        /\ icache' = read(icache, r.dp)
        /\ IputThen(p, [r EXCEPT !.dp = 0], r.dp, "ln_put")

ln_exists(p) == proc[p].pc = "ln_exists" /\ Release(p, "ln_bad")

ln_put(p) ==
  /\ proc[p].pc = "ln_put"
  /\ IputThen(p, [proc[p] EXCEPT !.old = 0], proc[p].old, "end")
  /\ UNCHANGED <<disk, icache>>

\* Mutant: the failed link is not taken back.
takenBackNot(i) == i

takenBack(i) == [i EXCEPT !.nlink = @ - 1]

\* bad: ilock(ip), nlink--, iupdate(), iunlockput(ip)
ln_bad(p) ==
  LET r == proc[p]
      i == takenBack(inode(r.old))
  IN
  /\ r.pc = "ln_bad" /\ Unlocked(r.old)
  /\ \/ NoType(r.old) /\ Panic
     \/ /\ ~NoType(r.old)
        /\ disk' = iupdate(disk, icache[r.old].inum, i)
        /\ icache' = written(icache, r.old, i)
        /\ IputThen(p, [r EXCEPT !.old = 0], r.old, "end")
-----------------------------------------------------------------------------
\* Power fails; recovery of the log and a reboot follow.  Nothing looks for orphans.
Crash ==
  /\ crashes < MaxCrashes
  /\ crashes' = crashes + 1
  /\ disk' = durable
  /\ icache' = FreshCache /\ proc' = FreshProcs /\ panicked' = "no"
  /\ UNCHANGED <<durable, ncalls>>

Step(p) ==
  \/ namex(p) \/ open(p) \/ chdir(p) \/ write(p)
  \/ iput(p) \/ iput_free(p) \/ iput_valid(p) \/ iput_ref(p) \/ end_op(p)
  \/ create(p) \/ cr_exists(p) \/ ialloc(p) \/ cr_iget(p) \/ cr_fill(p) \/ cr_done(p)
  \/ unlink(p) \/ ul_entry(p) \/ ul_bad(p) \/ ul_drop(p)
  \/ ln_lock(p) \/ ln_parent(p) \/ ln_link(p) \/ ln_exists(p) \/ ln_put(p) \/ ln_bad(p)

Next ==
  \/ \E p \in Procs : Step(p) \/ \E c \in Calls[p] : Begin(p, c)
  \/ Crash

Spec == Init /\ [][Next]_vars
-----------------------------------------------------------------------------
Quiet == \A p \in Procs : proc[p].pc = "user"

\* The names of inode n in image d: entries of directories that have a name
\* themselves, and the ".." of its subdirectories.
Dirs(d) == {i \in Inums : d.ino[i].type = "dir" /\ d.ino[i].nlink > 0}
NamesOf(d, n) == {e \in Dirs(d) \X (AllNames \ {"."}) :
                    (e[2] = ".." => e[1] # n) /\ entries(d, d.ino[e[1]])[e[2]] = n}

\* Every link count is the number of names (the root has none and counts 1), and a
\* block is marked in use if and only if it belongs to exactly one inode.
Sound(d) ==
  /\ \A n \in Inums : d.ino[n].nlink = Cardinality(NamesOf(d, n)) + IF n = ROOTINO THEN 1 ELSE 0
  /\ \A b \in Blocks : Cardinality({n \in Inums : d.ino[n].addr = b}) = IF b \in d.used THEN 1 ELSE 0

\* Whatever fails half-way and in whatever order the steps of create(), sys_link(),
\* sys_unlink() and iput() run: what a crash would leave, and what is there when no
\* call is in progress, is a sound file system.
DiskSound == Sound(durable) /\ (Quiet => Sound(disk))

\* The pointers to entry s: open files, current directories and local variables.
Pointers(s) == Cardinality({e \in Procs \X {"fd", "cwd", "dp", "ip", "old", "x"} : proc[e[1]][e[2]] = s})

\* The inode cache: ref counts the pointers; no inode is in two entries; an entry
\* that is valid and not locked agrees with the disk (iupdate() writes through).
CacheSound ==
  /\ \A s \in Slots : icache[s].ref = Pointers(s)
  /\ \A n \in Inums : Cardinality(hit(n)) <= 1
  /\ \A s \in Slots : icache[s].ref > 0 /\ icache[s].valid /\ Unlocked(s)
                        => icache[s].di = disk.ino[icache[s].inum]

\* The panics of ilock(), "no type", and sys_unlink(), "nlink < 1", are not reached.
NoPanic == panicked # "broken"

\* The path of p goes up from the directory in entry s, which p is about to lock.
GoesUp(p, s) ==
  LET r == proc[p] IN
  /\ r.path # <<>> /\ Head(r.path) = ".."
  /\ \/ r.pc = "namex" /\ s = r.ip /\ (parent_wanted(r) => Len(r.path) > 1)
     \/ r.pc \in {"create", "ln_link"} /\ s = r.dp
  /\ Unlocked(s) /\ inode(s).type = "dir"

\* No path goes up to an inode without links.  Nothing in fs.c sees to it: the parent of
\* a removed directory may be removed and freed before, and ilock() panics on it.
UpLinked ==
  \A p \in Procs, s \in Slots :
    GoesUp(p, s) /\ dirlookup(s, "..") # 0 => disk.ino[dirlookup(s, "..")].nlink >= 1

\* The entry whose sleep-lock p is about to take.
Needs(p) ==
  LET r == proc[p] IN
  CASE r.pc = "iput" -> r.x
    [] r.pc \in {"open", "chdir", "cr_exists", "cr_fill", "ul_entry", "ln_lock"} -> r.ip
    [] r.pc = "namex" /\ r.path # <<>> -> r.ip
    [] r.pc \in {"create", "unlink", "ln_link"} -> r.dp
    [] r.pc = "ln_bad" -> r.old
    [] r.pc = "write" -> r.fd
    [] OTHER -> 0
WaitsFor(p, q) == Needs(p) # 0 /\ icache[Needs(p)].lock = q

\* No process waits for a lock of its own, or of one that waits for it.
NoDeadlock == \A p, q \in Procs : ~(WaitsFor(p, q) /\ WaitsFor(q, p))
=============================================================================

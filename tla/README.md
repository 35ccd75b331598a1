# Verification of ssu_computer

The repository holds course work around systems programming. Its largest
program is a copy of the xv6 kernel for x86 (`os/5`); beside it stand programs
written by the repository's author: a block-mapping flash translation layer
(`FileStructure/Project3`), file tools (`FileStructure/Project1`), a page
replacement simulator, tools that find and remove duplicate files
(`LinuxProgramming`), calculators (`programming_language`) and exercises.

This directory models the parts whose correctness depends on the order of
events: concurrency, crashes, sleeping and waking, long call sequences. Each
module is a translation of the source lines listed for its definitions under
"map" in `PROJECT.json`.

## Inventory

| Part | State | Operations | Interacts with | Hard because |
|---|---|---|---|---|
| Log (`log.c`) | in-memory header `log.lh`, `outstanding`, `committing`; header and data blocks on disk | `begin_op`, `log_write`, `end_op`, `commit`, `recover_from_log` | every file system call; buffer cache; sleep/wakeup | crash between any two disk writes; group commit; reservation checked outside the lock |
| Buffer cache (`bio.c`) | buffers with `refcnt`, flags, sleep-lock; LRU list | `bget`, `bread`, `bwrite`, `brelse` | log, IDE driver | recycling races; `NBUF` equals `LOGSIZE` |
| IDE driver (`ide.c`) | request queue | `iderw`, `ideintr` | buffer cache, interrupts | interrupt against the caller that sleeps |
| Locks (`spinlock.c`, `sleeplock.c`) | holder, nesting of `pushcli` | acquire/release | everything | interrupts, wakeups |
| Processes (`proc.c`, `trap.c`, `sysproc.c`) | process table, `nextpid`, per-CPU current process | `fork`, `exit`, `wait`, `sleep`, `wakeup`, `kill`, `yield`, `scheduler` | everything | several processors; lost wakeups; slots filled without the lock |
| Pipes (`pipe.c`, `file.c`) | ring buffer with two wrapping counters, open flags, reference counts | `piperead`, `pipewrite`, `pipeclose` | sleep/wakeup/kill, file table | two sleeping sides; killing; last close frees the page |
| Inodes, directories (`fs.c`, `sysfile.c`) | inode cache, on-disk inodes, bitmap, directory entries | `iget`, `ilock`, `iput`, `ialloc`, `balloc`, `dirlink`, `create`, `link`, `unlink` | log, buffer cache | reference counts against links; lock order; failure half-way; crashes |
| File table and calls (`file.c`, `sysfile.c`) | open files, descriptors, offsets, current directories | `open`, `close`, `dup`, `read`, `write`, `pipe`, `mkdir`, `chdir`, ... | pipes, inodes, processes | sharing between processes; failures; the last close |
| Console (`console.c`) | input ring buffer `r`, `w`, `e`; cursor | `consoleintr`, `consoleread`, `consolewrite` | interrupts, sleep/wakeup | indices wrap; editing against reading |
| Kernel memory (`kalloc.c`, `vm.c`, `exec.c`) | free list, page tables, sizes | `kalloc`, `kfree`, `allocuvm`, `copyuvm`, `freevm`, `exec`, `sbrk` | processes | memory runs out half-way, on several processors |
| `malloc` (`umalloc.c`) | circular free list | `malloc`, `free` | `sbrk` | joining blocks; long call sequences |
| Shell and programs (`sh.c`, `init.c`, ...) | parsed commands | parser, `runcmd` | system calls | grammar; ends of pipes |
| Tests (`usertests.c`, `stressfs.c`) | - | scripts of system calls by several processes | everything | each test is one schedule; the models try all |
| FTL (`ftl.c`, `devicedriver.h`) | flash pages with spare areas, `addrmaptbl`, `reserved_empty_blk` | `ftl_open`, `ftl_write`, `ftl_read`, `move_block` | page device | long write sequences; block moves |
| Duplicate finders (`P3_20192380`, `P2_20192380`) | lists of lists of equal files, trash | search, prompt with delete/ask/keep one, `list`, `trash`, `restore` | the directory tree | list surgery over long sessions; the last copy of a file |
| File index (`P1_20192380`) | found entries | `find`, comparison of files and directories | the directory tree | boundaries of a diff |
| File tools, page replacement, calculators | arrays | sequential algorithms | files | - |
| Boot, hardware set-up, exercises, machine learning scripts | - | - | - | I/O or numerical code |

`PROJECT.json` lists every part with its status, and under "hazards" what can go
wrong at which line and which property would show it.

What makes the parts correct:

- Log: updates become durable in groups of whole calls; a crash at any moment,
  also during recovery, leaves a state between two groups; calls never overrun
  the log; nobody waits for ever.
- Buffer cache and disk: a block is in one buffer, used by one process at a time,
  and its contents survive recycling; every request is answered.
- Processes: a process is on at most one processor; slots, stacks and pids have
  one owner; every process has a parent that can reap it; no exit or kill is
  missed.
- Pipes: a FIFO byte stream, freed exactly once, with nobody asleep on a
  condition that already holds.
- Inodes: link counts are the numbers of names and blocks have one owner, on the
  disk a crash would leave; cache entries are counted and agree with the disk.
- System calls: counts of open files, inodes and links match what refers to them;
  when all processes are gone nothing is left; nobody waits for ever.
- Console: a line discipline: typed lines are read once, in order.
- Memory: every frame is free or used once; an address space is what its size says
  and holds only its owner's data; the heap is the blocks handed out and the list.
- Shell: the parser accepts its grammar and gives the command it stands for.
- Duplicate finders: the list shown is the duplicates on the disk; a copy stays
  unless the user chose it. File index: the changes printed make one file the other.
- FTL: what was written is read back; the reserved block is empty; a physical
  block belongs to one logical block.

## Modules

| Module | Models |
|---|---|
| `TransDisk` | the promise of the logging layer (abstract) |
| `Log` | `log.c` over the buffer cache and a disk that survives crashes |
| `MCLog`, `Log.cfg` | instance for TLC |
| `LogProofs` | theorems about `Log`, proved with TLAPS |
| `BlockStore` | the promise of the buffer cache (abstract) |
| `Bcache`, `MCBcache` | `bio.c` with `sleeplock.c` and `ide.c` |
| `ProcTable`, `MCProcTable` | `proc.c` with its callers in `sysproc.c`, `trap.c`, `init.c` |
| `ByteStream` | the promise of a pipe (abstract) |
| `Pipe`, `MCPipe` | `pipe.c` with `fileclose()` of its two ends |
| `Ftl`, `MCFtl` | `ftl.c` over `devicedriver.h` |
| `Inode`, `MCInode` | `fs.c` with its locks under the calls of `sysfile.c`, over the log's promise, with crashes |
| `Files` | `sysfile.c`, `file.c`, `fs.c`, `pipe.c` and the file and memory side of `proc.c`, one operator per call |
| `UserTests` | `usertests.c`, `stressfs.c`, `zombie.c`, `init.c`, `echo.c`, `cat.c` and `runcmd()` of `sh.c` as scripts |
| `UserMode`, `MCUserMode` | processes that run `UserTests` over `Files` |
| `Terminal` | the promise of the console (abstract) |
| `Console` | `console.c` |
| `Memory` | `kalloc.c`, `vm.c`, `exec.c`, `growproc()`, memory of `fork()` and `wait()` |
| `Umalloc` | `umalloc.c` |
| `ShellParser` | the parser of `sh.c`, with its grammar as the reference |
| `MCXv6` | the last four, which share no state, in one run |
| `FileTree` | the directory tree the tools work on (external) |
| `Sfinder`, `Sdup`, `Sindex` | `P3_20192380`, `P2_20192380`, `P1_20192380` of `LinuxProgramming` |
| `MCFinder` | the three tools in one run |
| `ProcProofs`, `BcacheProofs`, `PipeProofs`, `FtlProofs`, `MemoryProofs` | theorems about `ProcTable`, `Bcache`, `Pipe`, `Ftl`, `Memory` |
| `InodeLemmas`, `InodeProofs` | the invariant of `Inode` and what its steps have in common; one lemma per action and the theorems |

Operators whose comment begins with "Mutant" are deliberately wrong versions of
the definition that follows them; they are not used by the specifications. Each
shows that the property it is listed with in `PROJECT.json` can fail.

### Log

`disk`, `logdata` and `head` are the durable state: home blocks, log data blocks
and the log header. `cache`, `dirty`, `holder` are the buffers of the home
blocks (contents, `B_DIRTY`, owner of the sleep-lock). `lh`, `outstanding`,
`committing` are the fields of `struct log`. `pc` says where each process is.

One action is one critical section of `log.lock` or one disk write:
`begin_op` is one pass of its loop; a logged write is `Modify` (change the
buffer, make the two unlocked tests of `log_write()`) followed by `log_write`
(absorb or append, pin, release the buffer); `end_op` is its first critical
section and `end_commit` its second; `write_log`, `install_trans` are one loop
iteration each, `write_head` and `clear_log` one header write. `Crash` may happen
between any two of them and throws away all but the durable state; `read_head`,
`recover_install`, `recover_clear` are `recover_from_log()`, and may themselves
be interrupted by a crash. `Recycle` is `bget()` taking a buffer that is neither
held nor dirty. A block write is atomic: the driver transfers one sector per
block. `sleep()` is atomic with the release of `log.lock`.

The refinement mapping to `TransDisk`: `durable` is what recovery would produce
from the disk as it is (`Recovered`), `current` what a `bread()` returns.

### Bcache

The fields of `struct buf`, the LRU list (`lru`, most recent first), the owner of
each buffer's sleep-lock (`holder`), the driver's `idequeue`, the drive's command
and interrupt (`cmd`, `irq`) and the contents of the disk (`platter`). A critical
section of `bcache.lock`, of a sleep-lock's spin lock or of `idelock` is one
action: `bget` (hit, recycle or panic), one pass of `acquiresleep()`'s loop, `bread`
and `bwrite` up to the sleep in `iderw()`, `io` (its loop after a wakeup), `ideintr`,
`releasesleep`, and the second half of `brelse()`. `drive`, external, executes one
command. `log_write` is only what that function does to a buffer, `B_DIRTY`, on at
most `MaxPinned` buffers.

A user of a buffer is a process with one of its hands: `Hands` gives a process one or
two, because `install_trans()`, `write_log()`, `bmap()` and `itrunc()` hold a buffer while
they read a second one. The second hand reads only in the orders the code nests them
(`Nested`: log block before home block, indirect block before bitmap block); while one
hand is at work in the cache the other just holds its buffer, as the process is one
thread. `panicked` says which panic stopped the kernel, `bget()`'s or `iderw()`'s; a
caller of `bget()` stays in the panic, as `panic()` spins. `ReadErrors` lets the drive report an error after a
read: `ideintr()` then transfers nothing.

The refinement mapping to `BlockStore`: the contents of a block are its buffer's
data if that is `B_VALID`, else what is on the disk; its owner is the owner of the
buffer's sleep-lock.

### ProcTable

The fields of `struct proc` that matter, one value per slot, plus `cpu` (the
process each processor runs), `scan` (where its `scheduler()` loop continues),
`kpc` (where a process is in the kernel) and `np` (the slot a `fork()` fills).
A critical section of `ptable.lock` is one action. `allocproc()` and `fork()`
work on their slot without the lock: `allocproc`, `alloc_kstack`, `fork_copy`,
`fork_ready` are interleaved with everything. Memory may run out at each
allocation. `tick_check`/`tick_sleep` are `sys_sleep()`, with `tickslock` held
from the test to the sleep; interrupts are off then and while a processor spins
for it. A process that is killed leaves through `call_exit` when it is back in
user space. What `exit()` does to files before it takes `ptable.lock` is not
part of this module. `init` exits, and the kernel panics, when its `fork()`
fails (`init.c`) or when it is killed: `panicked` stops the model.

### Pipe

`p->lock` is explicit. `r_test`, `r_sleep`, `r_copy`, `r_return` are
`piperead()`; `w_full`, `w_sleep`, `w_store`, `w_return` are `pipewrite()`, one
action per loop iteration. `kill` may come between the test of `killed` and the
`sleep()`, because it does not take `p->lock`. `fileclose` drops the reference
under `ftable.lock`; `pipeclose` follows as a separate step. The counters wrap at
`WORD`, a multiple of `PIPESIZE` as 2^32 is of 512.

### Ftl

One action per call: `ftl_write` is `write_page` (page free), `overwrite` (page in
use: `move_block()`, then the new page, then the new reserved block) or
`new_lbn`. A page is its contents and the `lsn` of its spare area. Writing outside
`saved_page[]` in `move_block()` is undefined; the model lets the program go on or
end. The deleted-page branch of `ftl_write()` needs an `lsn` below -1, which
nothing writes, and is left out. `last` and `inorder` are history: what the
caller last wrote, and whether it wrote sectors 0, 1, 2, ... once each.

### Inode

`disk` is the file system as the running calls see it, `durable` what recovery would
find; `durable` becomes `disk` when the last call in progress ends (the promise that
the run `log` shows `Log` to keep). `icache` is the inode cache with the owner of each
sleep-lock, `proc` a process's open file, current directory and the local variables of
its call. One action reaches from one acquisition of an inode lock or of
`icache.lock` to the next: `iput` alone is four (the lock and the test of `ref`,
freeing, `valid = 0`, `ref--`). A file or directory has one block, so `bmap()`'s
indirect block and `filewrite()`'s chunks are left out here (`Files` has the
chunks). `Crash` may come between any two steps. `panicked` is "full" after the panics
of `balloc()`, `ialloc()` and `iget()`, for want of a block, an inode or a cache entry, and
"broken" after those that say the file system or the cache is inconsistent.

### Files, UserTests, UserMode

`Files` is the system call interface without the locks inside it: each call is an
operator from the kernel's tables to the tables after it and a result. `write()` stops
after each transaction and when a pipe is full. `UserTests` transcribes each test
function into its calls with the results it accepts; loop counts and sizes are scaled
down by constants. `UserMode` runs one script, whose `fork()`s run theirs, in every
interleaving of calls; a test that reports a failure sets `failed`. A call that reaches
a panic (`ilock()` of a freed inode, found through the `..` of a removed directory, or no
inode left) has the result `PANIC`, which no test accepts. `link()` counts first and takes
the count back with an `iput()` when the new name cannot be made (`linkBad`). A write into a
pipe whose read end is closed fails when the pipe is full, and stores what fits before, as
`pipe.c:85-93` does. A read of the console blocks: no line is ever typed (`Console` has
the typing). `mem()` ends with its check that `malloc(1024*20)` succeeds again; the shell
has its built-in `cd`.

### Console and Terminal

`cons.lock` is held through a handler, so one key, one written character and one stretch
of `consoleread()` are each a step. A reader about to sleep is "tired": it still holds
the lock, and only `kill()`, which does not take it, can come in between.
The mapping to `Terminal`: the ended lines are the characters from `r` to `w`, the line
being edited those from `w` to `e`.

### Memory

`ram` is the free frames and what every frame holds (junk, zeroes, the program, or data
of the process that stored it), `proc` the address spaces and the call under way.
`fork()`, `exec()` and `sbrk()` stop before every page, so that processes on other
processors allocate and free in between, and memory may run out at any of them.
The kernel's page tables of an address space are one frame. `exec_bad` stands for
every bad header or short read after which `exec()` gives up.

### Umalloc and ShellParser

`Umalloc` has the words of the heap in units of a header, read as headers. The program
also calls `sbrk()` itself, so that the heap gets gaps. In `ShellParser` the scanner is
abstracted to tokens; the parse functions are translated one by one. `Line`, `Backs`,
`Piped` and `Command` are the reference: the same language by cutting a line at its
outermost `;`, `|` and trailing `&`.

### FileTree, Sfinder, Sdup, Sindex

The tree is a set of entries with name, size, contents, time and place in the order of
`scandir()`. An entry may be unreadable, one that cannot be deleted or moved (`fixed`), on
another file system (`dev`, which `rename()` does not leave), or a symbolic link: `Sfinder`
uses `lstat()` and skips links, `Sdup` uses `stat()` and follows them, so that a file has
several paths. A file `Sfinder` cannot open gets an empty digest, and its line is parsed with
the path in the digest's place (`cut`). `remove()` may fail and is not looked at.
`get_trash_path()` runs after the search: it makes the user's trash directory, and empties
root's `~/.Trash/files`; later searches leave the trash out.

A list with its dummy head is a sequence whose first element is the head. Memory that
`malloc()` returned and nothing cleared is modelled by what was freed into it: the head of
a new list of sets or of directories may be an old one. `found`, `chosen` and `spared`
are history: the files of the last search, the contents a user named or answered `y` for,
and the files taken off a list that are still there (a `remove()` that failed, or `d` of
`Sdup`). `spoilt` marks that the lists no longer describe the disk; it is set in five
places, each a defect listed under Findings: a list head that went on in freed memory,
root's trash emptied under the list, a file moved over another in the trash (in `Sfinder`
and in `Sdup`), and a search of `Sdup` that followed a link.
A file of `Sindex` is a sequence of lines of which only text and case are kept.

## Runs

| Run | Bounds | Shows |
|---|---|---|
| `log` | 2 processes, 2 blocks, 2 values, calls of up to 2 blocks, MAXOPBLOCKS 4, LOGSIZE = nlog = 8, 2 crashes | refinement of `TransDisk`; no panic; commits alone; recycling loses nothing; `LogInv`; commits end and waiters are woken |
| `bcache` | 2 processes, one with two buffers at a time (a log block, then its home block) and one with one; 4 blocks of which 1 is written, 2 values, 3 buffers, 1 pinned | refinement of `BlockStore`; one buffer per block, reference counts, and when `bget()` panics (`CacheInv`); request queue and wakeups (`QueueInv`); requests are answered |
| `proc_table` | 3 slots, 2 processors, 2 forks | one processor per process, unique pids, slots and stacks owned once (`TableInv`); live parents; no missed exit; killed processes die; orphans are reaped |
| `pipe` | 2 readers, 2 writers, PIPESIZE 2, counters modulo 4, calls of up to 2 bytes | bounded FIFO; wakeups; end-of-file is final; freed once, at the end |
| `pipe_kill_race` | 1 reader, 1 writer | finding: a killed process asleep for ever |
| `ftl` | 3 blocks of 2 pages, 2 contents | spare areas stay consistent; a device filled in order works |
| `ftl_read_back` | the same | finding: data is lost by overwrites and shared blocks |
| `fs` | 2 processes, 4 inodes, 3 cache entries, 3 blocks, 3 names, 4 calls, 1 crash | the file system is sound on disk after a crash and when no call runs; the inode cache is counted, unique and agrees with the disk; no panic on paths without `..` |
| `fs_deadlock` | the same with 6 cache entries | finding: two `unlink()`s wait for each other |
| `usertests` | 6 processes, 17 inodes, 8 files, 6 descriptors, files of 6 units, pipes of 2, 18 pages, loops of 2 rounds, 2 children | every test passes, counts match, nothing is left and nobody is stuck, in every interleaving of the test's processes |
| `xv6_parts` | console: ring of 3, indices modulo 6, 2 readers, screen of 3 rows; memory: 12 frames, 3 processes, 4 pages each; heap of 13 units; lines of 5 tokens, MAXARGS 3 | refinement of `Terminal`; readers asleep only on an empty ring; frames used once; address spaces whole; heap whole; the parser and the grammar agree |
| `finder` | five trees of 10 to 12 entries and one of 15, 2 searches a session, files of up to 4 lines | the lists are the duplicates on the disk unless `spoilt`; a copy stays but in the cases `CopyStays` names; a diff patches and is shortest; directories are merged at every depth entered |

Why the bounds are enough. Log: with two processes and these sizes a second call
is admitted into an empty log and has to wait as soon as one block is logged, so
groups of one and two calls, absorption, waiting and both kinds of `end_op()`
occur; the second crash can fall into the recovery from the first. Bcache: there
are more blocks than buffers, so buffers are recycled while others are pinned, in
use or waited for, and with three users and one pinned buffer all three may be taken:
`bget()`'s panic is reached. With two processes two requests queue up. One block changes,
the others start with another value, so that a buffer that keeps or takes the
wrong block's data shows. Processes: two
slots beside init give a parent, a child and an orphan, and a slot that is used
again; with two processors every pair of critical sections meets. Pipe: two on
each side give wakeups of several sleepers and competition for the lock; the
counters wrap after four bytes, so every combination of wrapped and unwrapped
counters is met. FTL: two logical blocks and the reserved one; sharing, moving
and moving back all happen.

Inode: the calls of the two processes meet on one file with two names and on one
directory, with room for the image and two more inodes; four calls are enough for
create, link, unlink of both names and a last close in any order. Three cache entries for
four inodes: entries are recycled, and `iget()` finds none free. Tests: the
scaled loops still fill the pipe, the file, the directory and the pages, and
two children meet. Console: a line can be as long as the ring, the indices wrap after
two fillings, and a read of 2 characters takes part of a line or the whole.
Memory: `init` takes 5 frames, so a second process fits and a third, or an `exec()`
with both spaces alive, runs out at every possible page. Heap: blocks of 2, 3 and 5
units and a core of 4 make exact fits, splits, joins on either side and failures.
Parser: five tokens nest one block in a pipe or a list. Finder: sets of three and of
two files, an empty file, a search before and after deletions; beside the plain tree one
with files that cannot be read, deleted or moved, one with files without a date, one
with a used trash can, one with links to a directory, a file and nothing; and root.

`xv6_parts` uses a VIEW. `Memory` always takes the least free frame, and nothing depends
on which frame it is: the view keeps what each page holds and the numbers of
free frames, used frames and uses, which are what `FramesOnce` counts, so that no state
that violates it is mistaken for one that does not. The readers of the console
are alike, and only the headers of blocks on the list or in use are read in the heap.

Deadlock is checked in `log`, `bcache` and `usertests`. In the other runs the system may
stop: all ends of the pipe closed, init dead, the FTL's stack protector, the bounds on
calls reached, a session ended.

Fairness. Log: a process that can step does (`scheduler()` is round-robin and the
timer preempts), the disk answers, and an admitted call reaches its `end_op()`;
nothing makes calls start. Bcache: the same for a process inside `bread()` or
`bwrite()`; the drive executes its command and its interrupt is taken; nothing
makes a caller give a buffer back, so waiting for the lock is not assumed to
end, and a request is answered unless `bget()` panicked meanwhile. Processes: every processor keeps running
`scheduler()`, the clock ticks, a process in the kernel gets on between
preemptions (strong fairness, since it is disabled whenever it is off the
processor), and init calls `wait()` again and again as `init.c` does. Pipe: a
process inside a call gets on, `p->lock` being a spin lock that everybody
releases; a killed process closes its files.

The runs of `Inode`, `UserMode`, `MCXv6` and `MCFinder` check safety only.

## Findings

Runs that TLC ends with a counterexample:

- `pipe_kill_race`: `piperead()`/`pipewrite()` (`pipe.c:107`, `86`): a kill after the test
  and before `sleep()` is not noticed until something else wakes the process.
- `ftl_read_back`: `ftl_write()` (`ftl.c:141`, `235`, `255`): `move_block()` erases the
  block it filled instead of the old one; the old one becomes the reserved block with
  its pages still in it; and a new logical block may take a physical block that
  belongs to another. A device written in order, each sector once, is served
  correctly (`InOrder`).
- `fs_deadlock`: `sys_unlink()` and `create()` call `iunlockput(dp)` while they hold the
  entry's inode, and `iput()` (`fs.c:334`) locks the directory once more. Two `unlink()`s of
  two links to one file wait for each other. `link(x, ".")` waits for itself.

Met while modelling; the models contain the behaviour and no run states the contrary:

- `kill()` (`proc.c:486`) compares pids and not states: `kill(0)`, or the pid a failed
  `fork()` left, marks a free slot, and the next process there is born killed.
- `pipewrite()` (`pipe.c:86-88`): a killed writer that has stored bytes and finds the
  pipe full returns without waking the readers. `WakeupInv` allows for it.
- `ideintr()` (`ide.c:118-122`) marks a buffer `B_VALID` also when the drive reported an
  error: with `ReadErrors = TRUE` in `Bcache.cfg`, TLC shows it.
- `consoleread()` has the kill/sleep race of the pipe.
- `iput()`: two processes that put the last two references of a nameless inode may
  both read `ref` as 2; nobody frees it. A file created in a directory that was removed
  meanwhile is lost as well.
- `ilock()` (`fs.c:309`) panics on the `..` of a removed directory: a process whose current
  directory was removed, and whose parent was then removed too, looks up `..` and finds
  a freed inode (`chdir("d/g")`; another `unlink`s `/d/g` and `/d`; `open("..")`). The paths of
  the run `fs` have no `..`; with them TLC finds `NoPanic` violated, and none of its
  violations is left when states in which a path goes up to an inode without links
  (`UpLinked` false) are not continued. The theorem `PanicsOnlyGoingUp` says so in general.
- `sbrk(-sz)` frees all pages, returns -1 and leaves `sz`. `malloc()` of nearly 2^32
  bytes wraps to a small block (not in the model: sizes are small).
- `sh.c`: `a & b` is a syntax error, and in `a >x >y` the first redirection wins, as it is
  executed last.
- `createdelete()` of `usertests.c` leaves most of its files behind.
- `NBUF` equals `LOGSIZE`. `bget()` cannot panic while there is a buffer for every
  pinned block and for every buffer the processes may hold, two each (`BuffersSuffice`).
  The real 30 buffers for a log of 29 blocks do not meet that: the two of `write_log()`
  with the log full are one too many unless one of its blocks is in the cache already, as
  the home block is. Nothing in the code rules the panic out; what holds of any `NBUF` is
  `CacheInv`: it comes only when the kept buffers and the other users are as many as the
  buffers.
- `param.h` calls `LOGSIZE` the "max data blocks in on-disk log", but `mkfs.c` gives the log
  `LOGSIZE` blocks with the header. `RoomEnough` states what is needed; with the real
  sizes it allows 8 blocks per call, and the largest call of `fs.c` and `sysfile.c` writes
  7.
- `ssu_sfinder.h`: the heads of `dups_list_h` and of the list of directories are never
  initialised, so after a search that freed sets a new list may start with an old one;
  `get_new_file_name()` always appends the same number, so a third file of one name
  replaces one in the trash; for root the directory `~/.Trash/files` is emptied after the
  search that listed it; a file that cannot be opened gets an empty digest and is parsed
  shifted; results of `remove()` are ignored, so a file that stays leaves the list; with
  every file at mtime 0 `get_recent_mtime()` chooses none, and `f` and `t` take all copies;
  sorting by `list` and `trash` turns an element into the head and loses it; the extension
  of `*.c` stays in force for a following `*`; without `-h` the upper bound is 0; `restore` does
  nothing; `thread_num` is parsed and not used.
- `P2_20192380`: `stat()` follows links, so a linked directory lists a file twice, deleting
  one leaves a stale line, and `f` may delete the only copy behind a link; an index one past
  the end dereferences NULL, index 0 acts on the first file, and `d 1` takes the first file
  off the list but leaves it on the disk, where `ssu_help.c:8` speaks of deleting.
- `P1_20192380`: the test of the index is off by one.

## Proofs

TLAPS checks the theorems below for every value of the constants that satisfies the
assumptions named in the modules; TLC checks the same properties on the small
instances of the runs, and evaluated each inductive invariant on those instances
before it was proved. A preservation proof has one lemma per action.

| Module | Theorems | Property of the run |
|---|---|---|
| `LogProofs` | `NeverPanics`, `AlwaysFits`, `CommitsAlone` (and `LogInvariant`, `TypeCorrect`) | `NoPanic`, `LogFits`, `CommitAlone` |
| `LogProofs` | `RecyclingIsSafe`, `QuiescentIsDurable`, `LogImplements` | `RecycleSafe`, `QuiescentDurable`, `Refinement` |
| `ProcProofs` | `TableConsistent`, `LiveParents`, `NoExitMissed` | `TableInv`, `LiveParent`, `NoMissedExit` |
| `BcacheProofs` | `CacheConsistent`, `RequestsServed`, `CacheImplements` (and `BuffersSuffice`) | `CacheInv`, `QueueInv`, `IsBlockStore` |
| `PipeProofs` | `NoLostWakeup`, `EofOnlyAtEnd`, `FreedByLast`, `PipeIsStream` | `WakeupInv`, `EofIsFinal`, `FreedOnce`, `IsStream` |
| `FtlProofs` | `SpareAreas`, `InOrderServed` | `SpareMatchesOffset`, `InOrder` |
| `MemoryProofs` | `FramesAccounted`, `SpacesSound` | `FramesOnce`, `AddressSpaces` |
| `InodeProofs` | `DiskStaysSound`, `CacheIsConsistent`, `PanicsOnlyGoingUp` (and `DiskStaysIntact`, `UpStaysLinked`) | `DiskSound`, `CacheSound`, `NoPanic` |

`LogImplements`, `CacheImplements` and `PipeIsStream` are refinements: the initial
states map to initial states of the abstract module, and every step to a step of it or
a stutter.

### Log

Assumed: `DataAssumption` and `SizeAssumption` of `Log` (finite sets of processes and
blocks, positive sizes, a log not longer than its header can describe) and
`RoomEnough`, the hypothesis of each theorem.

`NoPanic` is not inductive: that `log_write()` finds room depends on what other calls
may still append. `LogInv` makes that explicit. Every admitted call holds one *credit*
for each of its `MAXOPBLOCKS` reserved blocks it has not logged yet; `Reservation` says
that the header plus all credit never exceeds `LOGSIZE`, that `outstanding` counts the
admitted calls, and that a call's own blocks stay in the header while it is active, so
that rewriting one is absorbed and costs nothing. `begin_op()` creates credit only when
there is room (`begin_opInv`), appending a block uses one credit up (`CreditUsed`,
`log_writeInv`), `end_op()` gives the rest back (`end_opInv`). A call that can still
write has at least MAXOPBLOCKS - OpBlocks + 1 credits left (`CreditOfOne`), which with
`RoomEnough` keeps the header below the on-disk size at the unlocked test.
`CommitAlone` keeps the header fixed during a commit, `LoopsInRange` keeps the copy loops
inside it, `OneBuffer` ties a held buffer to a call in `log_write()`, and `BootAlone`
keeps calls out of recovery.

The second part adds what the data are (`DataInv`). `HeaderInv`: no block is named twice,
and the header on disk is empty except between the commit and its erasure, when it is
the one in memory. `PinInv`: `B_DIRTY` marks exactly the logged blocks that are not home
yet, and those are cached. `CopyInv`: what each log block holds as far as the loops of
`commit()` and `recover_from_log()` have come. From it: writing log blocks and home
blocks leaves both abstract disks alone, writing the header makes all of `current`
durable at once, erasing it changes nothing because every block is home, a crash drops
`current`, and recovery, interrupted or not, keeps `durable`.

### ProcTable

Assumed: at least two slots and two pids. `TableInv`, `LiveParent` and `NoMissedExit` are not inductive one by
one: that `wait()` frees a slot nobody is filling depends on `np` and `kpc` of the
`fork()` under way, and that `exit()` leaves no orphan on `parent` being a live process at
every critical section. `ProcInv` adds which `fork()` fills which `EMBRYO` slot (`ForkInv`),
where a process without a live state stands (`DormantInv`), to whom a kernel stack belongs
(`StackInv`), what `p->parent` is in every state of a slot (`ParentInv`), on which channel
a sleeper can be (`SleepInv`), and that `init` enters `exit()` only by a panic.

### Bcache

Assumed: a finite set of processes and at least one buffer; for
`RequestsServed` and `CacheImplements` also `ReadErrors = FALSE`. With `TRUE` both
are false: `ideintr()` marks a buffer valid whose read failed (see Findings).

`BufferInv` joins the two locks and the drive: every queued buffer is locked by a process
that sleeps for it (`HolderInv`, `RequestInv`), the drive's command is the first request as
it still is (`CommandInv`), the flags agree with the place of the process that has the
buffer (`FlagsInv`), at most `MaxPinned` buffers wait for the log (`PinnedInv`) and every
buffer is on the list (`ListInv`). When `bget()` finds no unused buffer is a counting
argument: then every buffer is kept (pinned, with nobody) or some user has it, and the
one that panics has none. `CacheConsistent` needs no premise on `NBUF`; `BuffersSuffice`
adds `NBUF >= MaxPinned + Cardinality(Users)` and concludes that nothing panics, a premise
the sizes of `param.h` do not meet (see Findings). `CleanInv`,
proved on top of it, says that a valid, clean buffer nobody is changing is what the disk
has: this is what lets `bget()` recycle, and what the refinement needs for a `bread()`
that finds nothing in the cache.

### Pipe

Assumed: finite, disjoint, nonempty sets of readers and writers, and a word that
`PIPESIZE` divides. `WakeupInv` is not inductive: between the test and `sleep()`, and
between storing a byte and `wakeup()`, it is the lock that makes it true. `SleepInv` says of
each sleeper that what it waits for is still missing, or that the process that brought
it still holds `p->lock` with its wakeup ahead, or was killed (the race of
`pipe_kill_race`). `LockInv` and `LoopInv` place every process, `RefInv` and `EndsInv` count the
open descriptors of each end, which is why the last `pipeclose()` alone frees the page.
`PipeIsStream` needs that the two free-running counters are at most `PIPESIZE` apart
(`RoomInv`), so that the slots between them modulo `PIPESIZE` are distinct, also where
the word wraps (`ModApart`, `ModShift`).

### Ftl

Assumed: at least one page per block and two blocks. `FtlInv` says what a caller who
fills the device in order has made of it (`FilledInOrder`: block *l* for logical block *l*,
each sector at its place, everything behind the last one erased). The provers have no
induction here; that every number below a bound has a property is shown by contradiction
with the least number that has not (`LeastNatural`).

### Memory

Assumed (`MemorySizes`): finitely many frames, with the five that the first process needs,
positive page and table sizes, `KERNBASE` a multiple of both. Any set of processes,
programs and `sbrk()` arguments.

Neither property is inductive: what `freevm()` gives back depends on how far the loop of
the call has come, and on the page tables covering the pages. `MemInv` says for each
process what is built in each of its states (`Shape`), that exactly the pages below the
size or the loop's address are mapped, in its space and in the one its call is building
(`Sized`), and what they hold (`Content`); that no frame has two places in a space (`Once`);
that a `fork()` has its own `EMBRYO` slot (`ForkInv`); and that the free list and the
*holders* (kernel stack, space and space under construction of each process) share the
frames out (`Own`). Each memory operator is proved once to exchange frames between the
free list and the one space it works on only (`Conserves`), for its failure paths too:
`kalloc`, `mappages()`, `setupkvm()`, `deallocuvm()`, `freevm()`, `copyuvm()`, `allocuvm()`.
A step then moves frames between at most two holders and the free list (`Exchange`),
which leaves every other process sound (`OthersSound`). `FramesOnce` follows by a bijection
between the uses and the frames that are not free. `SpacesSound` also shows that a page
that both sizes of an `sbrk()` reach survives, through `PGROUNDUP` of sizes that are no
multiple of a page.

### Inode

Assumed (`InodeAssumption`): finite sets of processes and names, the two inodes of the
image, at least one cache entry and one block, and paths in which `/` only comes first.
Each theorem has a hypothesis, without which the code breaks the property (see Findings).
`UpLinked` says of a state that no path is about to go up, by `..`, to an inode without
links. `InodeInvariant`, `CacheIsConsistent`, `PanicsOnlyGoingUp` and `DiskStaysIntact` have
the form `Spec /\ []UpLinked => []...`: they hold as long as that has not happened, and
`PanicsOnlyGoingUp` thereby says that going up is the only way to the panics of `ilock()`
and `sys_unlink()`. The code does not ensure `UpLinked`. `UpStaysLinked` shows that it holds
if the calls are such that no path has the element `..` (`NoDotDot`, as `FileCalls` in the run
`fs`), or no name is both made by a `mkdir()` and removed by an `unlink()` (`NoRmdir`).
`DiskStaysSound` needs `NoRmdir`, because a file created in a
directory that another process is removing keeps a link that no reachable name stands
for. `DiskStaysIntact` is what is left then: no name leads to a free inode, no inode
has fewer links than names, no block is lost or has two owners.

None of the properties is inductive. Between the locks of one call the disk is not
sound: `ialloc()` has written an inode that nothing names, `link()` has counted a link
before the entry exists, `unlink()` has cleared an entry before the count goes down.
`DiskInv(d, R, W)` says that image `d` is sound but for the inodes in `R`, which are
`Fresh`, and the links `W[n]` that calls owe inode *n*; the disk has it with
the `Reserved` inodes and `Owed` links of the calls in progress, what recovery would find
has it with none, and `end_op()` makes the one the other when no call is left (`NoDebts`).
`Local` is what a call relies on across the gaps where it has no lock: its pointers are
to inodes in use, unless its own `iput()` has just freed one (`Dying`); `dp` is a
directory and `old` a file; the name it looked up still is, or is not, in `dp`.
`ReserveInv` keeps everybody else off an inode that is being created, `AgreeInv` ties a
valid cache entry to the disk except between the freeing and `valid = 0` of `iput()`, and
`RefInv`, `UniqInv` and `LockInv` are the cache itself.

`InodeLemmas` proves once what a change of an image does to links, blocks and the tree
(`LinksStep`, `BlockGiven`, `InodeFreed`, `InodeTaken`, `FileCreated`, `DirCreated`,
`NameCleared`, `NameMade`), what a step of one process does to the reference counts
(`Counted`, `PtrCounted`), and that a step of one of three forms keeps `InodeInv`:
`Proceeds` leaves the disk alone, `Alters` changes inodes that the process has locked,
`Recounts` changes one link count. `InodeProofs` shows that each action has one of the
forms. That the counts of `Sound` are those of `DiskInv` is a bijection between the
subdirectories of a directory and the `..` entries that name it (`KidsCounted`).

### Only model-checked

- Liveness under fairness, out of the prover's reach.
- `Console`, with its refinement of `Terminal`, `Umalloc`, `ShellParser`, `Sfinder`, `Sdup`,
  `Sindex`, and `UserTests` with `UserMode` on top of it, use RECURSIVE operators on buffers,
  lists and trees, about which the prover cannot reason.

## Not modelled, and the plan

- `bmap()`'s indirect blocks and `mkfs.c` as a tool; the interrupt nesting of
  `pushcli()`/`popcli()`; `memide.c`.
- The formatting of `cprintf()`/`printf()`, key codes, `ls`, `grep`, `wc`: text.
- `ssu_sdup.h` (an ancestor of `ssu_sfinder.h`), `diff.c` and `my_find.c` (drafts of
  `ssu_sindex.c`).
- The file tools of `FileStructure/Project1` (one library call each), the page replacement
  simulator and the calculators: sequential, without state that lasts. In the page
  replacement simulator `find_replace_index()` may return -1 when no frame is empty
  and frame 0 is the oldest.
- Boot code, register programming of devices, assembly, the one-screen system call
  exercises, build output, the machine learning scripts.

Worth proving next: `ConsoleInv` of `Console`, once its three loops are recursive
functions.

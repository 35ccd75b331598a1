------------------------------ MODULE UserTests ------------------------------
(***************************************************************************)
(* User programs of xv6 as scripts of system calls: the functions of       *)
(* os/5/usertests.c, and the shell, init and small programs.               *)
(*                                                                         *)
(* A script is a sequence of instructions.  `want` is the set of results   *)
(* after which the program goes on; any other result is what the test      *)
(* reports as a failure.  Variables are named by strings.  Loop counts and *)
(* sizes are scaled down: Rounds for a count, units for bytes.             *)
(***************************************************************************)
EXTENDS Integers, Sequences, SequencesExt

CONSTANTS
  Rounds,     \* iterations of a loop that writes, forks or creates Rounds times
  Children,   \* processes a concurrent test forks
  FileUnits,  \* MAXFILE, the units of the largest file
  PipeUnits,  \* units a write of pipe1() puts into the pipe, more than it holds
  Page,       \* PGSIZE
  Big,        \* the size of memory that sbrktest() calls BIG
  Letters,    \* Letters[i]: the i-th name prefix of createdelete()
  Digits      \* Digits[i]: the i-th digit

OK == 0 .. 99
NO == {-1}
ANY == -1 .. 99

\* System calls: v is the variable that takes the result, fd the one that holds the descriptor.
open(v, path, mode, want) == <<[op |-> "open", to |-> v, path |-> path, mode |-> mode, want |-> want]>>
close(fd) == <<[op |-> "close", fd |-> fd, to |-> "r", want |-> ANY]>>
dup(fd) == <<[op |-> "dup", fd |-> fd, to |-> "r", want |-> ANY]>>
read(v, fd, n, want) == <<[op |-> "read", to |-> v, fd |-> fd, n |-> n, want |-> want]>>
write(fd, data) == <<[op |-> "write", to |-> "r", fd |-> fd, data |-> data, done |-> 0, want |-> {Len(data)}]>>
mkdir(path, want) == <<[op |-> "mkdir", to |-> "r", path |-> path, want |-> want]>>
mknod(path) == <<[op |-> "mknod", to |-> "r", path |-> path, want |-> ANY]>>
chdir(path, want) == <<[op |-> "chdir", to |-> "r", path |-> path, want |-> want]>>
link(old, new, want) == <<[op |-> "link", to |-> "r", path |-> old, new |-> new, want |-> want]>>
unlink(path, want) == <<[op |-> "unlink", to |-> "r", path |-> path, want |-> want]>>
fstat(fd, want) == <<[op |-> "fstat", to |-> "r", fd |-> fd, want |-> want]>>
pipe(want) == <<[op |-> "pipe", to |-> "r", want |-> want]>>          \* fds[0], fds[1] in "p0", "p1"
fork(v, child, want) == <<[op |-> "fork", to |-> v, child |-> child, want |-> want]>>
wait(v, want) == <<[op |-> "wait", to |-> v, want |-> want]>>
getpid(v) == <<[op |-> "getpid", to |-> v, want |-> OK]>>
kill(pid) == <<[op |-> "kill", to |-> "r", pid |-> pid, want |-> ANY]>>
exec(path, bytes, program) == <<[op |-> "exec", to |-> "r", path |-> path, bytes |-> bytes, prog |-> program, want |-> NO]>>
sbrk(v, n, want) == <<[op |-> "sbrk", to |-> v, n |-> n, want |-> want]>>
exit == <<[op |-> "exit"]>>

\* The program's own steps: memory, control and the checks it makes.
poke(v, x) == <<[op |-> "poke", addr |-> v, x |-> x]>>
peek(v) == <<[op |-> "peek", addr |-> v]>>
trap == <<[op |-> "exit"]>>                   \* an instruction the processor refuses: trap() kills
spin == <<[op |-> "spin"]>>
add(v, n) == <<[op |-> "add", v |-> v, n |-> n]>>
while(v, body) == <<[op |-> "while", v |-> v, body |-> body]>>     \* while v > 0
ifneg(v, body) == <<[op |-> "ifneg", v |-> v, body |-> body]>>     \* if v < 0
either(bodies) == <<[op |-> "either", bodies |-> bodies]>>
readall(fd, n, cap) == <<[op |-> "readall", fd |-> fd, n |-> n, cap |-> cap, acc |-> <<>>]>>
copy(fd) == <<[op |-> "copy", fd |-> fd]>>    \* write what was read last
expect(set) == <<[op |-> "expect", in |-> set]>>
listed(names) == <<[op |-> "listed", names |-> names]>>
same(v, w, d) == <<[op |-> "same", v |-> v, w |-> w, d |-> d]>>    \* v = w + d
printed(set) == <<[op |-> "printed", in |-> set]>>
fail == <<[op |-> "expect", in |-> {}]>>

RDONLY == {}
RDWR == {"rdwr"}
WRONLY == {"wronly"}
CREATE == {"create"}
CREATERW == {"create", "rdwr"}

times(n, body(_)) == FlattenSeq([i \in 1 .. n |-> body(i - 1)])
reps(n, x) == [i \in 1 .. n |-> x]
name(l, d) == Letters[l + 1] \o Digits[d + 1]
-----------------------------------------------------------------------------
(* usertests.c: inodes and directories *)

iputtest ==
  mkdir(<<"iputdir">>, OK) \o chdir(<<"iputdir">>, OK) \o unlink(<<"..", "iputdir">>, OK) \o chdir(<<"/">>, OK)

exitiputtest ==
  fork("pid", mkdir(<<"iputdir">>, OK) \o chdir(<<"iputdir">>, OK) \o unlink(<<"..", "iputdir">>, OK) \o exit, OK)
  \o wait("r", ANY)

openiputtest ==
  mkdir(<<"oidir">>, OK)
  \o fork("pid", open("fd", <<"oidir">>, RDWR, NO) \o exit, OK)
  \o unlink(<<"oidir">>, {0}) \o wait("r", ANY)

dirtest ==
  mkdir(<<"dir0">>, OK) \o chdir(<<"dir0">>, OK) \o chdir(<<"..">>, OK) \o unlink(<<"dir0">>, OK)

subdir ==
  LET content(n, d) == read("r", "fd", 9, {n}) \o expect({d}) \o close("fd")
  IN  unlink(<<"ff">>, ANY) \o mkdir(<<"dd">>, {0})
      \o open("fd", <<"dd", "ff">>, CREATERW, OK) \o write("fd", <<"f", "f">>) \o close("fd")
      \o unlink(<<"dd">>, NO) \o mkdir(<<"/", "dd", "dd">>, {0})
      \o open("fd", <<"dd", "dd", "ff">>, CREATERW, OK) \o write("fd", <<"F", "F">>) \o close("fd")
      \o open("fd", <<"dd", "dd", "..", "ff">>, RDONLY, OK) \o content(2, <<"f", "f">>)
      \o link(<<"dd", "dd", "ff">>, <<"dd", "dd", "ffff">>, {0}) \o unlink(<<"dd", "dd", "ff">>, {0})
      \o open("r", <<"dd", "dd", "ff">>, RDONLY, NO)
      \o chdir(<<"dd">>, {0}) \o chdir(<<"dd", "..", "..", "dd">>, {0})
      \o chdir(<<"dd", "..", "..", "..", "dd">>, {0}) \o chdir(<<".", "..">>, {0})
      \o open("fd", <<"dd", "dd", "ffff">>, RDONLY, OK) \o content(2, <<"F", "F">>)
      \o open("r", <<"dd", "dd", "ff">>, RDONLY, NO)
      \o open("r", <<"dd", "ff", "ff">>, CREATERW, NO) \o open("r", <<"dd", "xx", "ff">>, CREATERW, NO)
      \o open("r", <<"dd">>, CREATE, NO) \o open("r", <<"dd">>, RDWR, NO) \o open("r", <<"dd">>, WRONLY, NO)
      \o link(<<"dd", "ff", "ff">>, <<"dd", "dd", "xx">>, NO) \o link(<<"dd", "xx", "ff">>, <<"dd", "dd", "xx">>, NO)
      \o link(<<"dd", "ff">>, <<"dd", "dd", "ffff">>, NO)
      \o mkdir(<<"dd", "ff", "ff">>, NO) \o mkdir(<<"dd", "xx", "ff">>, NO) \o mkdir(<<"dd", "dd", "ffff">>, NO)
      \o unlink(<<"dd", "xx", "ff">>, NO) \o unlink(<<"dd", "ff", "ff">>, NO)
      \o chdir(<<"dd", "ff">>, NO) \o chdir(<<"dd", "xx">>, NO)
      \o unlink(<<"dd", "dd", "ffff">>, {0}) \o unlink(<<"dd", "ff">>, {0}) \o unlink(<<"dd">>, NO)
      \o unlink(<<"dd", "dd">>, OK) \o unlink(<<"dd">>, OK)

fourteen ==
  LET n14 == "12345678901234"
      n15 == "123456789012345"
  IN  mkdir(<<n14>>, {0}) \o mkdir(<<n14, n15>>, {0})
      \o open("fd", <<n15, n15, n15>>, CREATE, OK) \o close("fd")
      \o open("fd", <<n14, n14, n14>>, RDONLY, OK) \o close("fd")
      \o mkdir(<<n14, n14>>, NO) \o mkdir(<<n15, n14>>, NO)

rmdot ==
  mkdir(<<"dots">>, {0}) \o chdir(<<"dots">>, {0}) \o unlink(<<".">>, NO) \o unlink(<<"..">>, NO)
  \o chdir(<<"/">>, {0}) \o unlink(<<"dots", ".">>, NO) \o unlink(<<"dots", "..">>, NO) \o unlink(<<"dots">>, {0})

dirfile ==
  open("fd", <<"dirfile">>, CREATE, OK) \o close("fd") \o chdir(<<"dirfile">>, NO)
  \o open("fd", <<"dirfile", "xx">>, RDONLY, NO) \o open("fd", <<"dirfile", "xx">>, CREATE, NO)
  \o mkdir(<<"dirfile", "xx">>, NO) \o unlink(<<"dirfile", "xx">>, NO) \o link(<<"README">>, <<"dirfile", "xx">>, NO)
  \o unlink(<<"dirfile">>, {0}) \o open("fd", <<".">>, RDWR, NO) \o open("fd", <<".">>, RDONLY, ANY)
  \o <<[write("fd", <<"x">>)[1] EXCEPT !.want = -1 .. 0]>> \o close("fd")

iref ==
  times(Rounds, LAMBDA i :
    mkdir(<<"irefd">>, {0}) \o chdir(<<"irefd">>, {0}) \o mkdir(<<>>, ANY) \o link(<<"README">>, <<>>, ANY)
    \o open("fd", <<>>, CREATE, ANY) \o close("fd") \o open("fd", <<"xx">>, CREATE, ANY) \o close("fd")
    \o unlink(<<"xx">>, ANY))
  \o chdir(<<"/">>, ANY)
-----------------------------------------------------------------------------
(* usertests.c: files *)

opentest ==
  open("fd", <<"echo">>, RDONLY, OK) \o close("fd") \o open("fd", <<"doesnotexist">>, RDONLY, NO)

writetest ==
  open("fd", <<"small">>, CREATERW, OK) \o times(Rounds, LAMBDA i : write("fd", <<"a">>) \o write("fd", <<"b">>))
  \o close("fd") \o open("fd", <<"small">>, RDONLY, OK) \o read("r", "fd", 2 * Rounds, {2 * Rounds}) \o close("fd")
  \o unlink(<<"small">>, OK)

writetest1 ==
  open("fd", <<"big">>, CREATERW, OK) \o times(FileUnits, LAMBDA i : write("fd", <<i>>)) \o close("fd")
  \o open("fd", <<"big">>, RDONLY, OK)
  \o times(FileUnits, LAMBDA i : read("r", "fd", 1, {1}) \o expect({<<i>>})) \o read("r", "fd", 1, {0})
  \o close("fd") \o unlink(<<"big">>, OK)

createtest ==
  times(Rounds, LAMBDA i : open("fd", <<name(0, i)>>, CREATERW, ANY) \o close("fd"))
  \o times(Rounds, LAMBDA i : unlink(<<name(0, i)>>, ANY))

\* The first write puts "ab" twice over: larger than one transaction.
bigwrite ==
  unlink(<<"bigwrite">>, ANY)
  \o times(FileUnits \div 2, LAMBDA sz :
       open("fd", <<"bigwrite">>, CREATERW, OK) \o write("fd", reps(sz + 1, "x")) \o write("fd", reps(sz + 1, "x"))
       \o close("fd") \o unlink(<<"bigwrite">>, ANY))

bigfile ==
  unlink(<<"bigfile">>, ANY) \o open("fd", <<"bigfile">>, CREATERW, OK)
  \o times(FileUnits \div 2, LAMBDA i : write("fd", <<i, i>>)) \o close("fd")
  \o open("fd", <<"bigfile">>, RDONLY, OK)
  \o times(2 * (FileUnits \div 2), LAMBDA i : read("r", "fd", 1, {1}) \o expect({<<i \div 2>>}))
  \o read("r", "fd", 1, {0}) \o close("fd") \o unlink(<<"bigfile">>, ANY)

bigdir ==
  unlink(<<"bd">>, ANY) \o open("fd", <<"bd">>, CREATE, OK) \o close("fd")
  \o times(Rounds, LAMBDA i : link(<<"bd">>, <<name(3, i)>>, {0})) \o unlink(<<"bd">>, ANY)
  \o times(Rounds, LAMBDA i : unlink(<<name(3, i)>>, {0}))

unlinkread ==
  open("fd", <<"unlinkread">>, CREATERW, OK) \o write("fd", <<"h", "e">>) \o close("fd")
  \o open("fd", <<"unlinkread">>, RDWR, OK) \o unlink(<<"unlinkread">>, {0})
  \o open("fd1", <<"unlinkread">>, CREATERW, ANY) \o write("fd1", <<"y">>) \o close("fd1")
  \o read("r", "fd", 9, {2}) \o expect({<<"h", "e">>}) \o write("fd", reps(3, "z")) \o close("fd")
  \o unlink(<<"unlinkread">>, ANY)

linktest ==
  unlink(<<"lf1">>, ANY) \o unlink(<<"lf2">>, ANY)
  \o open("fd", <<"lf1">>, CREATERW, OK) \o write("fd", <<"h", "e">>) \o close("fd")
  \o link(<<"lf1">>, <<"lf2">>, OK) \o unlink(<<"lf1">>, ANY) \o open("r", <<"lf1">>, RDONLY, NO)
  \o open("fd", <<"lf2">>, RDONLY, OK) \o read("r", "fd", 9, {2}) \o close("fd")
  \o link(<<"lf2">>, <<"lf2">>, NO) \o unlink(<<"lf2">>, ANY)
  \o link(<<"lf2">>, <<"lf1">>, NO) \o link(<<".">>, <<"lf1">>, NO)
-----------------------------------------------------------------------------
(* usertests.c: several processes on the same files *)

sharedfd ==
  LET writes(c) == times(Rounds, LAMBDA i : write("fd", <<c>>))
      halves == {s \in [1 .. 2 * Rounds -> {"c", "p"}] : Len(SelectSeq(s, LAMBDA x : x = "c")) = Rounds}
  IN  unlink(<<"sharedfd">>, ANY) \o open("fd", <<"sharedfd">>, CREATERW, OK)
      \o fork("pid", writes("c") \o exit, ANY) \o writes("p") \o wait("r", ANY) \o close("fd")
      \o open("fd", <<"sharedfd">>, RDONLY, OK) \o readall("fd", 1, 1) \o expect(halves)
      \o close("fd") \o unlink(<<"sharedfd">>, ANY)

fourfiles ==
  times(Children, LAMBDA pi :
    unlink(<<name(2, pi)>>, ANY)
    \o fork("pid", open("fd", <<name(2, pi)>>, CREATERW, OK) \o times(Rounds, LAMBDA i : write("fd", <<pi>>)) \o exit, OK))
  \o times(Children, LAMBDA pi : wait("r", ANY))
  \o times(2, LAMBDA i :
       open("fd", <<name(2, i)>>, RDONLY, ANY) \o readall("fd", 9, 9) \o close("fd")
       \o expect({reps(Rounds, i)}) \o unlink(<<name(2, i)>>, ANY))

\* The names of the last loop follow i in both characters, so most files stay.
createdelete ==
  LET N == 2 * Rounds
      child(pi) == times(N, LAMBDA i :
                     open("fd", <<name(pi, i)>>, CREATERW, OK) \o close("fd")
                     \o IF i > 0 /\ i % 2 = 0 THEN unlink(<<name(pi, i \div 2)>>, OK) ELSE <<>>) \o exit
  IN  times(Children, LAMBDA pi : fork("pid", child(pi), OK)) \o times(Children, LAMBDA pi : wait("r", ANY))
      \o times(N, LAMBDA i : times(Children, LAMBDA pi :
           open("fd", <<name(pi, i)>>, RDONLY, IF i = 0 \/ i >= N \div 2 THEN OK ELSE NO) \o close("fd")))
      \o times(N, LAMBDA i : times(Children, LAMBDA pi : unlink(<<name(i, i)>>, ANY)))

concreate ==
  LET N == Rounds + 1
      file(i) == <<name(4, i)>>
      made(i) == open("fd", file(i), CREATERW, OK) \o close("fd")
      linked(i) == link(file(0), file(i), ANY)
      opens(i) == times(2, LAMBDA n : open("fd", file(i), RDONLY, ANY) \o close("fd"))
      unlinks(i) == times(2, LAMBDA n : unlink(file(i), ANY))
  IN  times(N, LAMBDA i :
        unlink(file(i), ANY) \o fork("pid", (IF i % 5 = 1 THEN linked(i) ELSE made(i)) \o exit, OK)
        \o (IF i % 3 = 1 THEN linked(i) ELSE made(i)) \o wait("r", ANY))
      \o open("fd", <<".">>, RDONLY, ANY) \o readall("fd", 1, 1) \o close("fd")
      \o listed({name(4, i) : i \in 0 .. N - 1})
      \o times(N, LAMBDA i :
           fork("pid", (IF i % 3 = 0 THEN opens(i) ELSE unlinks(i)) \o exit, OK)
           \o (IF i % 3 = 1 THEN opens(i) ELSE unlinks(i)) \o wait("r", ANY))

linkunlink ==
  LET any == either({open("fd", <<"x">>, CREATERW, ANY) \o close("fd"), link(<<"cat">>, <<"x">>, ANY), unlink(<<"x">>, ANY)})
      loop == times(Rounds, LAMBDA i : any)
  IN  unlink(<<"x">>, ANY) \o fork("pid", loop \o exit, OK) \o loop \o wait("r", ANY)
-----------------------------------------------------------------------------
(* usertests.c: processes, pipes and memory *)

pipe1 ==
  LET bytes == [i \in 1 .. Rounds * PipeUnits |-> i - 1]
  IN  pipe({0})
      \o fork("pid", close("p0")
                     \o times(Rounds, LAMBDA n : write("p1", SubSeq(bytes, n * PipeUnits + 1, (n + 1) * PipeUnits)))
                     \o exit, OK)
      \o close("p1") \o readall("p0", 1, 2 * PipeUnits) \o expect({bytes}) \o close("p0") \o wait("r", ANY)

preempt ==
  fork("pid1", spin, ANY) \o fork("pid2", spin, ANY) \o pipe(ANY)
  \o fork("pid3", close("p0") \o write("p1", <<"x">>) \o close("p1") \o spin, ANY)
  \o close("p1") \o read("r", "p0", 9, {1}) \o close("p0")
  \o kill("pid1") \o kill("pid2") \o kill("pid3") \o wait("r", ANY) \o wait("r", ANY) \o wait("r", ANY)

exitwait == times(Rounds, LAMBDA i : fork("pid", exit, OK) \o wait("r", ANY) \o same("r", "pid", 0))

forktest ==
  fork("pid", exit, ANY) \o while("pid", add("n", 1) \o fork("pid", exit, ANY))
  \o while("n", wait("r", OK) \o add("n", -1)) \o wait("r", NO)

\* malloc() until sbrk() fails, counting the chunks of morecore() in n.  free() keeps them
\* all and joins their blocks again (Umalloc), so malloc(1024*20), less than a chunk, is
\* served when there is one and asks sbrk() again when there is none.
mem ==
  getpid("ppid")
  \o fork("pid", sbrk("a", Page, ANY) \o while("a", add("n", 1) \o sbrk("a", Page, ANY))
                 \o add("n", -1) \o ifneg("n", sbrk("a", Page, ANY) \o ifneg("a", kill("ppid") \o fail))
                 \o exit, OK)
  \o wait("r", ANY)

sbrktest ==
  LET bytes == times(Rounds, LAMBDA i : sbrk("b", 1, ANY) \o same("b", "a", 0) \o poke("b", 1) \o add("a", 1))
      postfork == sbrk("c", 1, ANY) \o sbrk("c", 1, ANY) \o same("c", "a", 1)
      big == sbrk("a", 0, OK) \o <<[op |-> "growto", to |-> "p", n |-> Big]>>
      page == sbrk("a", 0, OK) \o sbrk("c", -Page, OK) \o sbrk("c", 0, OK) \o same("c", "a", -Page)
              \o sbrk("a", 0, OK) \o sbrk("c", Page, ANY) \o same("c", "a", 0) \o sbrk("c", 0, OK) \o same("c", "a", Page)
      kernel == fork("pid", peek("kernbase") \o fail, OK) \o wait("r", ANY)
      pid(i) == <<"pid1", "pid2", "pid3">>[i + 1]
  IN  sbrk("oldbrk", 0, OK) \o sbrk("a", 0, OK) \o bytes
      \o fork("pid", postfork \o exit, OK) \o postfork \o wait("r", ANY)
      \o big \o same("p", "a", 0) \o poke("last", 9) \o page \o peek("last") \o expect({<<0>>})
      \o <<[op |-> "shrinkto", v |-> "oldbrk"]>> \o kernel
      \o pipe({0})
      \o times(Children, LAMBDA i :
           fork(pid(i), <<[op |-> "growto", to |-> "p", n |-> Big]>> \o write("p1", <<"x">>) \o spin, ANY)
           \o <<[op |-> "ifpos", v |-> pid(i), body |-> read("r", "p0", 1, ANY)]>>)
      \o sbrk("c", Page, ANY)
      \o times(Children, LAMBDA i : <<[op |-> "ifpos", v |-> pid(i), body |-> kill(pid(i)) \o wait("r", ANY)]>>)
      \o ifneg("c", fail) \o <<[op |-> "shrinkto", v |-> "oldbrk"]>> \o close("p0") \o close("p1")

\* The kernel refuses the bad pointers; the child is killed or ends.
validatetest ==
  times(Rounds, LAMBDA p :
    fork("pid", exit, ANY) \o kill("pid") \o wait("r", ANY) \o link(<<"nosuchfile">>, <<"bad">>, NO))

argptest == open("fd", <<"init">>, RDONLY, OK) \o read("r", "fd", -1, ANY) \o close("fd")

uio == fork("pid", trap \o fail, OK) \o wait("r", ANY)
-----------------------------------------------------------------------------
(* Programs *)

echo(x) == write("stdout", <<x>>) \o exit

\* mkdir.c of one directory
makedir(path) == mkdir(path, ANY) \o exit

\* cat(): copy a descriptor to the standard output.
copyout(fd) == read("n", fd, 2, ANY) \o while("n", copy("stdout") \o read("n", fd, 2, ANY)) \o ifneg("n", exit)
cat == copyout("stdin") \o exit
catfile(file) == open("fd", file, RDONLY, ANY) \o ifneg("fd", exit) \o copyout("fd") \o close("fd") \o exit

\* Exec of more argument bytes than the stack page holds fails.
bigargtest ==
  unlink(<<"bigarg-ok">>, ANY)
  \o fork("pid", exec(<<"echo">>, Page + 1, fail) \o open("fd", <<"bigarg-ok">>, CREATE, ANY) \o close("fd") \o exit, OK)
  \o wait("r", ANY) \o open("fd", <<"bigarg-ok">>, RDONLY, OK) \o close("fd") \o unlink(<<"bigarg-ok">>, ANY)

exectest == exec(<<"echo">>, 1, echo("ok"))

\* Each process but the last forks the next; all write and read back a file of their own.
stressfs[i \in 0 .. Children] ==
  LET path == <<name(5, i)>>
  IN  (IF i = Children THEN <<>> ELSE fork("pid", stressfs[i + 1], ANY))
      \o open("fd", path, CREATERW, ANY) \o times(Rounds, LAMBDA n : write("fd", <<"a">>)) \o close("fd")
      \o open("fd", path, RDONLY, ANY) \o times(Rounds, LAMBDA n : read("r", "fd", 1, {1})) \o close("fd")
      \o wait("r", ANY) \o exit

zombie == fork("pid", exit, ANY) \o exit

init ==
  open("fd", <<"console">>, RDWR, ANY)
  \o ifneg("fd", mknod(<<"console">>) \o open("fd", <<"console">>, RDWR, ANY))
  \o dup("stdin") \o dup("stdin") \o fstat("stdout", {0})
  \o fork("pid", exec(<<"sh">>, 1, write("stdout", <<"$">>) \o exit) \o exit, ANY)
  \o wait("wpid", OK) \o same("wpid", "pid", 0)
-----------------------------------------------------------------------------
(* sh.c: runcmd() of a parsed command *)

Exec(path, program) == [type |-> "exec", path |-> path, prog |-> program]
Redir(cmd, file, mode, fd) == [type |-> "redir", cmd |-> cmd, file |-> file, mode |-> mode, fd |-> fd]
Pipe(left, right) == [type |-> "pipe", left |-> left, right |-> right]
List(left, right) == [type |-> "list", left |-> left, right |-> right]
Back(cmd) == [type |-> "back", cmd |-> cmd]
Cd(path) == [type |-> "cd", path |-> path]

\* printf(2, ...), a message as one unit
complain(x) == write("stderr", <<x>>)

\* Mutant: the shell keeps its write end of the pipe while it waits.
closesOne == close("p0")

\* The parent closes both ends, or the right side would never see the end.
closesBoth == close("p0") \o close("p1")

\* fork1() ends the shell when it cannot fork.
fork1(child) == fork("pid", child, ANY) \o ifneg("pid", exit)

RECURSIVE runcmd(_)
runcmd(cmd) ==
  CASE cmd.type = "exec" -> exec(cmd.path, 1, cmd.prog) \o complain("exec failed") \o exit
    [] cmd.type = "redir" -> close(cmd.fd) \o open("r", cmd.file, cmd.mode, ANY)
                             \o ifneg("r", complain("open failed") \o exit) \o runcmd(cmd.cmd)
    [] cmd.type = "list" -> fork1(runcmd(cmd.left)) \o wait("r", ANY) \o runcmd(cmd.right)
    [] cmd.type = "pipe" ->
         pipe(ANY) \o ifneg("r", exit)
         \o fork1(close("stdout") \o dup("p1") \o close("p0") \o close("p1") \o runcmd(cmd.left))
         \o fork1(close("stdin") \o dup("p0") \o close("p0") \o close("p1") \o runcmd(cmd.right))
         \o closesBoth \o wait("r", ANY) \o wait("r", ANY) \o exit
    [] cmd.type = "back" -> fork1(runcmd(cmd.cmd)) \o exit

\* A line of main(): the shell itself changes its directory, a child runs any other command.
runline(cmd) ==
  IF cmd.type = "cd" THEN chdir(cmd.path, ANY) \o ifneg("r", complain("cannot cd"))
  ELSE fork1(runcmd(cmd)) \o wait("r", ANY)

\* main(): three descriptors are open; what the commands printed is then checked.
sh(cmds, output) ==
  open("fd", <<"console">>, RDWR, ANY) \o close("fd")
  \o times(Len(cmds), LAMBDA i : runline(cmds[i + 1])) \o printed(output)

Echo(x) == Exec(<<"echo">>, echo(x))
Cat == Exec(<<"cat">>, cat)
shells ==
  {sh(<<Pipe(Echo("a"), Cat)>>, {<<"a">>}),
   sh(<<Pipe(Echo("a"), Pipe(Cat, Cat))>>, {<<"a">>}),
   sh(<<Pipe(Exec(<<"none">>, exit), Cat)>>, {<<"exec failed">>}),
   sh(<<List(Redir(Echo("b"), <<"f">>, CREATERW, "stdout"), Exec(<<"cat">>, catfile(<<"f">>)))>>, {<<"b">>}),
   sh(<<Redir(Cat, <<"none">>, RDONLY, "stdin"), Pipe(Echo("a"), Redir(Cat, <<"none">>, RDONLY, "stdin"))>>,
      {<<"open failed", "open failed">>}),
   sh(<<List(Back(Echo("c")), Echo("d"))>>, {<<"d">>, <<"c", "d">>, <<"d", "c">>}),
   sh(<<Exec(<<"mkdir">>, makedir(<<"d">>)), Cd(<<"d">>), Echo("c"),
        Redir(Exec(<<"..", "echo">>, echo("b")), <<"f">>, CREATERW, "stdout"),
        Cd(<<"f">>), Cd(<<"..">>), Exec(<<"cat">>, catfile(<<"d", "f">>))>>,
      {<<"exec failed", "cannot cd", "b">>})}
==============================================================================

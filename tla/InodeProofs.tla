---------------------------- MODULE InodeProofs ------------------------------
(***************************************************************************)
(* Proofs about inodes and directories (Inode): every step of the system   *)
(* calls and every crash keeps InodeInv, so the inode cache is consistent, *)
(* ilock(), iget() on a removed directory and sys_unlink() do not panic,   *)
(* and the disk and what recovery finds are sound file systems.            *)
(***************************************************************************)
EXTENDS InodeLemmas

\* A process has its inode in ip, has it locked or has just unlocked it, and puts it;
\* sys_open() keeps it.
Ready(p) ==
  LET r == proc[p] IN
  /\ r.pc \in {"open", "cr_exists", "cr_done", "ln_lock", "chdir"}
  /\ Touched(p, icache, r.ip) /\ icache'[r.ip].lock = Nobody /\ disk' = disk

\* What such a process has in its record and in the cache.
LEMMA ReadyFacts ==
  ASSUME InodeInv, NEW p \in Procs, Ready(p)
  PROVE  LET r == proc[p] IN
         /\ r \in Records /\ Shape(r) /\ PathOk(r) /\ icache \in [Slots -> Entries]
         /\ r.pc \in {"open", "cr_exists", "cr_done", "ln_lock", "chdir"}
         /\ at(r) = r.pc /\ r.ip # 0 /\ r.ip \in Slots
         /\ r.dp = 0 /\ r.old = 0 /\ r.x = 0 /\ r.ret = "end" /\ r.ino = 0
         /\ \A u \in Slots : u # r.ip => ~Locks(r, u)
<1> DEFINE r == proc[p]
<1>1. r \in Records /\ Shape(r) /\ PathOk(r) /\ icache \in [Slots -> Entries]
  BY Mine
<1>2. r.pc \in {"open", "cr_exists", "cr_done", "ln_lock", "chdir"}
  BY DEF Ready
<1> HIDE DEF r
<1>3. at(r) = r.pc /\ r.ip # 0 /\ r.dp = 0 /\ r.old = 0 /\ r.x = 0 /\ r.ret = "end" /\ r.ino = 0
  BY <1>1, <1>2 DEF Shape, HasDp, HasIp, HasOld, at, Iputs
<1>4. r.ip \in Slots
  BY <1>1, <1>3 DEF Records, Ptrs
<1>5. \A u \in Slots : u # r.ip => ~Locks(r, u)
  BY <1>2, <1>3, Basics DEF Locks, HoldsDp
<1> QED BY <1>1, <1>2, <1>3, <1>4, <1>5 DEF r

\* iput(ip), and the call ends.
LEMMA PutIp ==
  ASSUME InodeInv, NEW p \in Procs, Ready(p), IputThen(p, [proc[p] EXCEPT !.ip = 0], proc[p].ip, "end")
  PROVE  InodeInv'
<1> DEFINE r == proc[p]  N == proc'[p]
<1>0. /\ r \in Records /\ Shape(r) /\ PathOk(r) /\ icache \in [Slots -> Entries]
      /\ r.pc \in {"open", "cr_exists", "cr_done", "ln_lock", "chdir"}
  BY ReadyFacts
<1>a. at(r) = r.pc /\ r.ip # 0 /\ r.ip \in Slots /\ r.dp = 0 /\ r.old = 0 /\ r.x = 0 /\ r.ret = "end" /\ r.ino = 0
  BY ReadyFacts
<1>2. disk' = disk
  BY DEF Ready
<1>3. Touched(p, icache, r.ip) /\ icache'[r.ip].lock = Nobody
  BY DEF Ready
<1>b. Nobody # p
  BY InodeAssumption
<1>c. \A u \in Slots : u # r.ip => ~Locks(r, u)
  BY ReadyFacts
<1>4. IputThen(p, [r EXCEPT !.ip = 0], r.ip, "end")
  OBVIOUS
<1> HIDE DEF r, N
<1> DEFINE m == [r EXCEPT !.ip = 0]
<1>11. m \in Records
  BY <1>0 DEF Records, Ptrs
<1>12. /\ m.fd = r.fd /\ m.cwd = r.cwd /\ m.call = r.call /\ m.path = r.path /\ m.new = r.new
      /\ m.dp = r.dp /\ m.ip = 0 /\ m.old = r.old /\ m.x = r.x /\ m.ret = r.ret /\ m.ino = r.ino
  BY <1>0 DEF Records
<1>13. IputThen(p, m, r.ip, "end") /\ "end" \in Pcs /\ r.ip \in Ptrs
  BY <1>0, <1>a, <1>4 DEF Pcs, Ptrs
<1> HIDE DEF m
<1>14. /\ Framed(p) /\ N \in Records /\ N.pc = "iput"
      /\ N.fd = r.fd /\ N.cwd = r.cwd /\ N.call = r.call /\ N.path = r.path /\ N.new = r.new
      /\ N.dp = r.dp /\ N.ip = 0 /\ N.old = r.old /\ N.x = r.ip /\ N.ret = "end" /\ N.ino = r.ino
  BY <1>11, <1>12, <1>13, IputFacts DEF N
<1>15. at(N) = "end" /\ (\A u \in Slots : ~Locks(N, u))
  BY <1>0, <1>a, <1>14, Basics DEF Locks, at, Iputs, HoldsDp, HoldsIp
<1>16. \A u \in Slots : Count(N, u) = Count(r, u)
  BY <1>0, <1>a, <1>14, Basics DEF Count, One
<1>17. Shape(N)
  BY <1>0, <1>a, <1>14, <1>15 DEF Shape, Iputs, Returns, HasDp, HasIp, HasOld
<1>18. PathOk(N)
  BY <1>0, <1>14 DEF PathOk
<1>19. Owes(r, N) /\ Stays(r, N, icache, icache, 0, 0)
  BY <1>0, <1>a, <1>14, <1>15 DEF Owes, Stays, Sees
<1>20. Proceeds(p, icache, 0, 0, r.ip)
  BY ONLY <1>0, <1>2, <1>3, <1>a, <1>b, <1>c, <1>14, <1>15, <1>16, <1>17, <1>18, <1>19 DEF Proceeds, r, N
<1> QED BY <1>20, Proceed

\* sys_open() keeps ip as a descriptor, or puts it.
LEMMA OpenedKeeps ==
  ASSUME InodeInv, NEW p \in Procs, Ready(p), proc[p].call \in {"open", "create"}, Opened(p, proc[p])
  PROVE  InodeInv'
<1> DEFINE r == proc[p]  N == proc'[p]
<1>0. /\ r \in Records /\ Shape(r) /\ PathOk(r) /\ icache \in [Slots -> Entries]
      /\ r.pc \in {"open", "cr_exists", "cr_done", "ln_lock", "chdir"}
  BY ReadyFacts
<1>a. /\ at(r) = r.pc /\ r.ip # 0 /\ r.ip \in Slots /\ r.dp = 0 /\ r.old = 0 /\ r.x = 0 /\ r.ret = "end" /\ r.ino = 0
      /\ r.fd = 0
  <2>1. /\ at(r) = r.pc /\ r.ip # 0 /\ r.ip \in Slots /\ r.dp = 0 /\ r.old = 0 /\ r.x = 0 /\ r.ret = "end" /\ r.ino = 0
    BY ReadyFacts
  <2> QED BY <1>0, <2>1 DEF Shape
<1>2. disk' = disk
  BY DEF Ready
<1>3. Touched(p, icache, r.ip) /\ icache'[r.ip].lock = Nobody
  BY DEF Ready
<1>b. Nobody # p
  BY InodeAssumption
<1>c. \A u \in Slots : u # r.ip => ~Locks(r, u)
  BY ReadyFacts
<1>5. CASE IputThen(p, [r EXCEPT !.ip = 0], r.ip, "end")
  BY <1>5, PutIp
<1>6. Opened(p, r)
  OBVIOUS
<1> HIDE DEF r, N
<1>4. CASE Goto(p, [r EXCEPT !.fd = r.ip, !.ip = 0], "end")
  <2> DEFINE m == [r EXCEPT !.fd = r.ip, !.ip = 0]
  <2>1. m \in Records
    BY <1>0 DEF Records, Ptrs
  <2>2. /\ m.fd = r.ip /\ m.cwd = r.cwd /\ m.call = r.call /\ m.path = r.path /\ m.new = r.new
        /\ m.dp = r.dp /\ m.ip = 0 /\ m.old = r.old /\ m.x = r.x /\ m.ret = r.ret /\ m.ino = r.ino
    BY <1>0 DEF Records
  <2>3. Goto(p, m, "end") /\ "end" \in Pcs
    BY <1>0, <1>a, <1>4 DEF Pcs, Ptrs
  <2> HIDE DEF m
  <2>4. /\ Framed(p) /\ N \in Records /\ N.pc = "end"
        /\ N.fd = r.ip /\ N.cwd = r.cwd /\ N.call = r.call /\ N.path = r.path /\ N.new = r.new
        /\ N.dp = r.dp /\ N.ip = 0 /\ N.old = r.old /\ N.x = r.x /\ N.ret = r.ret /\ N.ino = r.ino
    BY <2>1, <2>2, <2>3, GotoFacts DEF N
  <2>5. at(N) = "end" /\ (\A u \in Slots : ~Locks(N, u))
    BY <1>0, <1>a, <2>4, Basics DEF Locks, at, Iputs, HoldsDp, HoldsIp
  <2>6. \A u \in Slots : Count(N, u) = Count(r, u)
    BY <1>0, <1>a, <2>4, Basics DEF Count, One
  <2>7. Shape(N)
    BY <1>0, <1>a, <2>4, <2>5 DEF Shape, Iputs, Returns, HasDp, HasIp, HasOld
  <2>8. PathOk(N)
    BY <1>0, <2>4 DEF PathOk
  <2>9. Owes(r, N) /\ Stays(r, N, icache, icache, 0, 0)
    BY <1>0, <1>a, <2>4, <2>5 DEF Owes, Stays, Sees
  <2>10. Proceeds(p, icache, 0, 0, r.ip)
    BY ONLY <1>0, <1>2, <1>3, <1>a, <1>b, <1>c, <2>4, <2>5, <2>6, <2>7, <2>8, <2>9 DEF Proceeds, r, N
  <2> QED BY <2>10, Proceed
<1> QED BY <1>4, <1>5, <1>6 DEF Opened

\* sys_open() has its inode.
LEMMA openKeeps == ASSUME InodeInv, NEW p \in Procs, open(p) PROVE InodeInv'
<1> DEFINE r == proc[p]
<1>0. /\ Shape(r) /\ r.pc = "open" /\ Unlocked(r.ip)
      /\ r.ip # 0 /\ r.ip \in Slots /\ icache[r.ip].ref > 0 /\ Count(r, r.ip) > 0
      /\ disk.ino[icache[r.ip].inum].type # "none" /\ icache \in [Slots -> Entries]
  BY Mine DEF open, Shape, HasIp, at, Iputs
<1>1. ~NoType(r.ip)
  BY <1>0, Read DEF NoType
<1>2. icache' = read(icache, r.ip) /\ disk' = disk /\ Opened(p, r)
  BY <1>1 DEF open, NoType, Panic, Stop
<1>3. Ready(p)
  BY <1>0, <1>2, CacheRead DEF Ready
<1>4. r.call = "open"
  BY <1>0 DEF Shape, at, Iputs
<1> QED BY <1>2, <1>3, <1>4, OpenedKeeps

\* create() found a file or a directory.
LEMMA cr_existsKeeps == ASSUME InodeInv, NEW p \in Procs, cr_exists(p) PROVE InodeInv'
<1> DEFINE r == proc[p]
<1>0. /\ Shape(r) /\ r.pc = "cr_exists" /\ Unlocked(r.ip)
      /\ r.ip # 0 /\ r.ip \in Slots /\ icache[r.ip].ref > 0 /\ Count(r, r.ip) > 0
      /\ disk.ino[icache[r.ip].inum].type # "none" /\ icache \in [Slots -> Entries]
  BY Mine, Zenon DEF cr_exists, Shape, HasIp, at, Iputs
<1>1. ~NoType(r.ip)
  BY <1>0, Read DEF NoType
<1>2. /\ icache' = read(icache, r.ip) /\ disk' = disk
      /\ \/ r.call = "create" /\ Opened(p, r)
         \/ IputThen(p, [r EXCEPT !.ip = 0], r.ip, "end")
  BY <1>1 DEF cr_exists, NoType, Panic, Stop
<1>3. Ready(p)
  BY <1>0, <1>2, CacheRead DEF Ready
<1> QED BY <1>2, <1>3, OpenedKeeps, PutIp

\* create() is done, with ip locked.
LEMMA cr_doneKeeps == ASSUME InodeInv, NEW p \in Procs, cr_done(p) PROVE InodeInv'
<1> DEFINE r == proc[p]
<1>0. /\ Shape(r) /\ r.pc = "cr_done"
      /\ r.ip # 0 /\ r.ip \in Slots /\ icache[r.ip].ref > 0 /\ Count(r, r.ip) > 0
  BY Mine DEF cr_done, Shape, HasIp, at, Iputs
<1>1. Locks(r, r.ip)
  BY <1>0 DEF Locks, at, Iputs, HoldsIp
<1>2. /\ icache' = held(icache, r.ip, Nobody) /\ disk' = disk
      /\ \/ r.call = "create" /\ Opened(p, r)
         \/ IputThen(p, [r EXCEPT !.ip = 0], r.ip, "end")
  BY DEF cr_done
<1>3. Ready(p)
  BY <1>0, <1>1, <1>2, CacheReleased DEF Ready
<1> QED BY <1>2, <1>3, OpenedKeeps, PutIp

\* A process has locked dp, or just unlocked it, and puts it.
ReadyDp(p, label) ==
  LET r == proc[p] IN
  /\ \/ r.pc \in {"unlink", "ul_bad"} /\ label = "end"
     \/ r.pc = "ln_exists" /\ label = "ln_bad"
  /\ Touched(p, icache, r.dp) /\ icache'[r.dp].lock = Nobody /\ disk' = disk

\* iput(dp)
LEMMA PutDp ==
  ASSUME InodeInv, NEW p \in Procs, NEW label, ReadyDp(p, label), IputThen(p, [proc[p] EXCEPT !.dp = 0], proc[p].dp, label)
  PROVE  InodeInv'
<1> DEFINE r == proc[p]  N == proc'[p]
<1>0. /\ r \in Records /\ Shape(r) /\ PathOk(r) /\ icache \in [Slots -> Entries]
      /\ r.pc \in {"unlink", "ul_bad", "ln_exists"}
  BY Mine DEF ReadyDp
<1>d. /\ r.pc \in {"unlink", "ul_bad"} => label = "end"
      /\ r.pc = "ln_exists" => label = "ln_bad"
      /\ label \in Pcs
  BY DEF ReadyDp, Pcs
<1>2. disk' = disk
  BY DEF ReadyDp
<1>3. Touched(p, icache, r.dp) /\ icache'[r.dp].lock = Nobody
  BY DEF ReadyDp
<1>b. Nobody # p
  BY InodeAssumption
<1>4. IputThen(p, [r EXCEPT !.dp = 0], r.dp, label)
  OBVIOUS
<1> HIDE DEF r, N
<1>e. at(r) = r.pc /\ r.ip = 0 /\ r.dp # 0 /\ r.x = 0 /\ r.ret = "end" /\ r.ino = 0
      /\ (r.pc # "ln_exists" => r.old = 0) /\ (r.pc = "ln_exists" => r.old # 0)
  BY <1>0 DEF Shape, HasDp, HasIp, HasOld, at, Iputs
<1>a. at(r) = r.pc /\ r.ip = 0 /\ r.dp # 0 /\ r.x = 0 /\ r.ret = "end" /\ r.ino = 0
      /\ (r.pc # "ln_exists" => r.old = 0) /\ (r.pc = "ln_exists" => r.old # 0)
      /\ r.dp \in Slots
  BY <1>0, <1>e DEF Records, Ptrs
<1>c. \A u \in Slots : u # r.dp => ~Locks(r, u)
  BY <1>0, <1>a, Basics DEF Locks, HoldsIp
<1> DEFINE m == [r EXCEPT !.dp = 0]
<1>11. m \in Records
  BY <1>0, <1>d DEF Records, Ptrs
<1>12. /\ m.fd = r.fd /\ m.cwd = r.cwd /\ m.call = r.call /\ m.path = r.path /\ m.new = r.new
      /\ m.dp = 0 /\ m.ip = r.ip /\ m.old = r.old /\ m.x = r.x /\ m.ret = r.ret /\ m.ino = r.ino
  BY <1>0 DEF Records
<1>13. IputThen(p, m, r.dp, label) /\ label \in Pcs /\ r.dp \in Ptrs
  BY <1>0, <1>a, <1>4, <1>d DEF Pcs, Ptrs
<1> HIDE DEF m
<1>14. /\ Framed(p) /\ N \in Records /\ N.pc = "iput"
      /\ N.fd = r.fd /\ N.cwd = r.cwd /\ N.call = r.call /\ N.path = r.path /\ N.new = r.new
      /\ N.dp = 0 /\ N.ip = r.ip /\ N.old = r.old /\ N.x = r.dp /\ N.ret = label /\ N.ino = r.ino
  BY <1>11, <1>12, <1>13, IputFacts DEF N
<1>15. at(N) = label /\ (\A u \in Slots : ~Locks(N, u))
  BY <1>0, <1>a, <1>14, Basics, <1>d DEF Locks, at, Iputs, HoldsDp, HoldsIp
<1>16. \A u \in Slots : Count(N, u) = Count(r, u)
  BY <1>0, <1>a, <1>14, Basics DEF Count, One
<1>17. Shape(N)
  BY <1>0, <1>a, <1>14, <1>15, <1>d DEF Shape, Iputs, Returns, HasDp, HasIp, HasOld
<1>18. PathOk(N)
  BY <1>0, <1>14, <1>d DEF PathOk
<1>19. Owes(r, N) /\ Stays(r, N, icache, icache, 0, 0)
  BY <1>0, <1>a, <1>14, <1>15, <1>d DEF Owes, Stays, Sees
<1>20. Proceeds(p, icache, 0, 0, r.dp)
  BY ONLY <1>0, <1>2, <1>3, <1>a, <1>b, <1>c, <1>14, <1>15, <1>16, <1>17, <1>18, <1>19 DEF Proceeds, r, N
<1> QED BY <1>20, Proceed

\* The end of sys_unlink() and of sys_link() when nothing was done.
LEMMA ReleaseKeeps ==
  ASSUME InodeInv, NEW p \in Procs, ul_bad(p) \/ ln_exists(p)
  PROVE  InodeInv'
<1> DEFINE r == proc[p]
<1>0. /\ Shape(r) /\ r.pc \in {"ul_bad", "ln_exists"}
      /\ r.dp # 0 /\ r.dp \in Slots /\ icache[r.dp].ref > 0 /\ Count(r, r.dp) > 0
  BY Mine DEF ul_bad, ln_exists, Shape, HasDp, at, Iputs
<1>1. Locks(r, r.dp)
  BY <1>0 DEF Locks, at, Iputs, HoldsDp
<1>2. /\ icache' = held(icache, r.dp, Nobody) /\ disk' = disk
  BY DEF ul_bad, ln_exists, Release
<1>3. Touched(p, icache, r.dp) /\ icache'[r.dp].lock = Nobody
  BY <1>0, <1>1, <1>2, CacheReleased
<1>4. CASE ul_bad(p)
  <2>1. ReadyDp(p, "end")
    BY <1>2, <1>3, <1>4 DEF ReadyDp, ul_bad
  <2>2. IputThen(p, [proc[p] EXCEPT !.dp = 0], proc[p].dp, "end")
    BY <1>4 DEF ul_bad, Release
  <2> QED BY <2>1, <2>2, PutDp
<1>5. CASE ln_exists(p)
  <2>1. ReadyDp(p, "ln_bad")
    BY <1>2, <1>3, <1>5 DEF ReadyDp, ln_exists
  <2>2. IputThen(p, [proc[p] EXCEPT !.dp = 0], proc[p].dp, "ln_bad")
    BY <1>5 DEF ln_exists, Release
  <2> QED BY <2>1, <2>2, PutDp
<1> QED BY <1>4, <1>5

\* sys_link() puts the file it linked.
LEMMA ln_putKeeps == ASSUME InodeInv, NEW p \in Procs, ln_put(p) PROVE InodeInv'
<1> DEFINE r == proc[p]  N == proc'[p]
<1>0. /\ r \in Records /\ Shape(r) /\ PathOk(r) /\ icache \in [Slots -> Entries] /\ r.pc = "ln_put"
  BY Mine DEF ln_put
<1>2. disk' = disk /\ icache' = icache
  BY DEF ln_put
<1>3. Touched(p, icache, 0)
  BY <1>2, CacheKept
<1>b. Nobody # p
  BY InodeAssumption
<1>4. IputThen(p, [r EXCEPT !.old = 0], r.old, "end")
  BY DEF ln_put
<1> HIDE DEF r, N
<1>d. r.old \in Ptrs
  BY <1>0 DEF Records
<1>a. at(r) = "ln_put" /\ r.ip = 0 /\ r.dp = 0 /\ r.x = 0 /\ r.ret = "end" /\ r.ino = 0 /\ r.old # 0
  BY <1>0 DEF Shape, HasDp, HasIp, HasOld, at, Iputs
<1>c. \A u \in Slots : ~Locks(r, u)
  BY <1>0, <1>a, Basics DEF Locks, HoldsIp, HoldsDp
<1> DEFINE m == [r EXCEPT !.old = 0]
<1>11. m \in Records
  BY <1>0, <1>d DEF Records, Ptrs
<1>12. /\ m.fd = r.fd /\ m.cwd = r.cwd /\ m.call = r.call /\ m.path = r.path /\ m.new = r.new
      /\ m.dp = r.dp /\ m.ip = r.ip /\ m.old = 0 /\ m.x = r.x /\ m.ret = r.ret /\ m.ino = r.ino
  BY <1>0 DEF Records
<1>13. IputThen(p, m, r.old, "end") /\ "end" \in Pcs /\ r.old \in Ptrs
  BY <1>0, <1>a, <1>4, <1>d DEF Pcs, Ptrs
<1> HIDE DEF m
<1>14. /\ Framed(p) /\ N \in Records /\ N.pc = "iput"
      /\ N.fd = r.fd /\ N.cwd = r.cwd /\ N.call = r.call /\ N.path = r.path /\ N.new = r.new
      /\ N.dp = r.dp /\ N.ip = r.ip /\ N.old = 0 /\ N.x = r.old /\ N.ret = "end" /\ N.ino = r.ino
  BY <1>11, <1>12, <1>13, IputFacts DEF N
<1>15. at(N) = "end" /\ (\A u \in Slots : ~Locks(N, u))
  BY <1>0, <1>a, <1>14, Basics DEF Locks, at, Iputs, HoldsDp, HoldsIp
<1>16. \A u \in Slots : Count(N, u) = Count(r, u)
  BY <1>0, <1>a, <1>14, Basics DEF Count, One
<1>17. Shape(N)
  BY <1>0, <1>a, <1>14, <1>15 DEF Shape, Iputs, Returns, HasDp, HasIp, HasOld
<1>18. PathOk(N)
  BY <1>0, <1>14 DEF PathOk
<1>19. Owes(r, N) /\ Stays(r, N, icache, icache, 0, 0)
  BY <1>0, <1>a, <1>14, <1>15 DEF Owes, Stays, Sees
<1>20. Proceeds(p, icache, 0, 0, 0)
  BY ONLY <1>0, <1>2, <1>3, <1>a, <1>b, <1>c, <1>14, <1>15, <1>16, <1>17, <1>18, <1>19 DEF Proceeds, r, N
<1> QED BY <1>20, Proceed

\* iput(): the last reference to an inode without links takes the lock.
LEMMA iputKeeps == ASSUME InodeInv, NEW p \in Procs, iput(p) PROVE InodeInv'
<1> DEFINE r == proc[p]  N == proc'[p]
<1>0. r \in Records /\ Shape(r) /\ PathOk(r) /\ r.pc = "iput" /\ r.x # 0
      /\ r.x \in Slots /\ icache[r.x].ref > 0 /\ Count(r, r.x) > 0 /\ Unlocked(r.x)
      /\ disk.ino[icache[r.x].inum].type # "none" /\ icache \in [Slots -> Entries]
  BY Mine DEF iput, Shape, Iputs
<1>1. inode(r.x) = disk.ino[icache[r.x].inum]
  BY <1>0, Read
<1>b. Nobody # p /\ p \in Procs
  BY InodeAssumption
<1>2. disk' = disk
  BY DEF iput
<1>3. dead(r.x) => icache[r.x].valid /\ icache[r.x].ref = 1 /\ icache[r.x].di.nlink = 0
                   /\ icache[r.x].di = disk.ino[icache[r.x].inum]
  BY <1>0, <1>1 DEF dead, inode
<1>d. \/ dead(r.x) /\ icache' = held(icache, r.x, p) /\ Goto(p, r, "iput_free")
      \/ ~dead(r.x) /\ Goto(p, r, "iput_ref") /\ icache' = icache
  BY DEF iput
<1>e. icache[r.x].lock = Nobody
  BY <1>0 DEF Unlocked
<1> HIDE DEF r, N
<1>a. at(r) = r.ret /\ (at(r) = "ul_drop" => r.ip # 0)
  BY <1>0 DEF Iputs, at, Shape, HasIp
<1>c. ~Locks(r, r.x)
  BY <1>0, <1>b, <1>e, Mine, Zenon DEF r
<1>4. CASE dead(r.x) /\ icache' = held(icache, r.x, p) /\ Goto(p, r, "iput_free")
  <2>a. /\ icache' \in [Slots -> Entries] /\ \A u \in Slots : u # r.x => icache'[u] = icache[u]
        /\ icache'[r.x].inum = icache[r.x].inum /\ icache'[r.x].ref = icache[r.x].ref
        /\ icache'[r.x].valid = icache[r.x].valid /\ icache'[r.x].di = icache[r.x].di /\ icache'[r.x].lock = p
    <3>1. p \in Procs \union {Nobody}
      OBVIOUS
    <3> QED BY <1>0, <1>4, <3>1, Held
  <2>b. Touched(p, icache, r.x)
    BY ONLY <1>0, <1>3, <1>4, <1>e, <2>a DEF Touched, r
  <2>3. Goto(p, r, "iput_free") /\ "iput_free" \in Pcs
    BY <1>0, <1>a, <1>4 DEF Pcs, Ptrs
  <2>4. /\ Framed(p) /\ N \in Records /\ N.pc = "iput_free"
        /\ N.fd = r.fd /\ N.cwd = r.cwd /\ N.call = r.call /\ N.path = r.path /\ N.new = r.new
        /\ N.dp = r.dp /\ N.ip = r.ip /\ N.old = r.old /\ N.x = r.x /\ N.ret = r.ret /\ N.ino = r.ino
    BY <1>0, <2>3, GotoFacts DEF N
  <2>5. at(N) = at(r) /\ ((\A u \in Slots : u # r.x => (Locks(N, u) <=> Locks(r, u))) /\ Locks(N, r.x))
    BY <1>0, <1>a, <2>4, Basics DEF Locks, at, Iputs, HoldsDp, HoldsIp
  <2>6. \A u \in Slots : Count(N, u) = Count(r, u)
    BY <1>0, <1>a, <2>4, Basics DEF Count, One
  <2>7. Shape(N)
    BY <1>0, <1>a, <2>4, <2>5, <1>c DEF Shape, Iputs, Returns, HasDp, HasIp, HasOld, Locks
  <2>8. PathOk(N)
    BY <1>0, <2>4 DEF PathOk
  <2>9. Owes(r, N) /\ Stays(r, N, icache, icache, 0, 0)
    BY <1>0, <1>a, <2>4, <2>5 DEF Owes, Stays, Sees
  <2>c. /\ icache'[N.x].ref = 1 /\ disk.ino[icache'[N.x].inum].nlink = 0
        /\ icache'[r.x].valid /\ icache'[r.x].lock = p
    BY <1>3, <1>4, <2>4, <2>a
  <2>10. Proceeds(p, icache, 0, 0, r.x)
    BY ONLY <1>0, <1>2, <1>3, <1>a, <1>b, <1>c, <2>4, <2>5, <2>6, <2>7, <2>8, <2>9, <2>a, <2>b,
      <2>c DEF Proceeds, r, N
  <2> QED BY <2>10, Proceed
<1>5. CASE ~dead(r.x) /\ Goto(p, r, "iput_ref") /\ icache' = icache
  <2>b. Touched(p, icache, 0)
    BY <1>5, CacheKept
  <2>3. Goto(p, r, "iput_ref") /\ "iput_ref" \in Pcs
    BY <1>0, <1>a, <1>5 DEF Pcs, Ptrs
  <2>4. /\ Framed(p) /\ N \in Records /\ N.pc = "iput_ref"
        /\ N.fd = r.fd /\ N.cwd = r.cwd /\ N.call = r.call /\ N.path = r.path /\ N.new = r.new
        /\ N.dp = r.dp /\ N.ip = r.ip /\ N.old = r.old /\ N.x = r.x /\ N.ret = r.ret /\ N.ino = r.ino
    BY <1>0, <2>3, GotoFacts DEF N
  <2>5. at(N) = at(r) /\ (\A u \in Slots : Locks(N, u) <=> Locks(r, u))
    BY <1>0, <1>a, <2>4, Basics DEF Locks, at, Iputs, HoldsDp, HoldsIp
  <2>6. \A u \in Slots : Count(N, u) = Count(r, u)
    BY <1>0, <1>a, <2>4, Basics DEF Count, One
  <2>7. Shape(N)
    BY <1>0, <1>a, <2>4, <2>5 DEF Shape, Iputs, Returns, HasDp, HasIp, HasOld
  <2>8. PathOk(N)
    BY <1>0, <2>4 DEF PathOk
  <2>9. Owes(r, N) /\ Stays(r, N, icache, icache, 0, 0)
    BY <1>0, <1>a, <2>4, <2>5 DEF Owes, Stays, Sees
  <2>10. Proceeds(p, icache, 0, 0, 0)
    BY ONLY <1>0, <1>2, <1>3, <1>a, <1>b, <1>c, <2>4, <2>5, <2>6, <2>7, <2>8, <2>9, <2>b DEF Proceeds, r, N
  <2> QED BY <2>10, Proceed
<1> QED BY <1>4, <1>5, <1>d

\* valid = 0 and releasesleep(): the entry is nobody's, and iput() goes on.
LEMMA iput_validKeeps == ASSUME InodeInv, NEW p \in Procs, iput_valid(p) PROVE InodeInv'
<1> DEFINE r == proc[p]  N == proc'[p]
<1>0. r \in Records /\ Shape(r) /\ PathOk(r) /\ r.pc = "iput_valid" /\ r.x # 0
      /\ r.x \in Slots /\ icache[r.x].ref > 0 /\ Count(r, r.x) > 0
      /\ icache \in [Slots -> Entries] /\ \A s \in Slots : icache[s].lock = p <=> Locks(r, s)
  BY Mine DEF iput_valid, Shape, Iputs
<1>1. disk' = disk /\ icache' = held(invalidated(r.x), r.x, Nobody) /\ Goto(p, r, "iput_ref") /\ "iput_ref" \in Pcs
  BY DEF iput_valid, Pcs
<1>2. /\ icache' \in [Slots -> Entries] /\ \A u \in Slots : u # r.x => icache'[u] = icache[u]
      /\ icache'[r.x].inum = icache[r.x].inum /\ icache'[r.x].ref = icache[r.x].ref
      /\ icache'[r.x].valid = FALSE /\ icache'[r.x].lock = Nobody
  <2> HIDE DEF r
  <2> QED BY <1>0, <1>1 DEF held, invalidated, Entries
<1>b. Nobody # p
  BY InodeAssumption
<1>c. icache[r.x].lock = p
  BY <1>0 DEF Locks
<1>4. /\ Framed(p) /\ N \in Records /\ N.pc = "iput_ref"
      /\ N.fd = r.fd /\ N.cwd = r.cwd /\ N.call = r.call /\ N.path = r.path /\ N.new = r.new
      /\ N.dp = r.dp /\ N.ip = r.ip /\ N.old = r.old /\ N.x = r.x /\ N.ret = r.ret /\ N.ino = r.ino
  BY <1>0, <1>1, GotoFacts
<1> HIDE DEF r, N
<1>a. at(r) = r.ret /\ (at(r) = "ul_drop" => r.ip # 0)
  BY <1>0 DEF Iputs, at, Shape, HasIp
<1>5. at(N) = at(r)
  BY <1>0, <1>4 DEF at, Iputs
<1>6. \A u \in Slots : Count(N, u) = Count(r, u)
  BY <1>4 DEF Count
<1>d. (\A u \in Slots : u # r.x => (Locks(N, u) <=> Locks(r, u))) /\ ~Locks(N, r.x)
  BY <1>0, <1>4, <1>5 DEF Locks, Shape
<1>7. Shape(N) /\ PathOk(N)
  BY <1>0, <1>4, <1>5 DEF Shape, Iputs, Returns, HasDp, HasIp, HasOld, PathOk
<1>8. owed(N, icache') = owed(r, icache)
  <2>1. r.ip # 0 => icache'[r.ip].inum = icache[r.ip].inum
    BY <1>0, <1>2 DEF Records, Ptrs
  <2>2. r.old # 0 => icache'[r.old].inum = icache[r.old].inum
    BY <1>0, <1>2 DEF Records, Ptrs
  <2> QED BY <1>4, <1>5, <1>a, <2>1, <2>2 DEF owed
<1>9. Stays(r, N, icache, icache, 0, 0)
  BY <1>0, <1>4 DEF Stays, Sees
<1>10. \A s \in Slots :
         \/ icache'[s] = icache[s] /\ (Locks(N, s) <=> Locks(r, s)) /\ ~(r.pc = "iput_valid" /\ r.x = s)
         \/ /\ Count(r, s) > 0 /\ icache'[s].inum = icache[s].inum /\ icache'[s].ref = icache[s].ref
            /\ icache[s].lock \in {p, Nobody} /\ icache'[s].lock \in {p, Nobody}
            /\ icache'[s].lock = p <=> Locks(N, s)
            /\ icache'[s].valid => icache'[s].di = disk.ino[icache[s].inum] /\ icache'[s].di.type # "none"
            /\ Locks(N, s) => icache'[s].valid
  BY <1>0, <1>2, <1>b, <1>c, <1>d
<1>11. MovesPlainly(p, icache, 0, 0)
  BY ONLY <1>0, <1>1, <1>2, <1>4, <1>6, <1>7, <1>8, <1>9, <1>10, Zenon DEF MovesPlainly, Framed, r, N
<1> QED BY <1>11, PlainMove

\* sys_chdir() puts the old directory, or a file.
LEMMA chdirKeeps == ASSUME InodeInv, NEW p \in Procs, chdir(p) PROVE InodeInv'
<1> DEFINE r == proc[p]  N == proc'[p]
<1>0. /\ r \in Records /\ Shape(r) /\ PathOk(r) /\ r.pc = "chdir" /\ Unlocked(r.ip)
      /\ r.ip # 0 /\ r.ip \in Slots /\ icache[r.ip].ref > 0 /\ Count(r, r.ip) > 0
      /\ disk.ino[icache[r.ip].inum].type # "none" /\ icache \in [Slots -> Entries]
  BY Mine, Zenon DEF chdir, Shape, HasIp, at, Iputs
<1>1. ~NoType(r.ip)
  BY <1>0, Read DEF NoType
<1>2. /\ icache' = read(icache, r.ip) /\ disk' = disk
      /\ \/ inode(r.ip).type = "dir" /\ IputThen(p, [r EXCEPT !.ip = 0, !.cwd = r.ip], r.cwd, "end")
         \/ IputThen(p, [r EXCEPT !.ip = 0, !.cwd = r.cwd], r.ip, "end")
  BY <1>1 DEF chdir, NoType, Panic, Stop
<1>3. Touched(p, icache, r.ip) /\ icache'[r.ip].lock = Nobody
  BY <1>0, <1>2, CacheRead
<1>b. Nobody # p
  BY InodeAssumption
<1> HIDE DEF r, N
<1>a. /\ at(r) = "chdir" /\ r.dp = 0 /\ r.old = 0 /\ r.x = 0 /\ r.ret = "end" /\ r.ino = 0
  BY <1>0 DEF Shape, HasDp, HasOld, at, Iputs
<1>d. r.cwd \in Slots /\ r.cwd # 0
  BY <1>0, Basics DEF Records
<1>c. \A s \in Slots : ~Locks(r, s)
  BY <1>0, <1>a, Basics DEF Locks, HoldsDp, HoldsIp
<1>4. CASE IputThen(p, [r EXCEPT !.ip = 0, !.cwd = r.ip], r.cwd, "end")
  <2> DEFINE m == [r EXCEPT !.ip = 0, !.cwd = r.ip]
  <2>1. m \in Records
    BY <1>0, <1>d DEF Records, Ptrs
  <2>2. /\ m.fd = r.fd /\ m.cwd = r.ip /\ m.call = r.call /\ m.path = r.path /\ m.new = r.new
        /\ m.dp = r.dp /\ m.ip = 0 /\ m.old = r.old /\ m.x = r.x /\ m.ret = r.ret /\ m.ino = r.ino
    BY <1>0 DEF Records
  <2>3. IputThen(p, m, r.cwd, "end") /\ "end" \in Pcs /\ r.cwd \in Ptrs
    BY <1>0, <1>a, <1>4, <1>d DEF Pcs, Ptrs
  <2> HIDE DEF m
  <2>4. /\ Framed(p) /\ N \in Records /\ N.pc = "iput"
        /\ N.fd = r.fd /\ N.cwd = r.ip /\ N.call = r.call /\ N.path = r.path /\ N.new = r.new
        /\ N.dp = r.dp /\ N.ip = 0 /\ N.old = r.old /\ N.x = r.cwd /\ N.ret = "end" /\ N.ino = r.ino
    BY <2>1, <2>2, <2>3, IputFacts DEF N
  <2>5. at(N) = "end" /\ (\A u \in Slots : ~Locks(N, u))
    BY <1>0, <1>a, <2>4, Basics DEF Locks, at, Iputs, HoldsDp, HoldsIp
  <2>6. \A u \in Slots : Count(N, u) = Count(r, u)
    BY <1>0, <1>a, <2>4, Basics, <1>d DEF Count, One
  <2>7. Shape(N)
    BY <1>0, <1>a, <2>4, <2>5, <1>d DEF Shape, Iputs, Returns, HasDp, HasIp, HasOld
  <2>8. PathOk(N)
    BY <1>0, <2>4 DEF PathOk
  <2>9. Owes(r, N) /\ Stays(r, N, icache, icache, 0, 0)
    BY <1>0, <1>a, <2>4, <2>5 DEF Owes, Stays, Sees
  <2>10. Proceeds(p, icache, 0, 0, r.ip)
    BY ONLY <1>0, <1>2, <1>3, <1>a, <1>b, <1>c, <2>4, <2>5, <2>6, <2>7, <2>8, <2>9 DEF Proceeds, r, N
  <2> QED BY <2>10, Proceed
<1>5. CASE IputThen(p, [r EXCEPT !.ip = 0, !.cwd = r.cwd], r.ip, "end")
  <2> DEFINE m == [r EXCEPT !.ip = 0, !.cwd = r.cwd]
  <2>1. m \in Records
    BY <1>0, <1>d DEF Records, Ptrs
  <2>2. /\ m.fd = r.fd /\ m.cwd = r.cwd /\ m.call = r.call /\ m.path = r.path /\ m.new = r.new
        /\ m.dp = r.dp /\ m.ip = 0 /\ m.old = r.old /\ m.x = r.x /\ m.ret = r.ret /\ m.ino = r.ino
    BY <1>0 DEF Records
  <2>3. IputThen(p, m, r.ip, "end") /\ "end" \in Pcs /\ r.ip \in Ptrs
    BY <1>0, <1>a, <1>5, <1>d DEF Pcs, Ptrs
  <2> HIDE DEF m
  <2>4. /\ Framed(p) /\ N \in Records /\ N.pc = "iput"
        /\ N.fd = r.fd /\ N.cwd = r.cwd /\ N.call = r.call /\ N.path = r.path /\ N.new = r.new
        /\ N.dp = r.dp /\ N.ip = 0 /\ N.old = r.old /\ N.x = r.ip /\ N.ret = "end" /\ N.ino = r.ino
    BY <2>1, <2>2, <2>3, IputFacts DEF N
  <2>5. at(N) = "end" /\ (\A u \in Slots : ~Locks(N, u))
    BY <1>0, <1>a, <2>4, Basics DEF Locks, at, Iputs, HoldsDp, HoldsIp
  <2>6. \A u \in Slots : Count(N, u) = Count(r, u)
    BY <1>0, <1>a, <2>4, Basics DEF Count, One
  <2>7. Shape(N)
    BY <1>0, <1>a, <2>4, <2>5 DEF Shape, Iputs, Returns, HasDp, HasIp, HasOld
  <2>8. PathOk(N)
    BY <1>0, <2>4 DEF PathOk
  <2>9. Owes(r, N) /\ Stays(r, N, icache, icache, 0, 0)
    BY <1>0, <1>a, <2>4, <2>5 DEF Owes, Stays, Sees
  <2>10. Proceeds(p, icache, 0, 0, r.ip)
    BY ONLY <1>0, <1>2, <1>3, <1>a, <1>b, <1>c, <2>4, <2>5, <2>6, <2>7, <2>8, <2>9 DEF Proceeds, r, N
  <2> QED BY <2>10, Proceed
<1> QED BY <1>2, <1>4, <1>5

\* create() looks its name up.
LEMMA createKeeps ==
  ASSUME InodeInv, UpLinked, NEW p \in Procs, create(p)
  PROVE  InodeInv'
<1> DEFINE r == proc[p]  N == proc'[p]  x == Head(r.path)  n == dirlookup(r.dp, x)  t == slot_of(n)  g == iget(n)
<1>0. /\ r \in Records /\ Shape(r) /\ PathOk(r) /\ r.pc = "create" /\ Unlocked(r.dp)
      /\ r.dp # 0 /\ r.dp \in Slots /\ icache[r.dp].ref > 0 /\ Count(r, r.dp) > 0
      /\ disk.ino[icache[r.dp].inum].type = "dir" /\ icache \in [Slots -> Entries]
  BY Mine, Zenon DEF create, Shape, HasDp, at, Iputs, Local
<1>1. ~NoType(r.dp)
  BY <1>0, Read DEF NoType
<1>d. r.path # <<>> /\ Len(r.path) = 1
  <2>1. Len(r.path) = 1
    BY <1>0 DEF Shape
  <2> QED BY <2>1
<1>e. x \in AllNames /\ (x = ".." /\ n # 0 => disk.ino[n].nlink >= 1)
  <2>1. x \in AllNames
    <3> HIDE DEF r
    <3> QED BY <1>0, <1>d, HeadFacts
  <2>2. inode(r.dp).type = "dir"
    BY <1>0, Read
  <2>3. x = ".." => GoesUp(p, r.dp)
    BY <1>0, <1>d, <2>2 DEF GoesUp
  <2> QED BY <1>0, <2>1, <2>3 DEF UpLinked
<1>f. icache[r.dp].inum \notin Reserved
  BY <1>0, NotReserved DEF Sees
<1>g. /\ n = Ent(disk, icache[r.dp].inum, x) /\ (n # 0 => n \in Inums)
      /\ n # 0 /\ ~NoEntry(n) =>
           /\ n \in Inums /\ disk.ino[n].type # "none" /\ n \notin Reserved
           /\ Took(g, t, n) /\ g \in [Slots -> Entries] /\ g # icache
           /\ t \in Slots /\ g[t].inum = n
           /\ \A u \in Slots : g[u].lock = icache[u].lock
           /\ Count(r, t) > 0 \/ disk.ino[n].nlink >= 1
  <2> HIDE DEF x
  <2> QED BY <1>0, <1>e, <1>f, Lookup
<1>b. Nobody # p
  BY InodeAssumption
<1>2. disk' = disk \/ Stop("full")
  BY <1>1 DEF create, Panic, Stop
<1>j. \/ n # 0 /\ NoEntry(n) /\ Stop("full")
      \/ n # 0 /\ ~NoEntry(n) /\ icache' = read(g, r.dp) /\ disk' = disk /\ IputThen(p, [r EXCEPT !.ip = t, !.dp = 0], r.dp, "cr_exists")
      \/ n = 0 /\ icache' = held(read(icache, r.dp), r.dp, p) /\ disk' = disk /\ Goto(p, r, "cr_ialloc")
  BY <1>1 DEF create
<1> HIDE DEF r, N, x, n, t, g
<1>a. at(r) = "create" /\ r.ip = 0 /\ r.dp # 0 /\ r.x = 0 /\ r.ret = "end" /\ r.ino = 0 /\ r.old = 0
  BY <1>0 DEF Shape, HasDp, HasIp, HasOld, at, Iputs
<1>h. t \in Slots => t \in Ptrs /\ t # 0
  BY Basics DEF Ptrs
<1>i. disk.ino[icache[r.dp].inum].type # "none"
  BY <1>0
<1>c. \A u \in Slots : ~Locks(r, u)
  BY <1>0, <1>a, Basics DEF Locks, HoldsIp, HoldsDp
<1>4. CASE n # 0 /\ ~NoEntry(n) /\ icache' = read(g, r.dp) /\ disk' = disk /\ IputThen(p, [r EXCEPT !.ip = t, !.dp = 0], r.dp, "cr_exists")
  <2>a. /\ n \in Inums /\ disk.ino[n].type # "none" /\ n \notin Reserved
        /\ Took(g, t, n) /\ g \in [Slots -> Entries] /\ g # icache /\ t \in Slots /\ g[t].inum = n
        /\ g[r.dp].lock = icache[r.dp].lock /\ t \in Ptrs /\ t # 0
        /\ Count(r, t) > 0 \/ disk.ino[n].nlink >= 1
    BY <1>0, <1>4, <1>g, <1>h
  <2>b. Touched(p, g, r.dp) /\ icache'[r.dp].lock = Nobody
    BY <1>0, <1>4, <1>i, <2>a, CacheRead DEF r
  <2> DEFINE m == [r EXCEPT !.ip = t, !.dp = 0]
  <2>1. m \in Records
    BY <1>0, <2>a DEF Records, Ptrs
  <2>2. /\ m.fd = r.fd /\ m.cwd = r.cwd /\ m.call = r.call /\ m.path = r.path /\ m.new = r.new
        /\ m.dp = 0 /\ m.ip = t /\ m.old = r.old /\ m.x = r.x /\ m.ret = r.ret /\ m.ino = r.ino
    BY <1>0 DEF Records
  <2>3. IputThen(p, m, r.dp, "cr_exists") /\ "cr_exists" \in Pcs /\ r.dp \in Ptrs
    BY <1>0, <1>a, <1>4, <2>a DEF Pcs, Ptrs
  <2> HIDE DEF m
  <2>4. /\ Framed(p) /\ N \in Records /\ N.pc = "iput"
        /\ N.fd = r.fd /\ N.cwd = r.cwd /\ N.call = r.call /\ N.path = r.path /\ N.new = r.new
        /\ N.dp = 0 /\ N.ip = t /\ N.old = r.old /\ N.x = r.dp /\ N.ret = "cr_exists" /\ N.ino = r.ino
    BY <2>1, <2>2, <2>3, IputFacts DEF N
  <2>5. at(N) = "cr_exists" /\ (\A u \in Slots : ~Locks(N, u))
    BY <1>0, <1>a, <2>4, Basics DEF Locks, at, Iputs, HoldsDp, HoldsIp
  <2>6. \A u \in Slots : Count(N, u) = Count(r, u) + One(u, t)
    BY <1>0, <1>a, <2>4, Basics, <2>a DEF Count, One
  <2>7. Shape(N)
    BY <1>0, <1>a, <2>4, <2>5, <2>a DEF Shape, Iputs, Returns, HasDp, HasIp, HasOld
  <2>8. PathOk(N)
    BY <1>0, <2>4 DEF PathOk
  <2>9. Owes(r, N) /\ Stays(r, N, g, icache, t, 0)
    BY <1>0, <1>a, <2>4, <2>5, <2>a DEF Owes, Stays, Sees
  <2>10. Proceeds(p, g, t, n, r.dp)
    BY ONLY <1>0, <1>2, <1>a, <1>b, <1>c, <2>4, <2>5, <2>6, <2>7, <2>8, <2>9, <1>4, <2>a,
      <2>b DEF Proceeds, r, N
  <2> QED BY <2>10, Proceed
<1>5. CASE n = 0 /\ icache' = held(read(icache, r.dp), r.dp, p) /\ disk' = disk /\ Goto(p, r, "cr_ialloc")
  <2>b. Touched(p, icache, r.dp) /\ icache'[r.dp].lock = p /\ icache'[r.dp].valid
    BY <1>0, <1>5, <1>i, CacheRead DEF r
  <2>3. Goto(p, r, "cr_ialloc") /\ "cr_ialloc" \in Pcs
    BY <1>0, <1>a, <1>5 DEF Pcs, Ptrs
  <2>4. /\ Framed(p) /\ N \in Records /\ N.pc = "cr_ialloc"
        /\ N.fd = r.fd /\ N.cwd = r.cwd /\ N.call = r.call /\ N.path = r.path /\ N.new = r.new
        /\ N.dp = r.dp /\ N.ip = r.ip /\ N.old = r.old /\ N.x = r.x /\ N.ret = r.ret /\ N.ino = r.ino
    BY <1>0, <2>3, GotoFacts DEF N
  <2>5. at(N) = "cr_ialloc" /\ (\A u \in Slots : Locks(N, u) <=> u = r.dp)
    BY <1>0, <1>a, <2>4, Basics DEF Locks, at, Iputs, HoldsDp, HoldsIp
  <2>6. \A u \in Slots : Count(N, u) = Count(r, u)
    BY <1>0, <1>a, <2>4, Basics DEF Count, One
  <2>7. Shape(N)
    BY <1>0, <1>a, <2>4, <2>5 DEF Shape, Iputs, Returns, HasDp, HasIp, HasOld
  <2>8. PathOk(N)
    BY <1>0, <2>4 DEF PathOk
  <2>9. Owes(r, N) /\ Stays(r, N, icache, icache, 0, 0)
    BY <1>0, <1>a, <2>4, <2>5 DEF Owes, Stays, Sees
  <2>c. N.dp = r.dp /\ Ent(disk, icache[N.dp].inum, Head(N.path)) = 0
    BY <1>5, <1>g, <2>4 DEF x
  <2>10. Proceeds(p, icache, 0, 0, r.dp)
    BY ONLY <1>0, <1>2, <1>a, <1>b, <1>c, <2>4, <2>5, <2>6, <2>7, <2>8, <2>9, <1>5, <2>b,
      <2>c DEF Proceeds, r, N
  <2> QED BY <2>10, Proceed
<1> QED BY <1>4, <1>5, <1>j, StopKeeps

\* sys_unlink() looks its name up.
LEMMA unlinkKeeps ==
  ASSUME InodeInv, UpLinked, NEW p \in Procs, unlink(p)
  PROVE  InodeInv'
<1> DEFINE r == proc[p]  N == proc'[p]  x == Head(r.path)  n == dirlookup(r.dp, x)  t == slot_of(n)  g == iget(n)
<1>0. /\ r \in Records /\ Shape(r) /\ PathOk(r) /\ r.pc = "unlink" /\ Unlocked(r.dp)
      /\ r.dp # 0 /\ r.dp \in Slots /\ icache[r.dp].ref > 0 /\ Count(r, r.dp) > 0
      /\ disk.ino[icache[r.dp].inum].type = "dir" /\ icache \in [Slots -> Entries]
  BY Mine, Zenon DEF unlink, Shape, HasDp, at, Iputs, Local
<1>1. ~NoType(r.dp)
  BY <1>0, Read DEF NoType
<1>d. r.path # <<>> /\ Len(r.path) = 1
  <2>1. Len(r.path) = 1
    BY <1>0 DEF Shape
  <2> QED BY <2>1
<1>e. x \in AllNames
  <2> HIDE DEF r
  <2> QED BY <1>0, <1>d, HeadFacts
<1>f. icache[r.dp].inum \notin Reserved
  BY <1>0, NotReserved DEF Sees
<1>g. /\ x \notin Dots => n = Ent(disk, icache[r.dp].inum, x) /\ (n # 0 => n \in Inums)
      /\ x \notin Dots /\ n # 0 /\ ~NoEntry(n) =>
           /\ n \in Inums /\ disk.ino[n].type # "none" /\ n \notin Reserved
           /\ Took(g, t, n) /\ g \in [Slots -> Entries] /\ g # icache
           /\ t \in Slots /\ g[t].inum = n
           /\ \A u \in Slots : g[u].lock = icache[u].lock
           /\ Count(r, t) > 0 \/ disk.ino[n].nlink >= 1
  <2>1. x \notin Dots => x # ".."
    BY Basics DEF Dots
  <2> HIDE DEF x
  <2> QED BY <1>0, <1>e, <1>f, <2>1, Lookup
<1>b. Nobody # p
  BY InodeAssumption
<1>j. \/ icache' = read(icache, r.dp) /\ disk' = disk /\ IputThen(p, [r EXCEPT !.dp = 0], r.dp, "end")
      \/ Stop("full")
      \/ /\ x \notin Dots /\ n # 0 /\ ~NoEntry(n) /\ icache' = held(read(g, r.dp), r.dp, p) /\ disk' = disk
         /\ Goto(p, [r EXCEPT !.ip = t], "ul_entry")
  BY <1>1 DEF unlink
<1> HIDE DEF r, N, x, n, t, g
<1>a. at(r) = "unlink" /\ r.ip = 0 /\ r.dp # 0 /\ r.x = 0 /\ r.ret = "end" /\ r.ino = 0 /\ r.old = 0
  BY <1>0 DEF Shape, HasDp, HasIp, HasOld, at, Iputs
<1>h. t \in Slots => t \in Ptrs /\ t # 0
  BY Basics DEF Ptrs
<1>i. disk.ino[icache[r.dp].inum].type # "none"
  BY <1>0
<1>c. \A u \in Slots : ~Locks(r, u)
  BY <1>0, <1>a, Basics DEF Locks, HoldsIp, HoldsDp
<1>4. CASE icache' = read(icache, r.dp) /\ disk' = disk /\ IputThen(p, [r EXCEPT !.dp = 0], r.dp, "end")
  <2>1. Touched(p, icache, r.dp) /\ icache'[r.dp].lock = Nobody
    BY <1>0, <1>4, <1>i, CacheRead DEF r
  <2>2. ReadyDp(p, "end")
    BY <1>0, <1>4, <2>1 DEF ReadyDp, r
  <2> QED BY <1>4, <2>2, PutDp DEF r
<1>5. CASE /\ x \notin Dots /\ n # 0 /\ ~NoEntry(n) /\ icache' = held(read(g, r.dp), r.dp, p) /\ disk' = disk
           /\ Goto(p, [r EXCEPT !.ip = t], "ul_entry")
  <2>a. /\ n \in Inums /\ disk.ino[n].type # "none" /\ n \notin Reserved
        /\ Took(g, t, n) /\ g \in [Slots -> Entries] /\ g # icache /\ t \in Slots /\ g[t].inum = n
        /\ g[r.dp].lock = icache[r.dp].lock /\ t \in Ptrs /\ t # 0
        /\ Count(r, t) > 0 \/ disk.ino[n].nlink >= 1
    BY <1>0, <1>5, <1>g, <1>h
  <2>b. Touched(p, g, r.dp) /\ icache'[r.dp].lock = p /\ icache'[r.dp].valid
    BY <1>0, <1>5, <1>i, <2>a, CacheRead DEF r
  <2> DEFINE m == [r EXCEPT !.ip = t]
  <2>1. m \in Records
    BY <1>0, <2>a DEF Records, Ptrs
  <2>2. /\ m.fd = r.fd /\ m.cwd = r.cwd /\ m.call = r.call /\ m.path = r.path /\ m.new = r.new
        /\ m.dp = r.dp /\ m.ip = t /\ m.old = r.old /\ m.x = r.x /\ m.ret = r.ret /\ m.ino = r.ino
    BY <1>0 DEF Records
  <2>3. Goto(p, m, "ul_entry") /\ "ul_entry" \in Pcs
    BY <1>0, <1>a, <1>5, <2>a DEF Pcs, Ptrs
  <2> HIDE DEF m
  <2>4. /\ Framed(p) /\ N \in Records /\ N.pc = "ul_entry"
        /\ N.fd = r.fd /\ N.cwd = r.cwd /\ N.call = r.call /\ N.path = r.path /\ N.new = r.new
        /\ N.dp = r.dp /\ N.ip = t /\ N.old = r.old /\ N.x = r.x /\ N.ret = r.ret /\ N.ino = r.ino
    BY <2>1, <2>2, <2>3, GotoFacts DEF N
  <2>5. at(N) = "ul_entry" /\ (\A u \in Slots : Locks(N, u) <=> u = r.dp)
    BY <1>0, <1>a, <2>4, Basics DEF Locks, at, Iputs, HoldsDp, HoldsIp
  <2>6. \A u \in Slots : Count(N, u) = Count(r, u) + One(u, t)
    BY <1>0, <1>a, <2>4, Basics, <2>a DEF Count, One
  <2>7. Shape(N)
    BY <1>0, <1>a, <2>4, <2>5, <2>a DEF Shape, Iputs, Returns, HasDp, HasIp, HasOld
  <2>8. PathOk(N)
    BY <1>0, <2>4 DEF PathOk
  <2>9. Owes(r, N) /\ Stays(r, N, g, icache, t, 0)
    BY <1>0, <1>a, <2>4, <2>5, <2>a DEF Owes, Stays, Sees
  <2>c. Ent(disk, icache[N.dp].inum, Head(N.path)) = icache'[N.ip].inum /\ Head(N.path) \in Names
    <3>1. icache'[t].inum = n
      BY <2>a, <2>b DEF Touched
    <3>2. x \in Names
      BY <1>5, <1>e DEF AllNames
    <3> QED BY <1>5, <1>g, <2>4, <3>1, <3>2 DEF x
  <2>10. Proceeds(p, g, t, n, r.dp)
    BY ONLY <1>0, <1>a, <1>b, <1>c, <2>4, <2>5, <2>6, <2>7, <2>8, <2>9, <1>5, <2>a, <2>b,
      <2>c DEF Proceeds, r, N
  <2> QED BY <2>10, Proceed
<1> QED BY <1>4, <1>5, <1>j, StopKeeps

\* sys_link() finds that the new name exists.
LEMMA ln_linkFails ==
  ASSUME InodeInv, UpLinked, NEW p \in Procs, ln_link(p), dirlookup(proc[p].dp, Head(proc[p].path)) # 0
  PROVE  InodeInv'
<1> DEFINE r == proc[p]  N == proc'[p]  x == Head(r.path)  n == dirlookup(r.dp, x)  t == slot_of(n)  g == iget(n)
<1>0. /\ r \in Records /\ Shape(r) /\ PathOk(r) /\ r.pc = "ln_link" /\ Unlocked(r.dp)
      /\ r.dp # 0 /\ r.dp \in Slots /\ icache[r.dp].ref > 0 /\ Count(r, r.dp) > 0
      /\ disk.ino[icache[r.dp].inum].type = "dir" /\ icache \in [Slots -> Entries]
  BY Mine, Zenon DEF ln_link, Shape, HasDp, at, Iputs, Local
<1>1. ~NoType(r.dp)
  BY <1>0, Read DEF NoType
<1>d. r.path # <<>> /\ Len(r.path) = 1
  <2>1. Len(r.path) = 1
    BY <1>0 DEF Shape
  <2> QED BY <2>1
<1>e. x \in AllNames /\ (x = ".." /\ n # 0 => disk.ino[n].nlink >= 1)
  <2>1. x \in AllNames
    <3> HIDE DEF r
    <3> QED BY <1>0, <1>d, HeadFacts
  <2>2. inode(r.dp).type = "dir"
    BY <1>0, Read
  <2>3. x = ".." => GoesUp(p, r.dp)
    BY <1>0, <1>d, <2>2 DEF GoesUp
  <2> QED BY <1>0, <2>1, <2>3 DEF UpLinked
<1>f. icache[r.dp].inum \notin Reserved
  BY <1>0, NotReserved DEF Sees
<1>g. /\ n = Ent(disk, icache[r.dp].inum, x) /\ (n # 0 => n \in Inums)
      /\ n # 0 /\ ~NoEntry(n) =>
           /\ n \in Inums /\ disk.ino[n].type # "none" /\ n \notin Reserved
           /\ Took(g, t, n) /\ g \in [Slots -> Entries] /\ g # icache
           /\ t \in Slots /\ g[t].inum = n
           /\ \A u \in Slots : g[u].lock = icache[u].lock
           /\ Count(r, t) > 0 \/ disk.ino[n].nlink >= 1
  <2> HIDE DEF x
  <2> QED BY <1>0, <1>e, <1>f, Lookup
<1>b. Nobody # p
  BY InodeAssumption
<1>j. \/ Stop("full")
      \/ /\ n # 0 /\ ~NoEntry(n) /\ icache' = held(read(g, r.dp), r.dp, p) /\ disk' = disk
         /\ IputThen(p, r, t, "ln_exists")
  BY <1>1 DEF ln_link
<1> HIDE DEF r, N, x, n, t, g
<1>a. at(r) = "ln_link" /\ r.ip = 0 /\ r.dp # 0 /\ r.x = 0 /\ r.ret = "end" /\ r.ino = 0 /\ r.old # 0
  BY <1>0 DEF Shape, HasDp, HasIp, HasOld, at, Iputs
<1>h. t \in Slots => t \in Ptrs /\ t # 0
  BY Basics DEF Ptrs
<1>i. disk.ino[icache[r.dp].inum].type # "none"
  BY <1>0
<1>c. \A u \in Slots : ~Locks(r, u)
  BY <1>0, <1>a, Basics DEF Locks, HoldsIp, HoldsDp
<1>4. CASE /\ n # 0 /\ ~NoEntry(n) /\ icache' = held(read(g, r.dp), r.dp, p) /\ disk' = disk
           /\ IputThen(p, r, t, "ln_exists")
  <2>a. /\ n \in Inums /\ disk.ino[n].type # "none" /\ n \notin Reserved
        /\ Took(g, t, n) /\ g \in [Slots -> Entries] /\ g # icache /\ t \in Slots /\ g[t].inum = n
        /\ g[r.dp].lock = icache[r.dp].lock /\ t \in Ptrs /\ t # 0
        /\ Count(r, t) > 0 \/ disk.ino[n].nlink >= 1
    BY <1>0, <1>4, <1>g, <1>h
  <2>b. Touched(p, g, r.dp) /\ icache'[r.dp].lock = p /\ icache'[r.dp].valid
    BY <1>0, <1>4, <1>i, <2>a, CacheRead DEF r
  <2>3. IputThen(p, r, t, "ln_exists") /\ "ln_exists" \in Pcs /\ t \in Ptrs
    BY <1>0, <1>a, <1>4, <2>a DEF Pcs, Ptrs
  <2>4. /\ Framed(p) /\ N \in Records /\ N.pc = "iput"
        /\ N.fd = r.fd /\ N.cwd = r.cwd /\ N.call = r.call /\ N.path = r.path /\ N.new = r.new
        /\ N.dp = r.dp /\ N.ip = r.ip /\ N.old = r.old /\ N.x = t /\ N.ret = "ln_exists" /\ N.ino = r.ino
    BY <1>0, <2>3, IputFacts DEF N
  <2>5. at(N) = "ln_exists" /\ (\A u \in Slots : Locks(N, u) <=> u = r.dp)
    BY <1>0, <1>a, <2>4, Basics DEF Locks, at, Iputs, HoldsDp, HoldsIp
  <2>6. \A u \in Slots : Count(N, u) = Count(r, u) + One(u, t)
    BY <1>0, <1>a, <2>4, Basics, <2>a DEF Count, One
  <2>7. Shape(N)
    BY <1>0, <1>a, <2>4, <2>5, <2>a DEF Shape, Iputs, Returns, HasDp, HasIp, HasOld
  <2>8. PathOk(N)
    BY <1>0, <2>4 DEF PathOk
  <2>9. Owes(r, N) /\ Stays(r, N, g, icache, t, 0)
    BY <1>0, <1>a, <2>4, <2>5, <2>a DEF Owes, Stays, Sees
  <2>10. Proceeds(p, g, t, n, r.dp)
    BY ONLY <1>0, <1>a, <1>b, <1>c, <2>4, <2>5, <2>6, <2>7, <2>8, <2>9, <1>4, <2>a, <2>b DEF Proceeds, r, N
  <2> QED BY <2>10, Proceed
<1> QED BY <1>4, <1>j, StopKeeps

\* One pass of the loop of namex(), or the end of the path.
LEMMA namexKeeps == ASSUME InodeInv, UpLinked, NEW p \in Procs, namex(p) PROVE InodeInv'
<1> DEFINE r == proc[p]  N == proc'[p]  x == Head(r.path)  n == dirlookup(r.ip, x)  t == slot_of(n)  g == iget(n)
           nf == not_found(r)  fo == found(r)
<1>0. /\ r \in Records /\ Shape(r) /\ PathOk(r) /\ r.pc = "namex"
      /\ r.ip # 0 /\ r.ip \in Slots /\ icache[r.ip].ref > 0 /\ Count(r, r.ip) > 0
      /\ disk.ino[icache[r.ip].inum].type # "none" /\ icache \in [Slots -> Entries]
  BY Mine, Zenon DEF namex, Shape, HasIp, at, Iputs
<1>1. r.path # <<>> /\ Unlocked(r.ip) => ~NoType(r.ip) /\ inode(r.ip) = disk.ino[icache[r.ip].inum]
  BY <1>0, Read DEF NoType
<1>f. icache[r.ip].inum \notin Reserved
  BY <1>0, NotReserved
<1>g. r.path # <<>> /\ Unlocked(r.ip) /\ inode(r.ip).type = "dir" /\ (parent_wanted(r) => Len(r.path) > 1)
        /\ n # 0 /\ ~NoEntry(n) =>
        /\ n \in Inums /\ disk.ino[n].type # "none" /\ n \notin Reserved
        /\ Took(g, t, n) /\ g \in [Slots -> Entries] /\ g # icache
        /\ t \in Slots /\ g[t].inum = n /\ \A u \in Slots : g[u].lock = icache[u].lock
        /\ Count(r, t) > 0 \/ disk.ino[n].nlink >= 1
  <2> SUFFICES ASSUME r.path # <<>>, Unlocked(r.ip), inode(r.ip).type = "dir", n # 0, ~NoEntry(n),
                      parent_wanted(r) => Len(r.path) > 1
               PROVE  /\ n \in Inums /\ disk.ino[n].type # "none" /\ n \notin Reserved
                      /\ Took(g, t, n) /\ g \in [Slots -> Entries] /\ g # icache
                      /\ t \in Slots /\ g[t].inum = n /\ \A u \in Slots : g[u].lock = icache[u].lock
                      /\ Count(r, t) > 0 \/ disk.ino[n].nlink >= 1
    OBVIOUS
  <2>1. x \in AllNames /\ (x = ".." /\ n # 0 => disk.ino[n].nlink >= 1)
    <3>1. x \in AllNames
      <4> HIDE DEF r
      <4> QED BY <1>0, HeadFacts
    <3>2. x = ".." => GoesUp(p, r.ip)
      BY <1>0 DEF GoesUp
    <3> QED BY <1>0, <3>1, <3>2 DEF UpLinked
  <2>2. disk.ino[icache[r.ip].inum].type = "dir"
    BY <1>1
  <2> HIDE DEF x
  <2> QED BY <1>0, <1>f, <2>1, <2>2, Lookup
<1>b. Nobody # p
  BY InodeAssumption
<1>2. \/ disk' = disk /\ icache' = icache /\ parent_wanted(r) /\ IputThen(p, [r EXCEPT !.ip = 0], r.ip, nf)
      \/ disk' = disk /\ icache' = icache /\ ~parent_wanted(r) /\ Goto(p, r, fo)
      \/ Unlocked(r.ip) /\ disk' = disk /\ icache' = read(icache, r.ip) /\ IputThen(p, [r EXCEPT !.ip = 0], r.ip, nf)
      \/ /\ Unlocked(r.ip) /\ disk' = disk /\ icache' = read(icache, r.ip) /\ inode(r.ip).type = "dir"
         /\ r.path # <<>> /\ parent_wanted(r) /\ Len(r.path) = 1 /\ Goto(p, [r EXCEPT !.dp = r.ip, !.ip = 0], fo)
      \/ Stop("full")
      \/ /\ Unlocked(r.ip) /\ disk' = disk /\ icache' = read(g, r.ip) /\ inode(r.ip).type = "dir"
         /\ r.path # <<>> /\ (parent_wanted(r) => Len(r.path) > 1) /\ n # 0 /\ ~NoEntry(n)
         /\ IputThen(p, [r EXCEPT !.ip = t, !.path = Tail(r.path)], r.ip, "namex")
  <2>1. r.path # <<>> /\ ~(parent_wanted(r) /\ Len(r.path) = 1) => (parent_wanted(r) => Len(r.path) > 1)
    <3>1. r.path \in Seq(AllNames)
      BY <1>0 DEF Records
    <3> HIDE DEF r
    <3>2. r.path # <<>> => Len(r.path) = 1 \/ Len(r.path) > 1
      BY <3>1, PathLength
    <3> QED BY <3>2, Zenon
  <2> QED BY <1>1, <2>1 DEF namex
<1> HIDE DEF N, x, n, t, g
<1>d. /\ nf \in Pcs /\ (r.old # 0 => nf = "ln_bad") /\ (r.old = 0 => nf = "end")
  BY DEF not_found, Pcs
<1>h. t \in Slots => t \in Ptrs /\ t # 0
  BY Basics DEF Ptrs
<1>i. /\ ~parent_wanted(r) => /\ r.old = 0 /\ fo \in {"open", "ln_lock", "chdir"}
                              /\ fo = "open" => r.call = "open"
                              /\ fo = "ln_lock" => r.call = "link"
      /\ parent_wanted(r) => /\ fo \in {"create", "unlink", "ln_link"} /\ (fo = "ln_link" <=> r.old # 0)
                             /\ fo = "unlink" => r.call = "unlink"
                             /\ fo = "create" => r.call \in {"create", "mkdir"}
      /\ fo \in Pcs
  <2>1. r.call \in Ops /\ (r.old # 0 => r.call = "link")
    BY <1>0 DEF Shape, at, Iputs
  <2> HIDE DEF r
  <2>2. /\ r.old # 0 => fo = "ln_link"
        /\ r.old = 0 /\ r.call = "mkdir" => fo = "create"
        /\ r.old = 0 /\ r.call = "link" => fo = "ln_lock"
        /\ r.old = 0 /\ r.call \notin {"mkdir", "link"} => fo = r.call
    <3>1. CASE r.old # 0
      BY <2>1, <3>1 DEF found
    <3>2. CASE r.old = 0 /\ r.call = "mkdir"
      BY <3>2 DEF found
    <3>3. CASE r.old = 0 /\ r.call = "link"
      BY <3>3 DEF found
    <3>4. CASE r.old = 0 /\ r.call \notin {"mkdir", "link"}
      BY <3>4 DEF found
    <3> QED BY <3>1, <3>2, <3>3, <3>4
  <2> HIDE DEF fo
  <2>3. parent_wanted(r) <=> r.call \in {"create", "mkdir", "unlink"} \/ r.old # 0
    BY DEF parent_wanted
  <2> QED BY ONLY <2>1, <2>2, <2>3 DEF Ops, Pcs
<1> HIDE DEF r, nf, fo
<1>a. at(r) = "namex" /\ r.ip # 0 /\ r.dp = 0 /\ r.x = 0 /\ r.ret = "end" /\ r.ino = 0
      /\ (r.old # 0 => r.call = "link") /\ r.call \in Ops
  BY <1>0 DEF Shape, HasDp, HasIp, HasOld, at, Iputs
<1>c. \A u \in Slots : ~Locks(r, u)
  BY <1>0, <1>a, Basics DEF Locks, HoldsIp, HoldsDp
<1>4. CASE disk' = disk /\ icache' = icache /\ parent_wanted(r) /\ IputThen(p, [r EXCEPT !.ip = 0], r.ip, nf)
  <2>b. Touched(p, icache, 0)
    BY <1>4, CacheKept
  <2> DEFINE m == [r EXCEPT !.ip = 0]
  <2>1. m \in Records
    BY <1>0, <1>d DEF Records, Ptrs
  <2>2. /\ m.fd = r.fd /\ m.cwd = r.cwd /\ m.call = r.call /\ m.path = r.path /\ m.new = r.new
        /\ m.dp = r.dp /\ m.ip = 0 /\ m.old = r.old /\ m.x = r.x /\ m.ret = r.ret /\ m.ino = r.ino
    BY <1>0 DEF Records
  <2>3. IputThen(p, m, r.ip, nf) /\ nf \in Pcs /\ r.ip \in Ptrs
    BY <1>0, <1>a, <1>4, <1>d DEF Pcs, Ptrs
  <2> HIDE DEF m
  <2>4. /\ Framed(p) /\ N \in Records /\ N.pc = "iput"
        /\ N.fd = r.fd /\ N.cwd = r.cwd /\ N.call = r.call /\ N.path = r.path /\ N.new = r.new
        /\ N.dp = r.dp /\ N.ip = 0 /\ N.old = r.old /\ N.x = r.ip /\ N.ret = nf /\ N.ino = r.ino
    BY <2>1, <2>2, <2>3, IputFacts DEF N
  <2>5. at(N) = nf /\ (\A u \in Slots : ~Locks(N, u))
    BY <1>0, <1>a, <2>4, Basics, <1>d DEF Locks, at, Iputs, HoldsDp, HoldsIp
  <2>6. \A u \in Slots : Count(N, u) = Count(r, u)
    BY <1>0, <1>a, <2>4, Basics DEF Count, One
  <2>7. Shape(N)
    BY <1>0, <1>a, <2>4, <2>5, <1>d DEF Shape, Iputs, Returns, HasDp, HasIp, HasOld
  <2>8. PathOk(N)
    BY <1>0, <2>4, <1>d DEF PathOk
  <2>9. Owes(r, N) /\ Stays(r, N, icache, icache, 0, 0)
    BY <1>0, <1>a, <2>4, <2>5, <1>d DEF Owes, Stays, Sees
  <2>10. Proceeds(p, icache, 0, 0, 0)
    BY ONLY <1>0, <1>2, <1>a, <1>b, <1>c, <2>4, <2>5, <2>6, <2>7, <2>8, <2>9, <1>4, <2>b DEF Proceeds, r, N
  <2> QED BY <2>10, Proceed
<1>5. CASE disk' = disk /\ icache' = icache /\ ~parent_wanted(r) /\ Goto(p, r, fo)
  <2>b. Touched(p, icache, 0)
    BY <1>5, CacheKept
  <2>3. Goto(p, r, fo) /\ fo \in Pcs
    BY <1>0, <1>a, <1>5, <1>i DEF Pcs, Ptrs
  <2>4. /\ Framed(p) /\ N \in Records /\ N.pc = fo
        /\ N.fd = r.fd /\ N.cwd = r.cwd /\ N.call = r.call /\ N.path = r.path /\ N.new = r.new
        /\ N.dp = r.dp /\ N.ip = r.ip /\ N.old = r.old /\ N.x = r.x /\ N.ret = r.ret /\ N.ino = r.ino
    BY <1>0, <2>3, GotoFacts DEF N
  <2>5. at(N) = fo /\ (\A u \in Slots : ~Locks(N, u))
    BY <1>0, <1>a, <2>4, Basics, <1>5, <1>i DEF Locks, at, Iputs, HoldsDp, HoldsIp
  <2>6. \A u \in Slots : Count(N, u) = Count(r, u)
    BY <1>0, <1>a, <2>4, Basics DEF Count, One
  <2>7. Shape(N)
    BY <1>0, <1>a, <2>4, <2>5, <1>5, <1>i DEF Shape, Iputs, Returns, HasDp, HasIp, HasOld
  <2>8. PathOk(N)
    BY <1>0, <2>4, <1>5, <1>i DEF PathOk
  <2>9. Owes(r, N) /\ Stays(r, N, icache, icache, 0, 0)
    BY <1>0, <1>a, <2>4, <2>5, <1>5, <1>i DEF Owes, Stays, Sees
  <2>10. Proceeds(p, icache, 0, 0, 0)
    BY ONLY <1>0, <1>2, <1>a, <1>b, <1>c, <2>4, <2>5, <2>6, <2>7, <2>8, <2>9, <1>5, <1>i,
      <2>b DEF Proceeds, r, N
  <2> QED BY <2>10, Proceed
<1>6. CASE Unlocked(r.ip) /\ disk' = disk /\ icache' = read(icache, r.ip) /\ IputThen(p, [r EXCEPT !.ip = 0], r.ip, nf)
  <2>b. Touched(p, icache, r.ip) /\ icache'[r.ip].lock = Nobody
    BY <1>0, <1>6, CacheRead DEF r
  <2> DEFINE m == [r EXCEPT !.ip = 0]
  <2>1. m \in Records
    BY <1>0, <1>d DEF Records, Ptrs
  <2>2. /\ m.fd = r.fd /\ m.cwd = r.cwd /\ m.call = r.call /\ m.path = r.path /\ m.new = r.new
        /\ m.dp = r.dp /\ m.ip = 0 /\ m.old = r.old /\ m.x = r.x /\ m.ret = r.ret /\ m.ino = r.ino
    BY <1>0 DEF Records
  <2>3. IputThen(p, m, r.ip, nf) /\ nf \in Pcs /\ r.ip \in Ptrs
    BY <1>0, <1>a, <1>6, <1>d DEF Pcs, Ptrs
  <2> HIDE DEF m
  <2>4. /\ Framed(p) /\ N \in Records /\ N.pc = "iput"
        /\ N.fd = r.fd /\ N.cwd = r.cwd /\ N.call = r.call /\ N.path = r.path /\ N.new = r.new
        /\ N.dp = r.dp /\ N.ip = 0 /\ N.old = r.old /\ N.x = r.ip /\ N.ret = nf /\ N.ino = r.ino
    BY <2>1, <2>2, <2>3, IputFacts DEF N
  <2>5. at(N) = nf /\ (\A u \in Slots : ~Locks(N, u))
    BY <1>0, <1>a, <2>4, Basics, <1>d DEF Locks, at, Iputs, HoldsDp, HoldsIp
  <2>6. \A u \in Slots : Count(N, u) = Count(r, u)
    BY <1>0, <1>a, <2>4, Basics DEF Count, One
  <2>7. Shape(N)
    BY <1>0, <1>a, <2>4, <2>5, <1>d DEF Shape, Iputs, Returns, HasDp, HasIp, HasOld
  <2>8. PathOk(N)
    BY <1>0, <2>4, <1>d DEF PathOk
  <2>9. Owes(r, N) /\ Stays(r, N, icache, icache, 0, 0)
    BY <1>0, <1>a, <2>4, <2>5, <1>d DEF Owes, Stays, Sees
  <2>10. Proceeds(p, icache, 0, 0, r.ip)
    BY ONLY <1>0, <1>2, <1>a, <1>b, <1>c, <2>4, <2>5, <2>6, <2>7, <2>8, <2>9, <1>6, <2>b DEF Proceeds, r, N
  <2> QED BY <2>10, Proceed
<1>7. CASE /\ Unlocked(r.ip) /\ disk' = disk /\ icache' = read(icache, r.ip) /\ inode(r.ip).type = "dir"
           /\ r.path # <<>> /\ parent_wanted(r) /\ Len(r.path) = 1 /\ Goto(p, [r EXCEPT !.dp = r.ip, !.ip = 0], fo)
  <2>b. Touched(p, icache, r.ip) /\ icache'[r.ip].lock = Nobody
    BY <1>0, <1>7, CacheRead DEF r
  <2>c. disk.ino[icache[r.ip].inum].type = "dir"
    BY <1>1, <1>7
  <2> DEFINE m == [r EXCEPT !.dp = r.ip, !.ip = 0]
  <2>1. m \in Records
    BY <1>0, <1>i DEF Records, Ptrs
  <2>2. /\ m.fd = r.fd /\ m.cwd = r.cwd /\ m.call = r.call /\ m.path = r.path /\ m.new = r.new
        /\ m.dp = r.ip /\ m.ip = 0 /\ m.old = r.old /\ m.x = r.x /\ m.ret = r.ret /\ m.ino = r.ino
    BY <1>0 DEF Records
  <2>3. Goto(p, m, fo) /\ fo \in Pcs
    BY <1>0, <1>a, <1>7, <1>i DEF Pcs, Ptrs
  <2> HIDE DEF m
  <2>4. /\ Framed(p) /\ N \in Records /\ N.pc = fo
        /\ N.fd = r.fd /\ N.cwd = r.cwd /\ N.call = r.call /\ N.path = r.path /\ N.new = r.new
        /\ N.dp = r.ip /\ N.ip = 0 /\ N.old = r.old /\ N.x = r.x /\ N.ret = r.ret /\ N.ino = r.ino
    BY <2>1, <2>2, <2>3, GotoFacts DEF N
  <2>5. at(N) = fo /\ (\A u \in Slots : ~Locks(N, u))
    BY <1>0, <1>a, <2>4, Basics, <1>7, <1>i DEF Locks, at, Iputs, HoldsDp, HoldsIp
  <2>6. \A u \in Slots : Count(N, u) = Count(r, u)
    BY <1>0, <1>a, <2>4, Basics DEF Count, One
  <2>7. Shape(N)
    BY <1>0, <1>a, <2>4, <2>5, <1>7, <1>i DEF Shape, Iputs, Returns, HasDp, HasIp, HasOld
  <2>8. PathOk(N)
    BY <1>0, <2>4, <1>7, <1>i DEF PathOk
  <2>9. Owes(r, N) /\ Stays(r, N, icache, icache, 0, 0)
    BY <1>0, <1>a, <2>4, <2>5, <1>7, <1>i DEF Owes, Stays, Sees
  <2>10. Proceeds(p, icache, 0, 0, r.ip)
    BY ONLY <1>0, <1>2, <1>a, <1>b, <1>c, <2>4, <2>5, <2>6, <2>7, <2>8, <2>9, <1>7, <1>i, <2>b,
      <2>c DEF Proceeds, r, N
  <2> QED BY <2>10, Proceed
<1>8. CASE /\ Unlocked(r.ip) /\ disk' = disk /\ icache' = read(g, r.ip) /\ inode(r.ip).type = "dir"
           /\ r.path # <<>> /\ (parent_wanted(r) => Len(r.path) > 1) /\ n # 0 /\ ~NoEntry(n)
           /\ IputThen(p, [r EXCEPT !.ip = t, !.path = Tail(r.path)], r.ip, "namex")
  <2>a. /\ n \in Inums /\ disk.ino[n].type # "none" /\ n \notin Reserved
        /\ Took(g, t, n) /\ g \in [Slots -> Entries] /\ g # icache /\ t \in Slots /\ g[t].inum = n
        /\ g[r.ip].lock = icache[r.ip].lock /\ t \in Ptrs /\ t # 0
        /\ Count(r, t) > 0 \/ disk.ino[n].nlink >= 1
    BY <1>0, <1>8, <1>g, <1>h
  <2>b. Touched(p, g, r.ip) /\ icache'[r.ip].lock = Nobody
    BY <1>0, <1>8, <2>a, CacheRead DEF r
  <2>c. Tail(r.path) \in Seq(AllNames)
    BY <1>0, <1>8, HeadFacts
  <2> DEFINE m == [r EXCEPT !.ip = t, !.path = Tail(r.path)]
  <2>1. m \in Records
    BY <1>0, <2>a, <2>c DEF Records, Ptrs
  <2>2. /\ m.fd = r.fd /\ m.cwd = r.cwd /\ m.call = r.call /\ m.path = Tail(r.path) /\ m.new = r.new
        /\ m.dp = r.dp /\ m.ip = t /\ m.old = r.old /\ m.x = r.x /\ m.ret = r.ret /\ m.ino = r.ino
    BY <1>0 DEF Records
  <2>3. IputThen(p, m, r.ip, "namex") /\ "namex" \in Pcs /\ r.ip \in Ptrs
    BY <1>0, <1>a, <1>8, <2>a, <2>c DEF Pcs, Ptrs
  <2> HIDE DEF m
  <2>4. /\ Framed(p) /\ N \in Records /\ N.pc = "iput"
        /\ N.fd = r.fd /\ N.cwd = r.cwd /\ N.call = r.call /\ N.path = Tail(r.path) /\ N.new = r.new
        /\ N.dp = r.dp /\ N.ip = t /\ N.old = r.old /\ N.x = r.ip /\ N.ret = "namex" /\ N.ino = r.ino
    BY <2>1, <2>2, <2>3, IputFacts DEF N
  <2>5. at(N) = "namex" /\ (\A u \in Slots : ~Locks(N, u))
    BY <1>0, <1>a, <2>4, Basics DEF Locks, at, Iputs, HoldsDp, HoldsIp
  <2>6. \A u \in Slots : Count(N, u) = Count(r, u) + One(u, t)
    BY <1>0, <1>a, <2>4, Basics, <2>a DEF Count, One
  <2>7. Shape(N)
    BY <1>0, <1>a, <2>4, <2>5, <2>a DEF Shape, Iputs, Returns, HasDp, HasIp, HasOld
  <2>8. PathOk(N)
    BY <1>0, <1>8, <2>4, TailPath
  <2>9. Owes(r, N) /\ Stays(r, N, g, icache, t, 0)
    BY <1>0, <1>a, <2>4, <2>5, <2>a DEF Owes, Stays, Sees
  <2>10. Proceeds(p, g, t, n, r.ip)
    BY ONLY <1>0, <1>2, <1>a, <1>b, <1>c, <2>4, <2>5, <2>6, <2>7, <2>8, <2>9, <1>8, <2>a,
      <2>b DEF Proceeds, r, N
  <2> QED BY <2>10, Proceed
<1> QED BY <1>2, <1>4, <1>5, <1>6, <1>7, <1>8, StopKeeps

\* sys_unlink() gives up on a directory that is not empty.
LEMMA ul_entryFails ==
  ASSUME InodeInv, NEW p \in Procs, proc[p].pc = "ul_entry", Unlocked(proc[p].ip),
         icache' = read(icache, proc[p].ip), disk' = disk, IputThen(p, [proc[p] EXCEPT !.ip = 0], proc[p].ip, "ul_bad")
  PROVE  InodeInv'
<1> DEFINE r == proc[p]  N == proc'[p]
<1>0. /\ r \in Records /\ Shape(r) /\ PathOk(r) /\ r.pc = "ul_entry" /\ Unlocked(r.ip)
      /\ r.ip # 0 /\ r.ip \in Slots /\ icache[r.ip].ref > 0 /\ Count(r, r.ip) > 0
      /\ disk.ino[icache[r.ip].inum].type # "none" /\ icache \in [Slots -> Entries]
      /\ \A s \in Slots : icache[s].lock = p <=> Locks(r, s)
  BY Mine DEF Shape, HasIp, at, Iputs
<1>2. disk' = disk
  OBVIOUS
<1>3. Touched(p, icache, r.ip) /\ icache'[r.ip].lock = Nobody
  BY <1>0, CacheRead
<1>b. Nobody # p
  BY InodeAssumption
<1>4. IputThen(p, [r EXCEPT !.ip = 0], r.ip, "ul_bad")
  OBVIOUS
<1>d. icache[r.ip].lock = Nobody
  BY <1>0 DEF Unlocked
<1> HIDE DEF r, N
<1>e. at(r) = "ul_entry" /\ r.dp # 0 /\ r.old = 0 /\ r.x = 0 /\ r.ret = "end" /\ r.ino = 0
  BY <1>0 DEF Shape, HasDp, HasOld, at, Iputs
<1>c. \A u \in Slots : Locks(r, u) <=> u = r.dp
  BY <1>0, <1>e, Basics DEF Locks, HoldsDp, HoldsIp
<1>a. at(r) = "ul_entry" /\ r.dp # 0 /\ r.old = 0 /\ r.x = 0 /\ r.ret = "end" /\ r.ino = 0 /\ r.ip # r.dp
  BY <1>0, <1>b, <1>c, <1>d, <1>e
<1> DEFINE m == [r EXCEPT !.ip = 0]
<1>11. m \in Records
  BY <1>0 DEF Records, Ptrs
<1>12. /\ m.fd = r.fd /\ m.cwd = r.cwd /\ m.call = r.call /\ m.path = r.path /\ m.new = r.new
      /\ m.dp = r.dp /\ m.ip = 0 /\ m.old = r.old /\ m.x = r.x /\ m.ret = r.ret /\ m.ino = r.ino
  BY <1>0 DEF Records
<1>13. IputThen(p, m, r.ip, "ul_bad") /\ "ul_bad" \in Pcs /\ r.ip \in Ptrs
  BY <1>0, <1>a, <1>4 DEF Pcs, Ptrs
<1> HIDE DEF m
<1>14. /\ Framed(p) /\ N \in Records /\ N.pc = "iput"
      /\ N.fd = r.fd /\ N.cwd = r.cwd /\ N.call = r.call /\ N.path = r.path /\ N.new = r.new
      /\ N.dp = r.dp /\ N.ip = 0 /\ N.old = r.old /\ N.x = r.ip /\ N.ret = "ul_bad" /\ N.ino = r.ino
  BY <1>11, <1>12, <1>13, IputFacts DEF N
<1>15. at(N) = "ul_bad" /\ (\A u \in Slots : Locks(N, u) <=> u = r.dp)
  BY <1>0, <1>a, <1>14, Basics DEF Locks, at, Iputs, HoldsDp, HoldsIp
<1>16. \A u \in Slots : Count(N, u) = Count(r, u)
  BY <1>0, <1>a, <1>14, Basics DEF Count, One
<1>17. Shape(N)
  BY <1>0, <1>a, <1>14, <1>15 DEF Shape, Iputs, Returns, HasDp, HasIp, HasOld
<1>18. PathOk(N)
  BY <1>0, <1>14 DEF PathOk
<1>19. Owes(r, N) /\ Stays(r, N, icache, icache, 0, 0)
  BY <1>0, <1>a, <1>14, <1>15 DEF Owes, Stays, Sees
<1>20. Proceeds(p, icache, 0, 0, r.ip)
  BY ONLY <1>0, <1>2, <1>3, <1>a, <1>b, <1>c, <1>14, <1>15, <1>16, <1>17, <1>18, <1>19 DEF Proceeds, r, N
<1> QED BY <1>20, Proceed

\* The elements of a path, after "/" or not.
LEMMA ElementFacts ==
  ASSUME NEW path \in Paths
  PROVE  LET e == elements(path) IN
         /\ e \in Seq(AllNames)
         /\ e # <<>> => path # <<>> /\ e[Len(e)] = path[Len(path)]
         /\ \A i \in 1 .. Len(e) : \E j \in 1 .. Len(path) : e[i] = path[j]
<1> DEFINE A == AllNames \union {"/"}
<1>1. path \in Seq(A) /\ \A i \in 2 .. Len(path) : path[i] # "/"
  BY DEF Paths
<1>2. Len(path) \in Nat /\ \A i \in 1 .. Len(path) : path[i] \in A
  <2> HIDE DEF A
  <2> QED BY <1>1
<1>3. \A i \in 2 .. Len(path) : path[i] \in AllNames
  BY <1>1, <1>2
<1>4. CASE absolute(path)
  <2>1. path # <<>> /\ elements(path) = Tail(path)
    BY <1>4 DEF absolute, elements
  <2> DEFINE e == Tail(path)
  <2>2. e \in Seq(A) /\ Len(e) = Len(path) - 1 /\ \A i \in 1 .. Len(e) : e[i] = path[i + 1]
    <3> HIDE DEF A
    <3> QED BY <1>1, <2>1
  <2>a. Len(e) \in Nat
    <3> HIDE DEF A, e
    <3> QED BY <2>2
  <2> HIDE DEF e
  <2>3. \A i \in 1 .. Len(e) : i + 1 \in 2 .. Len(path) /\ i + 1 \in 1 .. Len(path) /\ e[i] = path[i + 1]
    BY <1>2, <2>2, <2>a
  <2>4. \A i \in 1 .. Len(e) : e[i] \in AllNames
    BY <1>3, <2>3
  <2>5. e \in Seq(AllNames)
    <3> HIDE DEF A
    <3> QED BY ONLY <2>2, <2>4
  <2>6. e # <<>> => e[Len(e)] = path[Len(path)]
    <3>1. e # <<>> => Len(e) >= 1
      BY <2>5, EmptySeq, <2>a
    <3>2. e # <<>> => Len(e) \in 1 .. Len(e)
      BY <2>a, <3>1
    <3> QED BY <1>2, <2>2, <2>a, <3>2
  <2> QED BY <2>1, <2>3, <2>5, <2>6 DEF e
<1>5. CASE ~absolute(path)
  <2>1. elements(path) = path
    BY <1>5 DEF elements
  <2>2. \A i \in 1 .. Len(path) : path[i] \in AllNames
    <3>1. Len(path) >= 1 => path # <<>>
      BY <1>1
    <3>2. Len(path) >= 1 => path[1] # "/"
      BY <1>5, <3>1 DEF absolute
    <3>3. \A i \in 1 .. Len(path) : i = 1 \/ i \in 2 .. Len(path)
      BY <1>2
    <3> QED BY <1>2, <1>3, <3>2, <3>3
  <2>3. path \in Seq(AllNames)
    <3> HIDE DEF A
    <3> QED BY ONLY <1>1, <2>2
  <2> QED BY <2>1, <2>3
<1> QED BY <1>4, <1>5

\* The root has a link, and nobody creates it.
LEMMA RootFacts ==
  ASSUME InodeInv
  PROVE  disk.ino[ROOTINO].type = "dir" /\ ROOTINO \in Inums /\ ROOTINO \notin Reserved /\ disk.ino[ROOTINO].nlink >= 1
<1>1. disk \in Images /\ DotsOk(disk, Reserved) /\ LinksOk(disk, Owed)
  BY DEF InodeInv, DiskInv
<1>2. disk.ino[ROOTINO].type = "dir" /\ ROOTINO \in Inums /\ ROOTINO \notin Reserved
  BY <1>1, Basics DEF DotsOk, IsDir
<1>3. Owed[ROOTINO] \in Nat
  BY <1>2, Basics, FS_Subset, FS_CardinalityType DEF Owed
<1>4. disk.ino[ROOTINO].nlink >= Links(disk, Owed, ROOTINO) /\ disk.ino[ROOTINO].nlink \in Int
  BY <1>1, <1>2, ImageFacts DEF LinksOk, LinksAt
<1>5. Cardinality(NameSet(disk, ROOTINO)) \in Nat /\ Cardinality(Kids(disk, ROOTINO)) \in Nat
  BY FiniteNames
<1>6. Links(disk, Owed, ROOTINO) >= 1 /\ Links(disk, Owed, ROOTINO) \in Int
  BY <1>3, <1>5 DEF Links
<1> QED BY <1>2, <1>4, <1>6

\* namex() starts at the root or at the current directory.
LEMMA StartFacts ==
  ASSUME InodeInv, NEW p \in Procs, NEW path, ~no_start(path)
  PROVE  LET c == started(p, path)
             t == start(p, path)
         IN  \E n \in Inums : /\ disk.ino[n].type # "none" /\ n \notin Reserved
                              /\ Took(c, t, n) /\ c \in [Slots -> Entries] /\ c # icache /\ t \in Slots
                              /\ Count(proc[p], t) > 0 \/ disk.ino[n].nlink >= 1
<1>1. CASE absolute(path)
  <2>1. started(p, path) = iget(ROOTINO) /\ start(p, path) = slot_of(ROOTINO) /\ ~NoEntry(ROOTINO)
    BY <1>1 DEF started, start, no_start
  <2>2. ROOTINO \in Inums /\ disk.ino[ROOTINO].type # "none" /\ ROOTINO \notin Reserved /\ disk.ino[ROOTINO].nlink >= 1
    BY RootFacts
  <2>3. Took(iget(ROOTINO), slot_of(ROOTINO), ROOTINO) /\ iget(ROOTINO) \in [Slots -> Entries] /\ iget(ROOTINO) # icache
    BY <2>1, <2>2, TookIget
  <2>4. slot_of(ROOTINO) \in Slots
    BY <2>3 DEF Took
  <2> QED BY <2>1, <2>2, <2>3, <2>4
<1>2. CASE ~absolute(path)
  <2> DEFINE t == proc[p].cwd
  <2>1. started(p, path) = idup(t) /\ start(p, path) = t
    BY <1>2 DEF started, start
  <2>2. t # 0 /\ t \in Slots
    BY Mine, RecordFacts
  <2>3. icache[t].ref > 0 /\ Count(proc[p], t) > 0 /\ disk.ino[icache[t].inum].type # "none" /\ icache[t].inum \in Inums
    BY <2>2, Mine
  <2>4. icache[t].inum \notin Reserved
    BY <2>2, NotReserved DEF Sees
  <2>5. Took(idup(t), t, icache[t].inum) /\ idup(t) \in [Slots -> Entries] /\ idup(t) # icache
    BY <2>2, <2>3, TookIdup
  <2> HIDE DEF t
  <2> QED BY <2>1, <2>2, <2>3, <2>4, <2>5
<1> QED BY <1>1, <1>2

\* nameiparent() of the new name starts.
LEMMA ln_parentKeeps == ASSUME InodeInv, NEW p \in Procs, ln_parent(p) PROVE InodeInv'
<1> DEFINE r == proc[p]  N == proc'[p]  t == start(p, r.new)  g == started(p, r.new)  e == elements(r.new)
<1>0. /\ r \in Records /\ Shape(r) /\ PathOk(r) /\ r.pc = "ln_parent" /\ icache \in [Slots -> Entries]
  BY Mine, Zenon DEF ln_parent
<1>1. CASE Stop("full")
  BY <1>1, StopKeeps
<1>2. CASE ~no_start(r.new) /\ icache' = g /\ disk' = disk /\ Goto(p, [r EXCEPT !.ip = t, !.path = e, !.new = <<>>], "namex")
  <2>d. r.new \in Paths
    BY <1>0 DEF Records
  <2>e. /\ e \in Seq(AllNames) /\ \A i \in 1 .. Len(e) : \E j \in 1 .. Len(r.new) : e[i] = r.new[j]
    BY <2>d, ElementFacts
  <2>f. \E n \in Inums : /\ disk.ino[n].type # "none" /\ n \notin Reserved
                         /\ Took(g, t, n) /\ g \in [Slots -> Entries] /\ g # icache /\ t \in Slots
                         /\ Count(r, t) > 0 \/ disk.ino[n].nlink >= 1
    BY <1>2, StartFacts
  <2> HIDE DEF r, N, t, g, e
  <2>g. PICK n \in Inums : /\ disk.ino[n].type # "none" /\ n \notin Reserved
                           /\ Took(g, t, n) /\ g \in [Slots -> Entries] /\ g # icache /\ t \in Slots
                           /\ Count(r, t) > 0 \/ disk.ino[n].nlink >= 1
    BY <2>f
  <2>h. t \in Ptrs /\ t # 0 /\ Touched(p, g, 0)
    BY <1>2, <2>g, Basics DEF Ptrs, Touched
  <2>i. <<>> \in Paths
    <3>1. <<>> \in Seq(AllNames \union {"/"}) /\ Len(<<>>) = 0
      BY EmptySeq
    <3> QED BY <3>1 DEF Paths
  <2>a. at(r) = "ln_parent" /\ r.ip = 0 /\ r.dp = 0 /\ r.x = 0 /\ r.ret = "end" /\ r.ino = 0 /\ r.old # 0 /\ r.call = "link"
    BY <1>0 DEF Shape, HasDp, HasIp, HasOld, at, Iputs
  <2>c. \A u \in Slots : ~Locks(r, u)
    BY <1>0, <2>a, Basics DEF Locks, HoldsIp, HoldsDp
  <2> DEFINE m == [r EXCEPT !.ip = t, !.path = e, !.new = <<>>]
  <2>1. m \in Records
    BY <1>0, <2>e, <2>h, <2>i DEF Records, Ptrs
  <2>2. /\ m.fd = r.fd /\ m.cwd = r.cwd /\ m.call = r.call /\ m.path = e /\ m.new = <<>>
        /\ m.dp = r.dp /\ m.ip = t /\ m.old = r.old /\ m.x = r.x /\ m.ret = r.ret /\ m.ino = r.ino
    BY <1>0 DEF Records
  <2>3. Goto(p, m, "namex") /\ "namex" \in Pcs
    BY <1>0, <2>a, <1>2, <2>e, <2>h, <2>i DEF Pcs, Ptrs
  <2> HIDE DEF m
  <2>4. /\ Framed(p) /\ N \in Records /\ N.pc = "namex"
        /\ N.fd = r.fd /\ N.cwd = r.cwd /\ N.call = r.call /\ N.path = e /\ N.new = <<>>
        /\ N.dp = r.dp /\ N.ip = t /\ N.old = r.old /\ N.x = r.x /\ N.ret = r.ret /\ N.ino = r.ino
    BY <2>1, <2>2, <2>3, GotoFacts DEF N
  <2>5. at(N) = "namex" /\ (\A u \in Slots : ~Locks(N, u))
    BY <1>0, <2>a, <2>4, Basics DEF Locks, at, Iputs, HoldsDp, HoldsIp
  <2>6. \A u \in Slots : Count(N, u) = Count(r, u) + One(u, t)
    BY <1>0, <2>a, <2>4, Basics, <2>h DEF Count, One
  <2>7. Shape(N)
    BY <1>0, <2>a, <2>4, <2>5, <2>h DEF Shape, Iputs, Returns, HasDp, HasIp, HasOld, Ops
  <2>8. PathOk(N)
    BY <1>0, <2>4, <2>a, <2>e DEF PathOk
  <2>9. Owes(r, N) /\ Stays(r, N, g, icache, t, 0)
    BY <1>0, <2>a, <2>4, <2>5, <2>g DEF Owes, Stays, Sees
  <2>10. Proceeds(p, g, t, n, 0)
    BY ONLY <1>0, <1>2, <2>a, <2>4, <2>5, <2>6, <2>7, <2>8, <2>9, <2>c, <2>g, <2>h DEF Proceeds, r, N
  <2> QED BY <2>10, Proceed
<1> QED BY <1>1, <1>2 DEF ln_parent

\* A call begins.
LEMMA BeginKeeps ==
  ASSUME InodeInv, NEW p \in Procs, NEW c \in Calls[p], Begin(p, c)
  PROVE  InodeInv'
<1> DEFINE r == proc[p]  N == proc'[p]  k == [r EXCEPT !.call = c.op]
           t == start(p, c.path)  g == started(p, c.path)  e == elements(c.path)
<1>0. /\ r \in Records /\ Shape(r) /\ PathOk(r) /\ r.pc = "user" /\ icache \in [Slots -> Entries]
  <2>0. r \in Records
    BY Mine
  <2>1. k.pc = r.pc
    BY <2>0 DEF Records
  <2> QED BY <2>1, Mine, Zenon DEF Begin
<1>d. c.path \in Paths /\ c.new \in Paths
  BY InodeAssumption
<1>k. k.fd = r.fd
  BY <1>0 DEF Records
<1>1. CASE UNCHANGED <<disk, durable, icache, proc>> /\ panicked' = "full"
  BY <1>1, NothingKeeps
<1>2. /\ disk' = disk
      /\ \/ UNCHANGED <<disk, durable, icache, proc>> /\ panicked' = "full"
         \/ /\ c.op \in Ops /\ (c.op \in {"open", "create"} => r.fd = 0) /\ ~no_start(c.path) /\ icache' = g
            /\ Enters(p, [k EXCEPT !.path = e, !.new = c.new, !.ip = t], "namex")
         \/ c.op = "write" /\ r.fd # 0 /\ icache' = icache /\ Enters(p, k, "write")
         \/ c.op = "close" /\ r.fd # 0 /\ icache' = icache /\ Enters(p, [k EXCEPT !.x = r.fd, !.fd = 0], "iput")
  BY <1>k DEF Begin, Enters, Ops
<1>b. Nobody # p
  BY InodeAssumption
<1>e. /\ e \in Seq(AllNames) /\ \A i \in 1 .. Len(e) : \E j \in 1 .. Len(c.path) : e[i] = c.path[j]
      /\ e # <<>> => c.path # <<>> /\ e[Len(e)] = c.path[Len(c.path)]
  BY <1>d, ElementFacts
<1>f. ~no_start(c.path) =>
        \E n \in Inums : /\ disk.ino[n].type # "none" /\ n \notin Reserved
                         /\ Took(g, t, n) /\ g \in [Slots -> Entries] /\ g # icache /\ t \in Slots
                         /\ Count(r, t) > 0 \/ disk.ino[n].nlink >= 1
  BY StartFacts
<1>g. /\ NoDotDot => (\A i \in 1 .. Len(e) : e[i] # "..") /\ \A i \in 1 .. Len(c.new) : c.new[i] # ".."
      /\ c.op = "mkdir" /\ e # <<>> => Makes(e[Len(e)])
      /\ c.op = "unlink" /\ e # <<>> => Removes(e[Len(e)])
  <2> HIDE DEF e
  <2>1. NoDotDot => (\A i \in 1 .. Len(e) : e[i] # "..") /\ \A i \in 1 .. Len(c.new) : c.new[i] # ".."
    BY <1>e DEF NoDotDot
  <2>2. c.op = "mkdir" /\ e # <<>> => Makes(e[Len(e)])
    BY <1>e DEF Makes
  <2>3. c.op = "unlink" /\ e # <<>> => Removes(e[Len(e)])
    BY <1>e DEF Removes
  <2> QED BY <2>1, <2>2, <2>3
<1> HIDE DEF r, N, t, g, e
<1>a. at(r) = "user" /\ r.ip = 0 /\ r.dp = 0 /\ r.x = 0 /\ r.ret = "end" /\ r.ino = 0 /\ r.old = 0
  BY <1>0 DEF Shape, HasDp, HasIp, HasOld, at, Iputs
<1>c. \A u \in Slots : ~Locks(r, u)
  BY <1>0, <1>a, Basics DEF Locks, HoldsIp, HoldsDp
<1>h. r.fd \in Ptrs /\ (icache' = icache => Touched(p, icache, 0))
  BY <1>0, CacheKept DEF Records
<1>4. CASE /\ c.op \in Ops /\ (c.op \in {"open", "create"} => r.fd = 0) /\ ~no_start(c.path) /\ icache' = g
           /\ Enters(p, [k EXCEPT !.path = e, !.new = c.new, !.ip = t], "namex")
  <2>a. PICK n \in Inums : /\ disk.ino[n].type # "none" /\ n \notin Reserved
                           /\ Took(g, t, n) /\ g \in [Slots -> Entries] /\ g # icache /\ t \in Slots
                           /\ Count(r, t) > 0 \/ disk.ino[n].nlink >= 1
    BY <1>4, <1>f
  <2>b. t \in Ptrs /\ t # 0 /\ Touched(p, g, 0)
    BY <1>4, <2>a, Basics DEF Ptrs, Touched
  <2> DEFINE m == [k EXCEPT !.path = e, !.new = c.new, !.ip = t]
  <2>1. m \in Records
    BY <1>0, <1>4, <1>d, <1>e, <2>b DEF Records, Ptrs
  <2>2. /\ m.fd = r.fd /\ m.cwd = r.cwd /\ m.call = c.op /\ m.path = e /\ m.new = c.new
        /\ m.dp = r.dp /\ m.ip = t /\ m.old = r.old /\ m.x = r.x /\ m.ret = r.ret /\ m.ino = r.ino
    BY <1>0 DEF Records
  <2>3. Enters(p, m, "namex") /\ "namex" \in Pcs
    BY <1>0, <1>a, <1>4, <1>4, <1>d, <1>e, <2>b DEF Pcs, Ptrs
  <2> HIDE DEF m
  <2>4. /\ Framed(p) /\ N \in Records /\ N.pc = "namex"
        /\ N.fd = r.fd /\ N.cwd = r.cwd /\ N.call = c.op /\ N.path = e /\ N.new = c.new
        /\ N.dp = r.dp /\ N.ip = t /\ N.old = r.old /\ N.x = r.x /\ N.ret = r.ret /\ N.ino = r.ino
    BY <2>1, <2>2, <2>3, EnterFacts DEF N
  <2>5. at(N) = "namex" /\ (\A u \in Slots : ~Locks(N, u))
    BY <1>0, <1>a, <2>4, Basics DEF Locks, at, Iputs, HoldsDp, HoldsIp
  <2>6. \A u \in Slots : Count(N, u) = Count(r, u) + One(u, t)
    BY <1>0, <1>a, <2>4, Basics, <2>b DEF Count, One
  <2>7. Shape(N)
    BY <1>0, <1>a, <2>4, <2>5, <1>4, <2>b DEF Shape, Iputs, Returns, HasDp, HasIp, HasOld, Ops
  <2>8. PathOk(N)
    BY <1>4, <1>g, <2>4 DEF PathOk, Ops
  <2>9. Owes(r, N) /\ Stays(r, N, g, icache, t, 0)
    BY <1>0, <1>a, <2>4, <2>5, <2>a DEF Owes, Stays, Sees
  <2>10. Proceeds(p, g, t, n, 0)
    BY ONLY <1>0, <1>2, <1>a, <1>b, <1>c, <2>4, <2>5, <2>6, <2>7, <2>8, <2>9, <2>a, <2>b DEF Proceeds, r, N
  <2> QED BY <2>10, Proceed
<1>5. CASE c.op = "write" /\ r.fd # 0 /\ icache' = icache /\ Enters(p, k, "write")
  <2> DEFINE m == k
  <2>1. m \in Records
    BY <1>0, <1>5 DEF Records, Ptrs
  <2>2. /\ m.fd = r.fd /\ m.cwd = r.cwd /\ m.call = c.op /\ m.path = r.path /\ m.new = r.new
        /\ m.dp = r.dp /\ m.ip = r.ip /\ m.old = r.old /\ m.x = r.x /\ m.ret = r.ret /\ m.ino = r.ino
    BY <1>0 DEF Records
  <2>3. Enters(p, m, "write") /\ "write" \in Pcs
    BY <1>0, <1>a, <1>5, <1>5 DEF Pcs, Ptrs
  <2> HIDE DEF m
  <2>4. /\ Framed(p) /\ N \in Records /\ N.pc = "write"
        /\ N.fd = r.fd /\ N.cwd = r.cwd /\ N.call = c.op /\ N.path = r.path /\ N.new = r.new
        /\ N.dp = r.dp /\ N.ip = r.ip /\ N.old = r.old /\ N.x = r.x /\ N.ret = r.ret /\ N.ino = r.ino
    BY <2>1, <2>2, <2>3, EnterFacts DEF N
  <2>5. at(N) = "write" /\ (\A u \in Slots : ~Locks(N, u))
    BY <1>0, <1>a, <2>4, Basics DEF Locks, at, Iputs, HoldsDp, HoldsIp
  <2>6. \A u \in Slots : Count(N, u) = Count(r, u)
    BY <1>0, <1>a, <2>4, Basics DEF Count, One
  <2>7. Shape(N)
    BY <1>0, <1>a, <2>4, <2>5, <1>5 DEF Shape, Iputs, Returns, HasDp, HasIp, HasOld
  <2>8. PathOk(N)
    BY <1>0, <1>5, <2>4 DEF PathOk
  <2>9. Owes(r, N) /\ Stays(r, N, icache, icache, 0, 0)
    BY <1>0, <1>a, <2>4, <2>5 DEF Owes, Stays, Sees
  <2>10. Proceeds(p, icache, 0, 0, 0)
    BY ONLY <1>0, <1>2, <1>a, <1>b, <1>c, <2>4, <2>5, <2>6, <2>7, <2>8, <2>9, <1>5, <1>h DEF Proceeds, r, N
  <2> QED BY <2>10, Proceed
<1>6. CASE c.op = "close" /\ r.fd # 0 /\ icache' = icache /\ Enters(p, [k EXCEPT !.x = r.fd, !.fd = 0], "iput")
  <2> DEFINE m == [k EXCEPT !.x = r.fd, !.fd = 0]
  <2>1. m \in Records
    BY <1>0, <1>6, <1>h DEF Records, Ptrs
  <2>2. /\ m.fd = 0 /\ m.cwd = r.cwd /\ m.call = c.op /\ m.path = r.path /\ m.new = r.new
        /\ m.dp = r.dp /\ m.ip = r.ip /\ m.old = r.old /\ m.x = r.fd /\ m.ret = r.ret /\ m.ino = r.ino
    BY <1>0 DEF Records
  <2>3. Enters(p, m, "iput") /\ "iput" \in Pcs
    BY <1>0, <1>a, <1>6, <1>6, <1>h DEF Pcs, Ptrs
  <2> HIDE DEF m
  <2>4. /\ Framed(p) /\ N \in Records /\ N.pc = "iput"
        /\ N.fd = 0 /\ N.cwd = r.cwd /\ N.call = c.op /\ N.path = r.path /\ N.new = r.new
        /\ N.dp = r.dp /\ N.ip = r.ip /\ N.old = r.old /\ N.x = r.fd /\ N.ret = r.ret /\ N.ino = r.ino
    BY <2>1, <2>2, <2>3, EnterFacts DEF N
  <2>5. at(N) = "end" /\ (\A u \in Slots : ~Locks(N, u))
    BY <1>0, <1>a, <2>4, Basics DEF Locks, at, Iputs, HoldsDp, HoldsIp
  <2>6. \A u \in Slots : Count(N, u) = Count(r, u)
    BY <1>0, <1>a, <2>4, Basics DEF Count, One
  <2>7. Shape(N)
    BY <1>0, <1>a, <2>4, <2>5, <1>6 DEF Shape, Iputs, Returns, HasDp, HasIp, HasOld
  <2>8. PathOk(N)
    BY <1>0, <1>6, <2>4 DEF PathOk
  <2>9. Owes(r, N) /\ Stays(r, N, icache, icache, 0, 0)
    BY <1>0, <1>a, <2>4, <2>5 DEF Owes, Stays, Sees
  <2>10. Proceeds(p, icache, 0, 0, 0)
    BY ONLY <1>0, <1>2, <1>a, <1>b, <1>c, <2>4, <2>5, <2>6, <2>7, <2>8, <2>9, <1>6, <1>h DEF Proceeds, r, N
  <2> QED BY <2>10, Proceed
<1> QED BY <1>1, <1>2, <1>4, <1>5, <1>6

\* create() takes an entry for the inode it allocated.
LEMMA cr_igetKeeps == ASSUME InodeInv, NEW p \in Procs, cr_iget(p) PROVE InodeInv'
<1> DEFINE r == proc[p]  N == proc'[p]  n == r.ino  t == slot_of(n)  g == iget(n)
<1>0. /\ r \in Records /\ Shape(r) /\ PathOk(r) /\ r.pc = "cr_iget" /\ icache \in [Slots -> Entries]
      /\ Local(r, icache, disk) /\ \A s \in Slots : icache[s].lock = p <=> Locks(r, s)
  BY Mine, Zenon DEF cr_iget
<1>1. CASE Stop("full")
  BY <1>1, StopKeeps
<1>2. CASE ~NoEntry(n) /\ icache' = g /\ disk' = disk /\ Goto(p, [r EXCEPT !.ip = t, !.ino = 0], "cr_fill")
  <2>a. n # 0 /\ n \in Inums
    BY <1>0 DEF Shape, Records
  <2>b. Took(g, t, n) /\ g \in [Slots -> Entries] /\ g # icache
    BY <1>2, <2>a, TookIget
  <2>c. t \in Slots /\ t \in Ptrs /\ t # 0 /\ g[t].inum = n
    BY <2>b, Basics DEF Took, Ptrs
  <2>d. resv(r, icache) = n /\ disk.ino[n] = Fresh(r.call)
    BY <1>0 DEF resv, Local
  <2>e. disk.ino[n].type # "none"
    BY <2>d DEF Fresh, Free
  <2>f. \A q \in Procs : q # p => resv(proc[q], icache) # n
    BY <2>a, <2>d DEF InodeInv, ReserveInv
  <2>g. DiskInv(durable, {}, NoneOwed)
    BY DEF InodeInv
  <2> HIDE DEF r, N, n, t, g
  <2>h. at(r) = "cr_iget" /\ r.dp # 0 /\ r.ip = 0 /\ r.old = 0 /\ r.x = 0 /\ r.ret = "end"
    BY <1>0 DEF Shape, HasDp, HasIp, HasOld, at, Iputs
  <2>i. r.dp \in Slots /\ icache[r.dp].ref > 0
    BY <2>h, Mine DEF r
  <2>j. g[r.dp].inum = icache[r.dp].inum
    BY <2>b, <2>i DEF Took
  <2>k. /\ disk.ino[icache[r.dp].inum].type = "dir" /\ Ent(disk, icache[r.dp].inum, Head(r.path)) = 0
        /\ \A s \in Slots : Locks(r, s) => icache[s].valid
    BY <1>0, <2>h DEF Local
  <2> DEFINE m == [r EXCEPT !.ip = t, !.ino = 0]
  <2>1. m \in Records
    BY <1>0, <2>c DEF Records, Ptrs
  <2>2. /\ m.fd = r.fd /\ m.cwd = r.cwd /\ m.call = r.call /\ m.path = r.path /\ m.new = r.new
        /\ m.dp = r.dp /\ m.ip = t /\ m.old = r.old /\ m.x = r.x /\ m.ret = r.ret /\ m.ino = 0
    BY <1>0 DEF Records
  <2>3. Goto(p, m, "cr_fill") /\ "cr_fill" \in Pcs
    BY <1>2 DEF Pcs
  <2> HIDE DEF m
  <2>4. /\ Framed(p) /\ N \in Records /\ N.pc = "cr_fill"
        /\ N.fd = r.fd /\ N.cwd = r.cwd /\ N.call = r.call /\ N.path = r.path /\ N.new = r.new
        /\ N.dp = r.dp /\ N.ip = t /\ N.old = r.old /\ N.x = r.x /\ N.ret = r.ret /\ N.ino = 0
    BY <2>1, <2>2, <2>3, GotoFacts DEF N
  <2>5. at(N) = "cr_fill" /\ \A u \in Slots : (Locks(N, u) <=> Locks(r, u)) /\ (Locks(r, u) <=> u = r.dp)
    BY <1>0, <2>4, <2>h, Basics DEF Locks, at, Iputs, HoldsDp, HoldsIp
  <2>6. \A u \in Slots : Count(N, u) = Count(r, u) + One(u, t)
    BY <2>4, <2>h, Basics DEF Count, One
  <2>7. Shape(N) /\ PathOk(N)
    BY <1>0, <2>4, <2>5, <2>h, <2>c DEF Shape, Iputs, Returns, HasDp, HasIp, HasOld, PathOk
  <2>8. resv(N, icache') = n /\ owed(N, icache') = 0 /\ owed(r, icache) = 0
    BY <1>2, <2>4, <2>5, <2>c, <2>h DEF resv, owed
  <2>9. Stays(r, N, g, icache, t, n)
    BY <1>0, <2>4, <2>b, <2>h DEF Stays, Sees
  <2>10. TypeInv' /\ durable' = durable /\ \A q \in Procs : q # p => proc'[q] = proc[q]
    BY <1>2, <2>4, <2>b DEF TypeInv, Framed
  <2>11. \A s \in Slots : /\ icache'[s].lock = p <=> Locks(N, s)
                          /\ Locks(N, s) => icache'[s].valid
                          /\ icache'[s].lock = g[s].lock
    <3>1. \A s \in Slots : g[s].lock = icache[s].lock
      BY <2>b DEF Took
    <3>2. g[r.dp].valid = icache[r.dp].valid
      BY <2>b, <2>i DEF Took
    <3> QED BY <1>0, <1>2, <2>5, <2>k, <3>1, <3>2
  <2>13. /\ \A s \in Slots : icache'[s].inum = g[s].inum /\ icache'[s].ref = g[s].ref
         /\ \A s \in Slots : \/ icache'[s].lock = g[s].lock /\ icache'[s].valid = g[s].valid
                             \/ Count(r, s) > 0 /\ icache[s].lock \in {p, Nobody} /\ icache'[s].lock \in {p, Nobody}
         /\ \A s \in Slots : icache'[s].ref > 0 /\ icache'[s].valid =>
              \/ g[s].valid /\ icache'[s].di = g[s].di /\ ~(r.pc = "iput_valid" /\ r.x = s)
              \/ icache'[s].di = disk.ino[icache'[s].inum] /\ icache'[s].di.type # "none"
    BY <1>0, <1>2
  <2>14. /\ N.dp # 0 => disk.ino[icache'[N.dp].inum].type = "dir"
         /\ N.old # 0 => disk.ino[icache'[N.old].inum].type = "file"
         /\ N.pc \in {"cr_ialloc", "cr_iget", "cr_fill"} => Ent(disk, icache'[N.dp].inum, Head(N.path)) = 0
         /\ N.pc # "ul_entry" /\ N.pc # "iput_free"
         /\ disk.ino[resv(N, icache')] = Fresh(N.call)
    BY <1>2, <2>4, <2>8, <2>d, <2>h, <2>j, <2>k
  <2>12. Moves(p, g, t, n)
    BY ONLY <1>2, <2>a, <2>b, <2>d, <2>e, <2>f, <2>g, <2>6, <2>7, <2>8, <2>9, <2>10, <2>11, <2>13,
      <2>14 DEF Moves, r, N
  <2> QED BY <2>12, MoveOk
<1> QED BY <1>1, <1>2 DEF cr_iget

\* Between calls nobody creates an inode or owes a link.
LEMMA NoDebts ==
  ASSUME \A q \in Procs : Shape(proc[q]) /\ proc[q].pc \in {"user", "end"}
  PROVE  Reserved = {} /\ Owed = NoneOwed
<1>1. ASSUME NEW q \in Procs
      PROVE  resv(proc[q], icache) = 0 /\ owed(proc[q], icache) = 0
  <2>1. proc[q].pc \in {"user", "end"} /\ at(proc[q]) \in {"user", "end"}
    BY DEF at, Iputs
  <2>2. proc[q].old = 0
    BY <2>1 DEF Shape, HasOld
  <2> QED BY <2>1, <2>2 DEF resv, owed
<1>2. Reserved = {}
  BY <1>1, Basics DEF Reserved
<1>3. \A n \in Inums : {q \in Procs : owed(proc[q], icache) = n} = {}
  BY <1>1, Basics
<1>4. Owed = NoneOwed
  BY <1>3, FS_EmptySet DEF Owed, NoneOwed
<1> QED BY <1>2, <1>4

\* end_op(): nobody creates or owes anything when the group commits.
LEMMA end_opKeeps == ASSUME InodeInv, NEW p \in Procs, end_op(p) PROVE InodeInv'
<1> DEFINE r == proc[p]  N == proc'[p]
<1>0. /\ r \in Records /\ Shape(r) /\ r.pc = "end" /\ icache \in [Slots -> Entries] /\ proc \in [Procs -> Records]
      /\ \A s \in Slots : icache[s].lock = p <=> Locks(r, s)
  BY Mine DEF end_op
<1>1. /\ disk' = disk /\ icache' = icache /\ panicked' = panicked /\ N = Idle(r.fd, r.cwd)
      /\ \A q \in Procs : q # p => proc'[q] = proc[q]
  BY <1>0 DEF end_op
<1>2. /\ N.pc = "user" /\ N.fd = r.fd /\ N.cwd = r.cwd /\ N.call = "none" /\ N.path = <<>> /\ N.new = <<>>
      /\ N.dp = 0 /\ N.ip = 0 /\ N.old = 0 /\ N.x = 0 /\ N.ret = "end" /\ N.ino = 0
  BY <1>1 DEF Idle
<1>3. N \in Records
  <2>1. <<>> \in Seq(AllNames) /\ <<>> \in Seq(AllNames \union {"/"}) /\ Len(<<>>) = 0
    BY EmptySeq
  <2>2. <<>> \in Paths
    BY <2>1 DEF Paths
  <2>3. r.fd \in Ptrs /\ r.cwd \in Slots
    BY <1>0 DEF Records
  <2> HIDE DEF r
  <2> QED BY <1>1, <2>1, <2>2, <2>3 DEF Idle, Records, Pcs, Ptrs
<1>4. proc' \in [Procs -> Records]
  BY <1>0, <1>1, <1>3 DEF end_op
<1>5. TypeInv'
  BY <1>1, <1>4 DEF TypeInv, InodeInv
<1>6. \A q \in Procs : Shape(proc[q])
  BY DEF InodeInv, Local
<1>8. DiskInv(durable', {}, NoneOwed)
  <2>1. CASE \A q \in Procs \ {p} : proc[q].pc = "user"
    <3>1. durable' = disk
      BY <2>1 DEF end_op
    <3>2. Reserved = {} /\ Owed = NoneOwed
      BY <1>0, <1>6, <2>1, NoDebts
    <3> QED BY <3>1, <3>2 DEF InodeInv
  <2>2. CASE ~ \A q \in Procs \ {p} : proc[q].pc = "user"
    BY <2>2 DEF end_op, InodeInv
  <2> QED BY <2>1, <2>2
<1> HIDE DEF r, N
<1>10. at(r) = "end" /\ r.dp = 0 /\ r.ip = 0 /\ r.old = 0 /\ r.x = 0
  BY <1>0 DEF Shape, HasDp, HasIp, HasOld, at, Iputs
<1>9. resv(r, icache) = 0 /\ owed(r, icache) = 0
  BY <1>0, <1>10 DEF resv, owed
<1>11. at(N) = "user" /\ \A u \in Slots : ~Locks(N, u) /\ ~Locks(r, u)
  BY <1>0, <1>2, <1>10, Basics DEF Locks, at, Iputs, HoldsDp, HoldsIp
<1>12. \A u \in Slots : Count(N, u) = Count(r, u)
  BY <1>2, <1>10, Basics DEF Count, One
<1>13. Shape(N) /\ PathOk(N)
  <2>1. Len(<<>>) = 0
    OBVIOUS
  <2>2. 1 .. 0 = {}
    OBVIOUS
  <2> QED BY <1>2, <1>11, <2>1, <2>2 DEF Shape, Iputs, Returns, HasDp, HasIp, HasOld, PathOk
<1>14. resv(N, icache') = 0 /\ owed(N, icache') = 0
  BY <1>2, <1>11 DEF resv, owed
<1>15. Stays(r, N, icache, icache, 0, 0)
  BY <1>2 DEF Stays, Sees
<1>16. Moves(p, icache, 0, 0)
  BY ONLY <1>0, <1>1, <1>2, <1>5, <1>8, <1>9, <1>11, <1>12, <1>13, <1>14, <1>15 DEF Moves, r, N
<1> QED BY <1>16, MoveOk

\* The end of iput(): the reference is given back.
LEMMA iput_refKeeps == ASSUME InodeInv, NEW p \in Procs, iput_ref(p) PROVE InodeInv'
<1> DEFINE r == proc[p]  N == proc'[p]  m == [r EXCEPT !.x = 0, !.ret = "end"]
<1>0. /\ r \in Records /\ Shape(r) /\ PathOk(r) /\ r.pc = "iput_ref" /\ r.x # 0 /\ r.x \in Slots
      /\ icache \in [Slots -> Entries] /\ icache[r.x].ref > 0 /\ \A s \in Slots : s # 0 /\ icache[s].ref \in Nat
      /\ r.ip # 0 => r.ip \in Slots
      /\ r.old # 0 => r.old \in Slots
  BY Mine, Zenon DEF iput_ref, Shape, Iputs
<1>1. disk' = disk /\ icache' = [icache EXCEPT ![r.x].ref = icache[r.x].ref - 1] /\ Goto(p, m, r.ret)
  BY DEF iput_ref
<1>2. r.ret \in Returns /\ r.ret \in Pcs
  BY <1>0 DEF Shape, Iputs, Records
<1> HIDE DEF r, N, m
<1>3. /\ m \in Records /\ m.x = 0 /\ m.ret = "end"
      /\ m.fd = r.fd /\ m.cwd = r.cwd /\ m.call = r.call /\ m.path = r.path /\ m.new = r.new
      /\ m.dp = r.dp /\ m.ip = r.ip /\ m.old = r.old /\ m.ino = r.ino
  <2>1. "end" \in Pcs /\ 0 \in Ptrs
    BY DEF Pcs, Ptrs
  <2> QED BY <1>0, <2>1 DEF m, Records
<1>4. /\ Framed(p) /\ N \in Records /\ N.pc = r.ret /\ N.x = 0 /\ N.ret = "end"
      /\ N.fd = r.fd /\ N.cwd = r.cwd /\ N.call = r.call /\ N.path = r.path /\ N.new = r.new
      /\ N.dp = r.dp /\ N.ip = r.ip /\ N.old = r.old /\ N.ino = r.ino
  BY <1>1, <1>2, <1>3, GotoFacts DEF N
<1>5. at(r) = r.ret /\ at(N) = r.ret
  BY <1>0, <1>2, <1>4 DEF at, Iputs, Returns
<1>6. \A u \in Slots : Count(N, u) = Count(r, u) - One(u, r.x)
  BY <1>0, <1>4 DEF Count, One
<1>7. \A u \in Slots : Count(N, u) \in Nat /\ Count(r, u) \in Nat
  BY OfKinds
<1>8. \A u \in Slots : Locks(N, u) <=> Locks(r, u)
  BY <1>0, <1>2, <1>4, <1>5 DEF Locks, Returns
<1>9. /\ icache' \in [Slots -> Entries]
      /\ \A s \in Slots : /\ icache'[s].inum = icache[s].inum /\ icache'[s].ref = icache[s].ref - One(s, r.x)
                          /\ icache'[s].lock = icache[s].lock /\ icache'[s].valid = icache[s].valid /\ icache'[s].di = icache[s].di
  BY <1>0, <1>1 DEF Entries, One
<1>10. \A s \in Slots : /\ Count(N, s) <= Count(r, s) /\ icache'[s].ref = icache[s].ref + Count(N, s) - Count(r, s)
  BY <1>0, <1>6, <1>7, <1>9 DEF One
<1>11. Shape(N) /\ PathOk(N)
  BY <1>0, <1>2, <1>4, <1>5 DEF Shape, Iputs, Returns, HasDp, HasIp, HasOld, HoldsDp, HoldsIp, PathOk
<1>12. resv(N, icache') = 0 /\ resv(r, icache) = 0
  BY <1>0, <1>2, <1>4 DEF resv, Returns
<1>13. Stays(r, N, icache, icache, 0, 0)
  BY <1>0, <1>4 DEF Stays, Sees
<1>14. owed(N, icache') = owed(r, icache)
  <2>1. at(r) = "ul_drop" => r.ip # 0
    BY <1>0 DEF Shape, HasIp
  <2> QED BY <1>0, <1>4, <1>5, <1>9, <2>1 DEF owed
<1>15. N.pc \notin {"ul_entry", "iput_free", "cr_ialloc", "cr_iget", "cr_fill"}
  BY <1>2, <1>4 DEF Returns
<1>16. r.pc # "iput_valid"
  BY <1>0
<1>17. Alters(p, {})
  BY ONLY <1>1, <1>4, <1>8, <1>9, <1>10, <1>11, <1>12, <1>13, <1>15, <1>16 DEF Alters, r, N
<1>18. \A q \in Procs : q # p =>
         resv(proc'[q], icache') = resv(proc[q], icache) /\ owed(proc'[q], icache') = owed(proc[q], icache)
  BY ONLY <1>17, AlterOk, InodeInv, p \in Procs
<1>19. Reserved' = Reserved /\ Owed' = Owed
  BY <1>12, <1>14, <1>18, Debts DEF r, N
<1>20. DiskInv(disk', Reserved', Owed')
  BY <1>1, <1>19 DEF InodeInv
<1> QED BY ONLY <1>17, <1>20, AlterOk, InodeInv, p \in Procs


\* A link more or less, in memory.
LEMMA Relinked ==
  ASSUME NEW j \in Inodes
  PROVE  /\ -1 \in Int /\ 1 \in Int
         /\ LET i == [j EXCEPT !.nlink = j.nlink - 1] IN
              i \in Inodes /\ i.type = j.type /\ i.addr = j.addr /\ i.nlink = j.nlink - 1 /\ i.nlink = j.nlink + (-1)
         /\ LET i == [j EXCEPT !.nlink = j.nlink + 1] IN
              i \in Inodes /\ i.type = j.type /\ i.addr = j.addr /\ i.nlink = j.nlink + 1
BY DEF Inodes

\* unlink() drops the link whose name is gone.
LEMMA ul_dropKeeps == ASSUME InodeInv, NEW p \in Procs, ul_drop(p) PROVE InodeInv'
<1> DEFINE r == proc[p]  N == proc'[p]  n == icache[r.ip].inum  i == [icache[r.ip].di EXCEPT !.nlink = @ - 1]
<1>0. /\ r \in Records /\ Shape(r) /\ PathOk(r) /\ r.pc = "ul_drop" /\ r.ip # 0 /\ r.ip \in Slots
      /\ icache[r.ip].ref > 0 /\ icache \in [Slots -> Entries] /\ icache[r.ip].lock \in {p, Nobody}
      /\ \A s \in Slots : icache[s].lock = p <=> Locks(r, s)
  <2>1. proc[p].pc = "ul_drop"
    BY DEF ul_drop
  <2>2. Locks(proc[p], proc[p].ip)
    BY <2>1 DEF Locks, HoldsIp, at, Iputs
  <2>3. proc[p].ip # 0
    BY <2>1, Mine DEF Shape, HasIp, at, Iputs
  <2>4. /\ proc[p].ip \in Slots /\ icache[proc[p].ip].ref > 0 /\ icache \in [Slots -> Entries]
        /\ \A s \in Slots : icache[s].lock = p <=> Locks(proc[p], s)
    BY <2>3, Mine
  <2> QED BY <2>1, <2>2, <2>3, <2>4, Mine
<1>2. disk' = iupdate(disk, n, i) /\ icache' = written(icache, r.ip, i) /\ IputThen(p, [r EXCEPT !.ip = 0], r.ip, "end")
  BY DEF ul_drop
<1>1. /\ -1 \in Int /\ i \in Inodes
      /\ i.type = disk.ino[n].type /\ i.addr = disk.ino[n].addr /\ i.nlink = disk.ino[n].nlink + (-1)
  <2>1. icache[r.ip].di = disk.ino[n]
    BY <1>0, Read DEF Locks, HoldsIp, at, Iputs
  <2>2. PICK j \in Inodes : j = icache[r.ip].di
    BY <1>0 DEF Entries
  <2>3. i = [j EXCEPT !.nlink = j.nlink - 1]
    BY <2>2
  <2> QED BY ONLY <2>1, <2>2, <2>3, Relinked, Zenon
<1> HIDE DEF r, N, i
<1>a. at(r) = "ul_drop" /\ r.dp = 0 /\ r.old = 0 /\ r.x = 0 /\ r.ret = "end" /\ r.ino = 0
  BY <1>0 DEF Shape, HasDp, HasOld, at, Iputs
<1> DEFINE m == [r EXCEPT !.ip = 0]
<1>m1. m \in Records
  BY <1>0, <1>2 DEF Records, Ptrs
<1>m2. /\ m.fd = r.fd /\ m.cwd = r.cwd /\ m.call = r.call /\ m.path = r.path /\ m.new = r.new /\ m.dp = r.dp
       /\ m.ip = 0 /\ m.old = r.old /\ m.x = r.x /\ m.ret = r.ret /\ m.ino = r.ino
  BY <1>0 DEF Records
<1>m3. IputThen(p, m, r.ip, "end") /\ "end" \in Pcs /\ r.ip \in Ptrs
  BY <1>0, <1>2 DEF Pcs, Ptrs, Records
<1> HIDE DEF m
<1>m4. /\ Framed(p) /\ N \in Records /\ N.pc = "iput" /\ N.x = r.ip /\ N.ret = "end" /\ N.fd = r.fd /\ N.cwd = r.cwd
       /\ N.call = r.call /\ N.path = r.path /\ N.new = r.new /\ N.dp = r.dp /\ N.ip = 0 /\ N.old = r.old
       /\ N.ino = r.ino
  BY <1>m1, <1>m2, <1>m3, IputFacts DEF N
<1>m5. at(N) = "end"
  BY <1>m4 DEF at, Iputs
<1>n1. /\ \A u \in Slots : Count(N, u) = Count(r, u)
  BY <1>0, <1>a, <1>m4, Basics DEF Count, One
<1>n2. /\ ~Locks(N, r.ip) /\ \A u \in Slots : u # r.ip => (Locks(N, u) <=> Locks(r, u))
  BY <1>0, <1>a, <1>m4, <1>m5, Basics DEF Locks, at, Iputs, HoldsDp, HoldsIp
<1>n3. Shape(N) /\ PathOk(N)
  BY <1>0, <1>a, <1>m4, <1>m5 DEF Shape, Iputs, Returns, HasDp, HasIp, HasOld, PathOk
<1>n4. Stays(r, N, icache, icache, 0, 0) /\ r.ip \in Sees(r) \union {r.ip}
  BY <1>0, <1>a, <1>m4 DEF Stays, Sees
<1>n5. owed(N, icache') = 0 /\ owed(r, icache) = icache[r.ip].inum
  BY <1>0, <1>a, <1>2, <1>m4, <1>m5 DEF owed, written
<1>n6. \A l \in Inums : One(owed(N, icache'), l) - One(owed(r, icache), l) = IF l = icache[r.ip].inum THEN -1 ELSE 0
  BY <1>n5, Basics DEF One
<1>n7. Recounts(p, r.ip, i, -1)
  BY ONLY <1>0, <1>1, <1>2, <1>a, <1>m4, <1>n1, <1>n2, <1>n3, <1>n4, <1>n6, Zenon DEF Recounts, r, N
<1> QED BY <1>n7, RecountOk

\* link() failed and takes its link back.
LEMMA ln_badKeeps == ASSUME InodeInv, NEW p \in Procs, ln_bad(p) PROVE InodeInv'
<1> DEFINE r == proc[p]  N == proc'[p]  n == icache[r.old].inum  i == takenBack(inode(r.old))
<1>0. /\ r \in Records /\ Shape(r) /\ PathOk(r) /\ r.pc = "ln_bad" /\ r.old # 0 /\ r.old \in Slots
      /\ icache[r.old].ref > 0 /\ icache \in [Slots -> Entries] /\ icache[r.old].lock \in {p, Nobody}
      /\ n \in Inums /\ disk \in Images /\ Unlocked(r.old) /\ disk.ino[n].type # "none"
      /\ \A s \in Slots : icache[s].lock = p <=> Locks(r, s)
  BY Mine, Zenon DEF ln_bad, Shape, HasOld, at, Iputs, Unlocked
<1>3. inode(r.old) = disk.ino[n]
  BY <1>0, Read
<1>2. disk' = iupdate(disk, n, i) /\ icache' = written(icache, r.old, i) /\ IputThen(p, [r EXCEPT !.old = 0], r.old, "end")
  <2>1. ~NoType(r.old)
    BY <1>0, <1>3 DEF NoType
  <2> QED BY <2>1 DEF ln_bad
<1>1. /\ -1 \in Int /\ i \in Inodes
      /\ i.type = disk.ino[n].type /\ i.addr = disk.ino[n].addr /\ i.nlink = disk.ino[n].nlink + (-1)
  <2>2. PICK j \in Inodes : j = disk.ino[n]
    BY <1>0, ImageFacts
  <2>3. i = [j EXCEPT !.nlink = j.nlink - 1]
    BY <1>3, <2>2 DEF takenBack
  <2> QED BY ONLY <2>2, <2>3, Relinked
<1> HIDE DEF r, N, i
<1>a. at(r) = "ln_bad" /\ r.dp = 0 /\ r.ip = 0 /\ r.x = 0 /\ r.ret = "end" /\ r.ino = 0
  BY <1>0 DEF Shape, HasDp, HasIp, at, Iputs
<1> DEFINE m == [r EXCEPT !.old = 0]
<1>m1. m \in Records
  BY <1>0, <1>2 DEF Records, Ptrs
<1>m2. /\ m.fd = r.fd /\ m.cwd = r.cwd /\ m.call = r.call /\ m.path = r.path /\ m.new = r.new /\ m.dp = r.dp
       /\ m.ip = r.ip /\ m.old = 0 /\ m.x = r.x /\ m.ret = r.ret /\ m.ino = r.ino
  BY <1>0 DEF Records
<1>m3. IputThen(p, m, r.old, "end") /\ "end" \in Pcs /\ r.old \in Ptrs
  BY <1>0, <1>2 DEF Pcs, Ptrs, Records
<1> HIDE DEF m
<1>m4. /\ Framed(p) /\ N \in Records /\ N.pc = "iput" /\ N.x = r.old /\ N.ret = "end" /\ N.fd = r.fd /\ N.cwd = r.cwd
       /\ N.call = r.call /\ N.path = r.path /\ N.new = r.new /\ N.dp = r.dp /\ N.ip = r.ip /\ N.old = 0
       /\ N.ino = r.ino
  BY <1>m1, <1>m2, <1>m3, IputFacts DEF N
<1>m5. at(N) = "end"
  BY <1>m4 DEF at, Iputs
<1>n1. /\ \A u \in Slots : Count(N, u) = Count(r, u)
  BY <1>0, <1>a, <1>m4, Basics DEF Count, One
<1>n2. /\ ~Locks(N, r.old) /\ \A u \in Slots : u # r.old => (Locks(N, u) <=> Locks(r, u))
  BY <1>0, <1>a, <1>m4, <1>m5, Basics DEF Locks, at, Iputs, HoldsDp, HoldsIp
<1>n3. Shape(N) /\ PathOk(N)
  BY <1>0, <1>a, <1>m4, <1>m5 DEF Shape, Iputs, Returns, HasDp, HasIp, HasOld, PathOk
<1>n4. Stays(r, N, icache, icache, 0, 0) /\ r.old \in Sees(r) \union {r.ip}
  BY <1>0, <1>a, <1>m4 DEF Stays, Sees
<1>n5. owed(N, icache') = 0 /\ owed(r, icache) = icache[r.old].inum
  BY <1>0, <1>a, <1>2, <1>m4, <1>m5 DEF owed, written
<1>n6. \A l \in Inums : One(owed(N, icache'), l) - One(owed(r, icache), l) = IF l = icache[r.old].inum THEN -1 ELSE 0
  BY <1>n5, Basics DEF One
<1>n7. Recounts(p, r.old, i, -1)
  BY ONLY <1>0, <1>1, <1>2, <1>a, <1>m4, <1>n1, <1>n2, <1>n3, <1>n4, <1>n6, Zenon DEF Recounts, r, N
<1> QED BY <1>n7, RecountOk

\* link() counts its link before the name is made; a directory is let go.
LEMMA ln_lockKeeps == ASSUME InodeInv, NEW p \in Procs, ln_lock(p) PROVE InodeInv'
<1> DEFINE r == proc[p]  N == proc'[p]  n == icache[r.ip].inum  i == [inode(r.ip) EXCEPT !.nlink = @ + 1]
<1>0. /\ r \in Records /\ Shape(r) /\ PathOk(r) /\ r.pc = "ln_lock" /\ r.ip # 0 /\ r.ip \in Slots
      /\ icache[r.ip].ref > 0 /\ icache \in [Slots -> Entries] /\ icache[r.ip].lock \in {p, Nobody}
      /\ n \in Inums /\ disk \in Images /\ Unlocked(r.ip) /\ disk.ino[n].type # "none" /\ Count(r, r.ip) > 0
      /\ \A s \in Slots : icache[s].lock = p <=> Locks(r, s)
  BY Mine, Zenon DEF ln_lock, Shape, HasIp, at, Iputs, Unlocked
<1>3. inode(r.ip) = disk.ino[n] /\ ~NoType(r.ip)
  BY <1>0, Read DEF NoType
<1>4. CASE icache' = read(icache, r.ip) /\ disk' = disk /\ IputThen(p, [r EXCEPT !.ip = 0], r.ip, "end")
  <2>1. Touched(p, icache, r.ip) /\ icache'[r.ip].lock = Nobody
    BY <1>0, <1>4, CacheRead
  <2>2. Ready(p)
    BY <1>0, <1>4, <2>1 DEF Ready
  <2> QED BY <1>4, <2>2, PutIp
<1>5. \/ icache' = read(icache, r.ip) /\ disk' = disk /\ IputThen(p, [r EXCEPT !.ip = 0], r.ip, "end")
      \/ /\ inode(r.ip).type = "file" /\ disk' = iupdate(disk, n, i) /\ icache' = written(icache, r.ip, i)
         /\ Goto(p, [r EXCEPT !.old = r.ip, !.ip = 0], "ln_parent")
  BY <1>3, Zenon DEF ln_lock
<1> SUFFICES ASSUME inode(r.ip).type = "file", disk' = iupdate(disk, n, i), icache' = written(icache, r.ip, i),
                    Goto(p, [r EXCEPT !.old = r.ip, !.ip = 0], "ln_parent")
             PROVE  InodeInv'
  BY <1>4, <1>5
<1>2. /\ disk' = iupdate(disk, n, i) /\ icache' = written(icache, r.ip, i) /\ disk.ino[n].type = "file"
      /\ Goto(p, [r EXCEPT !.old = r.ip, !.ip = 0], "ln_parent")
  BY <1>3, Zenon
<1>1. /\ 1 \in Int /\ i \in Inodes
      /\ i.type = disk.ino[n].type /\ i.addr = disk.ino[n].addr /\ i.nlink = disk.ino[n].nlink + 1
  <2>2. PICK j \in Inodes : j = disk.ino[n]
    BY <1>0, ImageFacts
  <2>3. i = [j EXCEPT !.nlink = j.nlink + 1]
    BY <1>3, <2>2, Zenon
  <2> QED BY ONLY <2>2, <2>3, Relinked, Zenon
<1> HIDE DEF r, N, i
<1>a. at(r) = "ln_lock" /\ r.dp = 0 /\ r.old = 0 /\ r.x = 0 /\ r.ret = "end" /\ r.ino = 0 /\ r.call = "link"
  BY <1>0 DEF Shape, HasDp, HasOld, at, Iputs
<1> DEFINE m == [r EXCEPT !.old = r.ip, !.ip = 0]
<1>m1. m \in Records
  BY <1>0, <1>2 DEF Records, Ptrs
<1>m2. /\ m.fd = r.fd /\ m.cwd = r.cwd /\ m.call = r.call /\ m.path = r.path /\ m.new = r.new /\ m.dp = r.dp
       /\ m.ip = 0 /\ m.old = r.ip /\ m.x = r.x /\ m.ret = r.ret /\ m.ino = r.ino
  BY <1>0 DEF Records
<1>m3. Goto(p, m, "ln_parent") /\ "ln_parent" \in Pcs
  BY <1>0, <1>2 DEF Pcs, Ptrs, Records
<1> HIDE DEF m
<1>m4. /\ Framed(p) /\ N \in Records /\ N.pc = "ln_parent" /\ N.fd = r.fd /\ N.cwd = r.cwd /\ N.call = r.call
       /\ N.path = r.path /\ N.new = r.new /\ N.dp = r.dp /\ N.ip = 0 /\ N.old = r.ip /\ N.x = r.x /\ N.ret = r.ret
       /\ N.ino = r.ino
  BY <1>m1, <1>m2, <1>m3, GotoFacts DEF N
<1>m5. at(N) = "ln_parent"
  BY <1>m4 DEF at, Iputs
<1>n1. /\ \A u \in Slots : Count(N, u) = Count(r, u)
  BY <1>0, <1>a, <1>m4, Basics DEF Count, One
<1>n2. /\ ~Locks(N, r.ip) /\ \A u \in Slots : u # r.ip => (Locks(N, u) <=> Locks(r, u))
  BY <1>0, <1>a, <1>m4, <1>m5, Basics DEF Locks, at, Iputs, HoldsDp, HoldsIp
<1>n3. Shape(N) /\ PathOk(N)
  BY <1>0, <1>a, <1>m4, <1>m5 DEF Shape, Iputs, Returns, HasDp, HasIp, HasOld, PathOk
<1>n4. Stays(r, N, icache, icache, 0, 0) /\ r.ip \in Sees(r) \union {r.ip}
  BY <1>0, <1>a, <1>m4 DEF Stays, Sees
<1>n5. owed(N, icache') = icache[r.ip].inum /\ owed(r, icache) = 0
  BY <1>0, <1>a, <1>2, <1>m4, <1>m5 DEF owed, written
<1>n6. \A l \in Inums : One(owed(N, icache'), l) - One(owed(r, icache), l) = IF l = icache[r.ip].inum THEN 1 ELSE 0
  BY <1>n5, Basics DEF One
<1>n7. Recounts(p, r.ip, i, 1)
  BY ONLY <1>0, <1>1, <1>2, <1>a, <1>m4, <1>n1, <1>n2, <1>n3, <1>n4, <1>n6, Zenon DEF Recounts, r, N
<1> QED BY <1>n7, RecountOk

\* The first block of an inode that has none.
LEMMA Bmapped ==
  ASSUME NEW d \in Images, d.used # Blocks, NEW n \in Inums, NEW i \in Inodes, i.addr = 0, BlocksOk(d),
         d.ino[n].type = "file", i.type = "file"
  PROVE  LET e == bmap(d, n, i)
             j == bmapped(d, i)
         IN
         /\ e \in Images /\ j \in Inodes /\ j.type = "file" /\ j.nlink = i.nlink
         /\ j.addr \in Blocks /\ j.addr \notin d.used /\ e.ino[n] = j /\ e.used = d.used \union {j.addr}
         /\ \A m \in Inums : m # n => e.ino[m] = d.ino[m]
         /\ \A m \in Inums, a \in AllNames : Ent(e, m, a) = Ent(d, m, a)
<1> DEFINE b == Min(Blocks \ d.used)  f == balloc(d)  j == bmapped(d, i)  e == bmap(d, n, i)
<1>1. /\ f \in Images /\ f.ino = d.ino /\ f.used = d.used \union {b} /\ b \in Blocks /\ b \notin d.used
      /\ f.data[b] = Zeroed /\ \A c \in Blocks : c # b => f.data[c] = d.data[c]
  BY Balloced
<1>2. j = [i EXCEPT !.addr = b] /\ e = iupdate(f, n, j)
  BY DEF bmapped, bmap
<1> HIDE DEF b, f, j, e
<1>3. j \in Inodes /\ j.type = "file" /\ j.nlink = i.nlink /\ j.addr = b
  BY <1>1, <1>2 DEF Inodes
<1>4. /\ e \in Images /\ e.ino[n] = j /\ (\A m \in Inums : m # n => e.ino[m] = f.ino[m]) /\ e.used = f.used /\ e.data = f.data
  <2> DEFINE v == iupdate(f, n, j)
  <2>1. v \in Images /\ v.ino[n] = j /\ (\A m \in Inums : m # n => v.ino[m] = f.ino[m]) /\ v.used = f.used /\ v.data = f.data
    BY <1>1, <1>3, Updated
  <2> QED BY ONLY <1>2, <2>1
<1>5. ASSUME NEW m \in Inums, m # n PROVE \A a \in AllNames : Ent(e, m, a) = Ent(d, m, a)
  <2>1. e.ino[m] = d.ino[m]
    BY <1>1, <1>4, <1>5
  <2>2. d.ino[m].addr # 0 => d.ino[m].addr \in Blocks /\ d.ino[m].addr # b
    BY <1>1, ImageFacts DEF BlocksOk
  <2>3. d.ino[m].addr # 0 => e.data[d.ino[m].addr] = d.data[d.ino[m].addr]
    BY <1>1, <1>4, <2>2
  <2> QED BY <1>4, <2>1, <2>3, SameEnt
<1>6. \A a \in AllNames : Ent(e, n, a) = 0 /\ Ent(d, n, a) = 0
  BY <1>3, <1>4, NoEnt
<1>7. \A m \in Inums, a \in AllNames : Ent(e, m, a) = Ent(d, m, a)
  BY <1>5, <1>6
<1> QED BY <1>1, <1>3, <1>4, <1>7 DEF e, j

\* filewrite(): a file gets its first block, or has one.
LEMMA writeKeeps == ASSUME InodeInv, NEW p \in Procs, write(p) PROVE InodeInv'
<1> DEFINE r == proc[p]  N == proc'[p]  s == r.fd  n == icache[s].inum  i == disk.ino[n]  j == bmapped(disk, i)
<1>0. /\ r \in Records /\ Shape(r) /\ PathOk(r) /\ r.pc = "write" /\ s # 0 /\ s \in Slots
      /\ icache[s].ref > 0 /\ icache \in [Slots -> Entries] /\ icache[s].lock = Nobody
      /\ n \in Inums /\ disk \in Images /\ i.type # "none" /\ inode(s) = i /\ i \in Inodes
      /\ \A u \in Slots : icache[u].lock = p <=> Locks(r, u)
      /\ \A u \in Slots : icache[u].ref \in Nat
  <2>1. r \in Records /\ Shape(r) /\ PathOk(r) /\ r.pc = "write" /\ s # 0 /\ Unlocked(s)
    BY Mine, Zenon DEF write, Shape
  <2>2. s \in Slots /\ icache[s].ref > 0 /\ n \in Inums /\ i.type # "none" /\ disk \in Images
    BY <2>1, Mine
  <2>3. inode(s) = i
    BY <2>1, <2>2, Read
  <2>4. i \in Inodes
    BY <2>2, ImageFacts
  <2> QED BY <2>1, <2>2, <2>3, <2>4, Mine, Zenon DEF Unlocked
<1>1. CASE Stop("full")
  BY <1>1, StopKeeps
<1>2. \/ Stop("full")
      \/ disk' = disk /\ icache' = icache /\ Goto(p, r, "end")
      \/ /\ i.type = "file" /\ i.addr = 0 /\ disk.used # Blocks
         /\ disk' = bmap(disk, n, i) /\ icache' = written(icache, s, j) /\ Goto(p, r, "end")
  BY <1>0, Zenon DEF write, NoType, OutOfBlocks
<1> SUFFICES ASSUME Goto(p, r, "end"),
                    \/ disk' = disk /\ icache' = icache
                    \/ /\ i.type = "file" /\ i.addr = 0 /\ disk.used # Blocks
                       /\ disk' = bmap(disk, n, i) /\ icache' = written(icache, s, j)
             PROVE  InodeInv'
  BY <1>1, <1>2
<1>3. Goto(p, r, "end") /\ \/ disk' = disk /\ icache' = icache
                           \/ /\ i.type = "file" /\ i.addr = 0 /\ disk.used # Blocks
                              /\ disk' = bmap(disk, n, i) /\ icache' = written(icache, s, j)
  OBVIOUS
<1>4. Touched(p, icache, 0) \/ icache' # icache
  BY CacheKept
<1>b. Nobody # p
  BY InodeAssumption
<1> HIDE DEF r, N
<1>a. at(r) = "write" /\ r.dp = 0 /\ r.ip = 0 /\ r.old = 0 /\ r.x = 0 /\ r.ret = "end" /\ r.ino = 0
  BY <1>0 DEF Shape, HasDp, HasIp, HasOld, at, Iputs
<1> DEFINE m == r
<1>m1. m \in Records
  BY <1>0, <1>3 DEF Records, Ptrs
<1>m2. /\ m.fd = r.fd /\ m.cwd = r.cwd /\ m.call = r.call /\ m.path = r.path /\ m.new = r.new /\ m.dp = r.dp
       /\ m.ip = r.ip /\ m.old = r.old /\ m.x = r.x /\ m.ret = r.ret /\ m.ino = r.ino
  BY <1>0 DEF Records
<1>m3. Goto(p, m, "end") /\ "end" \in Pcs
  BY <1>0, <1>3 DEF Pcs, Ptrs, Records
<1> HIDE DEF m
<1>m4. /\ Framed(p) /\ N \in Records /\ N.pc = "end" /\ N.fd = r.fd /\ N.cwd = r.cwd /\ N.call = r.call
       /\ N.path = r.path /\ N.new = r.new /\ N.dp = r.dp /\ N.ip = r.ip /\ N.old = r.old /\ N.x = r.x
       /\ N.ret = r.ret /\ N.ino = r.ino
  BY <1>m1, <1>m2, <1>m3, GotoFacts DEF N
<1>m5. at(N) = "end"
  BY <1>m4 DEF at, Iputs
<1>5. /\ \A u \in Slots : Count(N, u) = Count(r, u) /\ Count(r, u) \in Nat
  BY <1>m4, OfKinds DEF Count
<1>6. \A u \in Slots : ~Locks(N, u) /\ ~Locks(r, u)
  BY <1>0, <1>a, <1>m4, <1>m5, Basics DEF Locks, HoldsDp, HoldsIp
<1>7. Shape(N) /\ PathOk(N)
  BY <1>0, <1>a, <1>m4, <1>m5 DEF Shape, Iputs, Returns, HasDp, HasIp, HasOld, PathOk
<1>8. Stays(r, N, icache, icache, 0, 0) /\ s \in Sees(r) /\ Owes(r, N)
  BY <1>0, <1>a, <1>m4, <1>m5 DEF Stays, Sees, Owes
<1>9. CASE disk' = disk /\ icache' = icache
  <2>1. Proceeds(p, icache, 0, 0, 0)
    BY ONLY <1>0, <1>4, <1>5, <1>6, <1>7, <1>8, <1>9, <1>a, <1>m4 DEF Proceeds, r, N
  <2> QED BY <2>1, Proceed
<1>10. CASE /\ i.type = "file" /\ i.addr = 0 /\ disk.used # Blocks
            /\ disk' = bmap(disk, n, i) /\ icache' = written(icache, s, j)
  <2>0. DiskInv(disk, Reserved, Owed) /\ BlocksOk(disk)
    BY DEF InodeInv, DiskInv
  <2>1. /\ disk' \in Images /\ j \in Inodes /\ j.type = "file" /\ j.nlink = i.nlink
        /\ j.addr \in Blocks /\ j.addr \notin disk.used /\ disk'.ino[n] = j /\ disk'.used = disk.used \union {j.addr}
        /\ \A m2 \in Inums : m2 # n => disk'.ino[m2] = disk.ino[m2]
        /\ \A m2 \in Inums, a \in AllNames : Ent(disk', m2, a) = Ent(disk, m2, a)
    <3> DEFINE v == bmap(disk, n, i)
    <3>1. /\ v \in Images /\ j \in Inodes /\ j.type = "file" /\ j.nlink = i.nlink
          /\ j.addr \in Blocks /\ j.addr \notin disk.used /\ v.ino[n] = j /\ v.used = disk.used \union {j.addr}
          /\ \A m2 \in Inums : m2 # n => v.ino[m2] = disk.ino[m2]
          /\ \A m2 \in Inums, a \in AllNames : Ent(v, m2, a) = Ent(disk, m2, a)
      BY <1>0, <1>10, <2>0, Bmapped, Zenon
    <3>2. disk' = v
      BY <1>10
    <3> HIDE DEF v
    <3> QED BY ONLY <3>1, <3>2, Zenon
  <2> HIDE DEF i, j
  <2>2. /\ icache' \in [Slots -> Entries] /\ \A u \in Slots : u # s => icache'[u] = icache[u]
        /\ icache'[s].inum = n /\ icache'[s].ref = icache[s].ref /\ icache'[s].valid = TRUE
        /\ icache'[s].di = j /\ icache'[s].lock = Nobody
    <3>1. icache \in [Slots -> Entries] /\ s \in Slots /\ j \in Inodes
      BY <1>0, <2>1
    <3>2. /\ written(icache, s, j) \in [Slots -> Entries] /\ \A u \in Slots : u # s => written(icache, s, j)[u] = icache[u]
          /\ written(icache, s, j)[s].inum = icache[s].inum /\ written(icache, s, j)[s].ref = icache[s].ref
          /\ written(icache, s, j)[s].valid = TRUE /\ written(icache, s, j)[s].di = j /\ written(icache, s, j)[s].lock = Nobody
      BY ONLY <3>1 DEF written, Entries
    <3> QED BY ONLY <1>10, <3>2
  <2>3. \A u \in Slots : /\ icache'[u].inum = icache[u].inum /\ Count(N, u) <= Count(r, u)
                         /\ icache'[u].ref = icache[u].ref + Count(N, u) - Count(r, u)
    BY <1>0, <1>5, <2>2
  <2>4. \A u \in Slots : u \notin {s} =>
          /\ icache'[u].lock = icache[u].lock /\ icache'[u].valid = icache[u].valid /\ icache'[u].di = icache[u].di
          /\ Locks(N, u) <=> Locks(r, u)
    BY <1>6, <2>2
  <2>5. \A t \in {s} :
          /\ t \in Slots /\ t \in Sees(r) \union {r.ip}
          /\ icache[t].lock \in {p, Nobody} /\ icache'[t].lock \in {p, Nobody}
          /\ icache'[t].lock = p <=> Locks(N, t)
          /\ Locks(N, t) => icache'[t].valid
          /\ icache'[t].di = disk'.ino[icache[t].inum] /\ icache'[t].di.type # "none"
          /\ disk'.ino[icache[t].inum].type = disk.ino[icache[t].inum].type
    <3>1. /\ s \in Slots /\ s \in Sees(r)
          /\ icache[s].lock = Nobody /\ icache'[s].lock = Nobody /\ p # Nobody /\ ~Locks(N, s)
          /\ icache'[s].di = disk'.ino[icache[s].inum] /\ icache'[s].di.type # "none"
          /\ disk'.ino[icache[s].inum].type = disk.ino[icache[s].inum].type
      BY <1>0, <1>6, <1>8, <1>10, <1>b, <2>1, <2>2, Zenon DEF i
    <3> QED BY ONLY <3>1
  <2>6. \A k \in Inums : disk.ino[k].type # "none" /\ (\A t \in {s} : icache[t].inum # k) =>
          disk'.ino[k] = disk.ino[k] /\ \A a \in AllNames : Ent(disk', k, a) = Ent(disk, k, a)
    BY <2>1
  <2>7. resv(N, icache') = 0 /\ resv(r, icache) = 0 /\ owed(N, icache') = 0 /\ owed(r, icache) = 0
    BY <1>0, <1>a, <1>m4, <1>m5 DEF resv, owed
  <2>8. Alters(p, {s})
    BY ONLY <1>0, <1>7, <1>8, <1>a, <1>m4, <2>2, <2>3, <2>4, <2>5, <2>6, <2>7, Zenon DEF Alters, r, N
  <2>9. \A q \in Procs : q # p =>
          resv(proc'[q], icache') = resv(proc[q], icache) /\ owed(proc'[q], icache') = owed(proc[q], icache)
    BY ONLY <2>8, AlterOk, InodeInv, p \in Procs
  <2>10. Reserved' = Reserved /\ Owed' = Owed /\ Reserved \in SUBSET Inums /\ Owed \in [Inums -> Nat]
    BY <2>7, <2>9, Debts DEF r, N
  <2>11. n \notin Reserved
    BY <1>0, <1>8, NotReserved DEF r
  <2>12. DiskInv(disk', Reserved, Owed)
    <3>1. disk.ino[n].type = "file" /\ disk.ino[n].addr = 0
      BY <1>10 DEF i
    <3>2. disk'.ino[n].type = "file" /\ disk'.ino[n].addr = j.addr /\ disk'.ino[n].nlink = disk.ino[n].nlink
      BY <2>1 DEF i
    <3>3. n \in Inums
      BY <1>0
    <3> HIDE DEF n
    <3> QED BY ONLY <2>0, <2>1, <2>10, <2>11, <3>1, <3>2, <3>3, BlockGiven
  <2>13. DiskInv(disk', Reserved', Owed')
    BY <2>10, <2>12
  <2> QED BY ONLY <2>8, <2>13, AlterOk, InodeInv, p \in Procs
<1> QED BY <1>3, <1>9, <1>10

\* iput() frees the inode, its last reference.
LEMMA iput_freeKeeps == ASSUME InodeInv, NEW p \in Procs, iput_free(p) PROVE InodeInv'
<1> DEFINE r == proc[p]  N == proc'[p]  s == r.x  n == icache[s].inum
<1>0. /\ r \in Records /\ Shape(r) /\ PathOk(r) /\ r.pc = "iput_free" /\ s # 0 /\ s \in Slots
      /\ icache[s].ref = 1 /\ icache \in [Slots -> Entries] /\ icache[s].lock = p /\ icache[s].di = disk.ino[n]
      /\ n \in Inums /\ disk \in Images /\ disk.ino[n].nlink = 0 /\ Count(r, s) > 0
      /\ \A u \in Slots : icache[u].lock = p <=> Locks(r, u)
      /\ \A u \in Slots : icache[u].ref \in Nat
      /\ (r.ip # 0 => r.ip \in Slots) /\ (r.old # 0 => r.old \in Slots)
  <2>1. r \in Records /\ Shape(r) /\ PathOk(r) /\ r.pc = "iput_free" /\ s # 0 /\ Local(r, icache, disk)
    BY Mine, Zenon DEF iput_free, Shape, Iputs
  <2>2. s \in Slots /\ icache[s].ref > 0 /\ n \in Inums /\ disk \in Images /\ Count(r, s) > 0
    BY <2>1, Mine
  <2>3. Locks(r, s)
    BY <2>1 DEF Locks
  <2>4. icache[s].di = disk.ino[n]
    BY <2>1, <2>2, <2>3, Read
  <2>5. icache[s].ref = 1 /\ disk.ino[n].nlink = 0
    BY <2>1 DEF Local
  <2>6. /\ icache \in [Slots -> Entries] /\ \A u \in Slots : icache[u].lock = p <=> Locks(r, u)
        /\ \A u \in Slots : icache[u].ref \in Nat
        /\ (r.ip # 0 => r.ip \in Slots) /\ (r.old # 0 => r.old \in Slots)
    BY Mine
  <2>7. icache[s].lock = p
    BY <2>2, <2>3, <2>6
  <2> HIDE DEF r
  <2> QED BY ONLY <2>1, <2>2, <2>4, <2>5, <2>6, <2>7
<1>1. /\ disk' = iupdate(itrunc(disk, disk.ino[n]), n, Free) /\ icache' = [icache EXCEPT ![s].di = Free]
      /\ Goto(p, r, "iput_valid")
  BY <1>0 DEF iput_free
<1> HIDE DEF r, N
<1>a. at(r) = r.ret /\ r.ret \in Returns
  BY <1>0 DEF Shape, at, Iputs
<1> DEFINE m == r
<1>m1. m \in Records
  BY <1>0, <1>1 DEF Records, Ptrs
<1>m2. /\ m.fd = r.fd /\ m.cwd = r.cwd /\ m.call = r.call /\ m.path = r.path /\ m.new = r.new /\ m.dp = r.dp
       /\ m.ip = r.ip /\ m.old = r.old /\ m.x = r.x /\ m.ret = r.ret /\ m.ino = r.ino
  BY <1>0 DEF Records
<1>m3. Goto(p, m, "iput_valid") /\ "iput_valid" \in Pcs
  BY <1>0, <1>1 DEF Pcs, Ptrs, Records
<1> HIDE DEF m
<1>m4. /\ Framed(p) /\ N \in Records /\ N.pc = "iput_valid" /\ N.fd = r.fd /\ N.cwd = r.cwd /\ N.call = r.call
       /\ N.path = r.path /\ N.new = r.new /\ N.dp = r.dp /\ N.ip = r.ip /\ N.old = r.old /\ N.x = r.x
       /\ N.ret = r.ret /\ N.ino = r.ino
  BY <1>m1, <1>m2, <1>m3, GotoFacts DEF N
<1>m5. at(N) = at(r)
  BY <1>0, <1>m4 DEF at, Iputs
<1>2. \A u \in Slots : Count(N, u) = Count(r, u) /\ Count(r, u) \in Nat /\ icache[u].ref >= Count(r, u)
  BY <1>m4, OfKinds, PtrFacts DEF Count, r
<1>3. Count(r, s) = 1
  BY <1>0, <1>2
<1>4. \A k \in Kinds : N[k] = s => Dying(N, k)
  <2>3. r.fd # s /\ r.cwd # s /\ r.dp # s /\ r.ip # s /\ r.old # s
    BY ONLY <1>3 DEF Count, One
  <2> QED BY <1>m4, <2>3 DEF Kinds, Dying
<1>5. \A u \in Slots : Locks(N, u) <=> Locks(r, u)
  BY <1>0, <1>m4, <1>m5 DEF Locks
<1>6. Shape(N) /\ PathOk(N)
  BY <1>0, <1>m4, <1>m5 DEF Shape, Iputs, Returns, HasDp, HasIp, HasOld, PathOk
<1>7. Stays(r, N, icache, icache, 0, 0) /\ s \in Sees(r)
  BY <1>0, <1>m4 DEF Stays, Sees
<1>8. /\ disk' \in Images /\ disk'.ino[n] = Free /\ \A k \in Inums : k # n => disk'.ino[k] = disk.ino[k]
      /\ disk'.used = disk.used \ {disk.ino[n].addr} /\ disk'.data = disk.data
  <2> DEFINE f == itrunc(disk, disk.ino[n])  e == iupdate(f, n, Free)
  <2>1. f \in Images /\ f.ino = disk.ino /\ f.used = disk.used \ {disk.ino[n].addr} /\ f.data = disk.data
    <3>1. PICK b : b = disk.ino[n].addr
      OBVIOUS
    <3>2. f = [disk EXCEPT !.used = disk.used \ {b}]
      BY <1>0, <3>1 DEF itrunc, Images
    <3>3. disk.used \ {b} \in SUBSET Blocks
      BY <1>0 DEF Images
    <3> HIDE DEF f
    <3> QED BY <1>0, <3>1, <3>2, <3>3, Zenon DEF Images
  <2>2. disk' = e
    BY <1>1
  <2> HIDE DEF f
  <2>3. e \in Images /\ e.ino[n] = Free /\ (\A k \in Inums : k # n => e.ino[k] = f.ino[k]) /\ e.used = f.used /\ e.data = f.data
    <3>1. f \in Images /\ n \in Inums /\ Free \in Inodes
      BY <1>0, <2>1, FreeFacts
    <3> QED BY ONLY <3>1, Updated
  <2> QED BY ONLY <2>1, <2>2, <2>3
<1>9. \A k \in Inums, a \in AllNames : Ent(disk', k, a) = IF k = n THEN 0 ELSE Ent(disk, k, a)
  <2>1. \A a \in AllNames : Ent(disk', n, a) = 0
    BY <1>0, <1>8, NoEnt, FreeFacts
  <2>2. ASSUME NEW k \in Inums, k # n PROVE \A a \in AllNames : Ent(disk', k, a) = Ent(disk, k, a)
    BY <1>0, <1>8, <2>2, SameEnt
  <2> QED BY <2>1, <2>2
<1>10. /\ icache' \in [Slots -> Entries] /\ \A u \in Slots : u # s => icache'[u] = icache[u]
       /\ icache'[s].inum = n /\ icache'[s].ref = icache[s].ref /\ icache'[s].valid = icache[s].valid
       /\ icache'[s].lock = p
  <2>1. icache \in [Slots -> Entries] /\ s \in Slots /\ Free \in Inodes /\ icache' = [icache EXCEPT ![s].di = Free]
    BY <1>0, <1>1, FreeFacts
  <2>2. /\ icache' \in [Slots -> Entries] /\ \A u \in Slots : u # s => icache'[u] = icache[u]
        /\ icache'[s].inum = icache[s].inum /\ icache'[s].ref = icache[s].ref /\ icache'[s].valid = icache[s].valid
        /\ icache'[s].lock = icache[s].lock
    BY ONLY <2>1 DEF Entries
  <2> QED BY <1>0, <2>2
<1>11. resv(N, icache') = 0 /\ resv(r, icache) = 0 /\ owed(N, icache') = owed(r, icache)
  <2>1. at(r) = "ul_drop" => r.ip # 0
    BY <1>0 DEF Shape, HasIp
  <2>2. \A u \in Slots : icache'[u].inum = icache[u].inum
    BY <1>10
  <2> QED BY <1>0, <1>m4, <1>m5, <2>1, <2>2 DEF resv, owed
<1>12. Alters(p, {s})
  <2>1. \A u \in Slots : /\ icache'[u].inum = icache[u].inum /\ Count(N, u) <= Count(r, u)
                         /\ icache'[u].ref = icache[u].ref + Count(N, u) - Count(r, u)
    BY <1>0, <1>2, <1>10
  <2>2. \A u \in Slots : u \notin {s} =>
          /\ icache'[u].lock = icache[u].lock /\ icache'[u].valid = icache[u].valid /\ icache'[u].di = icache[u].di
          /\ Locks(N, u) <=> Locks(r, u)
    BY <1>5, <1>10
  <2>3. Locks(N, s) /\ icache[s].valid
    <3>1. Locks(r, s)
      BY <1>0
    <3>2. \A u \in Slots : Locks(r, u) => icache[u].valid
      BY Mine DEF Local, r
    <3> QED BY <1>0, <1>5, <3>1, <3>2
  <2>4. /\ s \in Slots /\ s \in Sees(r) \union {r.ip} /\ icache[s].lock = p /\ icache'[s].lock = p
        /\ Locks(N, s) /\ icache'[s].valid /\ N.pc = "iput_valid" /\ N.x = s
        /\ icache[s].ref = Count(r, s) /\ \A k \in Kinds : N[k] = s => Dying(N, k)
    BY <1>0, <1>3, <1>4, <1>7, <1>10, <1>m4, <2>3
  <2>5. \A t \in {s} :
          /\ t \in Slots /\ t \in Sees(r) \union {r.ip}
          /\ icache[t].lock \in {p, Nobody} /\ icache'[t].lock \in {p, Nobody}
          /\ icache'[t].lock = p <=> Locks(N, t)
          /\ Locks(N, t) => icache'[t].valid
          /\ icache'[t].valid =>
               \/ icache'[t].di = disk'.ino[icache[t].inum] /\ icache'[t].di.type # "none"
               \/ N.pc = "iput_valid" /\ N.x = t
          /\ \/ disk'.ino[icache[t].inum].type = disk.ino[icache[t].inum].type
             \/ icache[t].ref = Count(r, t) /\ \A k \in Kinds : N[k] = t => Dying(N, k)
    BY ONLY <2>4
  <2>7. N.pc \notin {"ul_entry", "iput_free", "cr_ialloc", "cr_iget", "cr_fill"} /\ r.pc # "iput_valid"
        /\ N.dp = r.dp /\ N.old = r.old
    BY <1>0, <1>m4
  <2>6. \A k \in Inums : disk.ino[k].type # "none" /\ (\A t \in {s} : icache[t].inum # k) =>
          disk'.ino[k] = disk.ino[k] /\ \A a \in AllNames : Ent(disk', k, a) = Ent(disk, k, a)
    BY <1>8, <1>9
  <2> QED BY ONLY <1>6, <1>7, <1>10, <1>11, <1>m4, <2>1, <2>2, <2>5, <2>6, <2>7, Zenon DEF Alters, r, N
<1>13. \A q \in Procs : q # p =>
         resv(proc'[q], icache') = resv(proc[q], icache) /\ owed(proc'[q], icache') = owed(proc[q], icache)
  BY ONLY <1>12, AlterOk, InodeInv, p \in Procs
<1>14. Reserved' = Reserved /\ Owed' = Owed /\ Reserved \in SUBSET Inums /\ Owed \in [Inums -> Nat]
  BY <1>11, <1>13, Debts DEF r, N
<1>15. n \notin Reserved /\ n \in Inums
  BY <1>0, <1>7, NotReserved DEF r
<1>16. DiskInv(disk', Reserved, Owed)
  <2>1. DiskInv(disk, Reserved, Owed) /\ disk.ino[n].nlink = 0
    BY <1>0 DEF InodeInv
  <2> HIDE DEF n
  <2> QED BY ONLY <1>8, <1>9, <1>14, <1>15, <2>1, InodeFreed
<1>17. DiskInv(disk', Reserved', Owed')
  BY <1>14, <1>16
<1> QED BY ONLY <1>12, <1>17, AlterOk, InodeInv, p \in Procs

\* ialloc() takes the first free inode.
LEMMA iallocKeeps == ASSUME InodeInv, NEW p \in Procs, ialloc(p) PROVE InodeInv'
<1> DEFINE r == proc[p]  N == proc'[p]  n == Min({k \in Inums : disk.ino[k].type = "none"})
           i == [Free EXCEPT !.type = IF r.call = "mkdir" THEN "dir" ELSE "file"]
<1>1. CASE Stop("full")
  BY <1>1, StopKeeps
<1> SUFFICES ASSUME {k \in Inums : disk.ino[k].type = "none"} # {}, icache' = icache,
                    disk' = iupdate(disk, n, i), Goto(p, [r EXCEPT !.ino = n], "cr_iget")
             PROVE  InodeInv'
  BY <1>1 DEF ialloc
<1>0. /\ r \in Records /\ Shape(r) /\ PathOk(r) /\ r.pc = "cr_ialloc" /\ icache \in [Slots -> Entries] /\ disk \in Images
      /\ \A u \in Slots : icache[u].ref \in Nat
      /\ Local(r, icache, disk)
  BY Mine, Zenon DEF ialloc
<1>2. n \in Inums /\ n # 0 /\ disk.ino[n].type = "none"
  <2>1. {k \in Inums : disk.ino[k].type = "none"} \in SUBSET Nat
    BY Basics
  <2>2. n \in {k \in Inums : disk.ino[k].type = "none"}
    BY <2>1, MinFacts
  <2> QED BY <2>2, Basics
<1>3. i = Fresh(r.call) /\ i \in Inodes /\ i.type # "none" /\ i.nlink = 0 /\ i.addr = 0
  BY DEF Fresh, Free, Inodes
<1>4. icache' = icache /\ disk' = iupdate(disk, n, i) /\ Goto(p, [r EXCEPT !.ino = n], "cr_iget")
  OBVIOUS
<1> HIDE DEF r, N, n, i
<1>a. at(r) = "cr_ialloc" /\ r.dp # 0 /\ r.ip = 0 /\ r.old = 0 /\ r.x = 0 /\ r.ret = "end" /\ r.ino = 0
      /\ r.dp \in Slots /\ Len(r.path) = 1 /\ r.call \in {"create", "mkdir"}
  BY <1>0 DEF Shape, HasDp, HasIp, HasOld, at, Iputs, Records, Ptrs
<1> DEFINE m == [r EXCEPT !.ino = n]
<1>m1. m \in Records
  BY <1>0, <1>2, <1>4 DEF Records, Ptrs
<1>m2. /\ m.fd = r.fd /\ m.cwd = r.cwd /\ m.call = r.call /\ m.path = r.path /\ m.new = r.new /\ m.dp = r.dp
       /\ m.ip = r.ip /\ m.old = r.old /\ m.x = r.x /\ m.ret = r.ret /\ m.ino = n
  BY <1>0 DEF Records
<1>m3. Goto(p, m, "cr_iget") /\ "cr_iget" \in Pcs
  BY <1>0, <1>2, <1>4 DEF Pcs, Ptrs, Records
<1> HIDE DEF m
<1>m4. /\ Framed(p) /\ N \in Records /\ N.pc = "cr_iget" /\ N.fd = r.fd /\ N.cwd = r.cwd /\ N.call = r.call
       /\ N.path = r.path /\ N.new = r.new /\ N.dp = r.dp /\ N.ip = r.ip /\ N.old = r.old /\ N.x = r.x
       /\ N.ret = r.ret /\ N.ino = n
  BY <1>m1, <1>m2, <1>m3, GotoFacts DEF N
<1>m5. at(N) = "cr_iget"
  BY <1>m4 DEF at, Iputs
<1>5. \A u \in Slots : Count(N, u) = Count(r, u) /\ Count(r, u) \in Nat
  BY <1>m4, OfKinds DEF Count
<1>6. \A u \in Slots : Locks(N, u) <=> Locks(r, u)
  BY <1>0, <1>a, <1>m4, <1>m5 DEF Locks, HoldsDp, HoldsIp
<1>7. Shape(N) /\ PathOk(N)
  BY <1>0, <1>2, <1>a, <1>m4, <1>m5 DEF Shape, Iputs, Returns, HasDp, HasIp, HasOld, PathOk
<1>8. resv(N, icache') = n /\ resv(r, icache) = 0 /\ owed(N, icache') = 0 /\ owed(r, icache) = 0
  BY <1>0, <1>a, <1>m4, <1>m5 DEF resv, owed
<1>9. Stays(r, N, icache, icache, 0, n)
  BY <1>0, <1>a, <1>m4 DEF Stays, Sees
<1>10. /\ disk' \in Images /\ disk'.ino[n] = i /\ \A k \in Inums : k # n => disk'.ino[k] = disk.ino[k]
       /\ disk'.used = disk.used /\ disk'.data = disk.data
  <2> DEFINE e == iupdate(disk, n, i)
  <2>1. e \in Images /\ e.ino[n] = i /\ (\A k \in Inums : k # n => e.ino[k] = disk.ino[k]) /\ e.used = disk.used /\ e.data = disk.data
    BY <1>0, <1>2, <1>3, Updated
  <2> QED BY ONLY <1>4, <2>1
<1>11. \A k \in Inums, a \in AllNames : Ent(disk', k, a) = Ent(disk, k, a)
  <2>1. \A a \in AllNames : Ent(disk', n, a) = 0 /\ Ent(disk, n, a) = 0
    BY <1>0, <1>2, <1>3, <1>10, NoEnt
  <2>2. ASSUME NEW k \in Inums, k # n PROVE \A a \in AllNames : Ent(disk', k, a) = Ent(disk, k, a)
    BY <1>0, <1>10, <2>2, SameEnt
  <2> QED BY <2>1, <2>2
<1>12. Ent(disk', icache[N.dp].inum, Head(N.path)) = 0
  <2>1. Ent(disk, icache[r.dp].inum, Head(r.path)) = 0
    BY <1>0, <1>a DEF Local
  <2>2. icache[r.dp].inum \in Inums /\ Head(r.path) \in AllNames
    BY <1>0, <1>a, HeadFacts DEF Entries, Records
  <2> QED BY <1>11, <1>m4, <2>1, <2>2
<1>13. Alters(p, {})
  <2>1. \A u \in Slots : /\ icache'[u].inum = icache[u].inum /\ Count(N, u) <= Count(r, u)
                         /\ icache'[u].ref = icache[u].ref + Count(N, u) - Count(r, u)
    BY <1>0, <1>4, <1>5
  <2>2. \A k \in Inums : disk.ino[k].type # "none" =>
          disk'.ino[k] = disk.ino[k] /\ \A a \in AllNames : Ent(disk', k, a) = Ent(disk, k, a)
    BY <1>2, <1>10, <1>11
  <2>3. disk'.ino[resv(N, icache')] = Fresh(N.call) /\ disk.ino[resv(N, icache')].type = "none"
    BY <1>2, <1>3, <1>8, <1>10, <1>m4
  <2>4. Stays(r, N, icache, icache, 0, resv(N, icache'))
    BY <1>8, <1>9
  <2> QED BY ONLY <1>0, <1>4, <1>6, <1>7, <1>12, <1>a, <1>m4, <2>1, <2>2, <2>3, <2>4 DEF Alters, r, N
<1>14. \A q \in Procs : q # p =>
         resv(proc'[q], icache') = resv(proc[q], icache) /\ owed(proc'[q], icache') = owed(proc[q], icache)
  BY ONLY <1>13, AlterOk, InodeInv, p \in Procs
<1>15. Owed' = Owed /\ Reserved \in SUBSET Inums /\ Owed \in [Inums -> Nat]
  BY <1>8, <1>14, Debts DEF r, N
<1>16. Reserved' = Reserved \union {n}
  <2>1. \A k \in Inums : k \in Reserved' <=> k \in Reserved \/ k = n
    BY <1>2, <1>8, <1>14, Basics DEF Reserved, r, N
  <2> QED BY <1>2, <2>1 DEF Reserved
<1>17. DiskInv(disk', Reserved \union {n}, Owed)
  <2>1. DiskInv(disk, Reserved, Owed)
    BY DEF InodeInv
  <2>2. disk'.ino[n].type # "none" /\ disk'.ino[n].nlink = 0 /\ disk'.ino[n].addr = 0
    BY <1>3, <1>10
  <2> QED BY ONLY <1>2, <1>10, <1>11, <1>15, <2>1, <2>2, InodeTaken
<1>18. DiskInv(disk', Reserved', Owed')
  BY <1>15, <1>16, <1>17
<1> QED BY ONLY <1>13, <1>18, AlterOk, InodeInv, p \in Procs

\* The entries of all directories when one entry of D's block is written.
LEMMA EntLinked ==
  ASSUME NEW d \in Images, NEW e \in Images, NEW D \in Inums, NEW x \in AllNames, NEW k,
         d.ino[D].type = "dir", d.ino[D].addr # 0,
         \A m \in Inums : m # D => d.ino[m].addr # d.ino[D].addr,
         \A m \in Inums : e.ino[m].type = d.ino[m].type /\ e.ino[m].addr = d.ino[m].addr,
         \A b \in Blocks, a \in AllNames : e.data[b][a] = IF b = d.ino[D].addr /\ a = x THEN k ELSE d.data[b][a]
  PROVE  \A m \in Inums, a \in AllNames : Ent(e, m, a) = IF m = D /\ a = x THEN k ELSE Ent(d, m, a)
<1> SUFFICES ASSUME NEW m \in Inums, NEW a \in AllNames
             PROVE  Ent(e, m, a) = IF m = D /\ a = x THEN k ELSE Ent(d, m, a)
  OBVIOUS
<1>1. Ent(d, m, a) = IF d.ino[m].type = "dir" /\ d.ino[m].addr # 0 THEN d.data[d.ino[m].addr][a] ELSE 0
  BY ImageFacts
<1>2. Ent(e, m, a) = IF d.ino[m].type = "dir" /\ d.ino[m].addr # 0 THEN e.data[d.ino[m].addr][a] ELSE 0
  BY ImageFacts
<1>3. d.ino[m].addr # 0 => d.ino[m].addr \in Blocks
  BY ImageFacts
<1>4. d.ino[m].addr # 0 =>
        e.data[d.ino[m].addr][a] = IF m = D /\ a = x THEN k ELSE d.data[d.ino[m].addr][a]
  BY <1>3
<1> QED BY <1>1, <1>2, <1>4

\* sys_link() writes the new name.
LEMMA ln_linkMakes ==
  ASSUME InodeInv, NEW p \in Procs, ln_link(p), dirlookup(proc[p].dp, Head(proc[p].path)) = 0
  PROVE  InodeInv'
<1> DEFINE r == proc[p]  N == proc'[p]  s == r.dp  D == icache[s].inum  x == Head(r.path)  n == icache[r.old].inum
<1>0. /\ r \in Records /\ Shape(r) /\ PathOk(r) /\ r.pc = "ln_link" /\ s # 0 /\ s \in Slots /\ r.old # 0 /\ r.old \in Slots
      /\ icache[s].ref > 0 /\ icache \in [Slots -> Entries] /\ icache[s].lock = Nobody
      /\ D \in Inums /\ n \in Inums /\ disk \in Images /\ disk.ino[D].type = "dir" /\ inode(s) = disk.ino[D]
      /\ disk.ino[n].type = "file" /\ disk.ino[D] \in Inodes
      /\ \A u \in Slots : icache[u].ref \in Nat
  <2>1. r \in Records /\ Shape(r) /\ PathOk(r) /\ r.pc = "ln_link" /\ s # 0 /\ r.old # 0 /\ Unlocked(s)
    BY Mine, Zenon DEF ln_link, Shape, HasDp, HasOld, at, Iputs
  <2>2. s \in Slots /\ icache[s].ref > 0 /\ D \in Inums /\ disk \in Images /\ r.old \in Slots /\ n \in Inums
    BY <2>1, Mine
  <2>3. disk.ino[D].type = "dir" /\ disk.ino[n].type = "file"
    BY <2>1, Mine, Zenon DEF Local
  <2>4. inode(s) = disk.ino[D]
    BY <2>1, <2>2, Read
  <2>5. disk.ino[D] \in Inodes
    BY <2>2, ImageFacts
  <2>6. icache \in [Slots -> Entries] /\ \A u \in Slots : icache[u].ref \in Nat
    BY Mine
  <2> QED BY ONLY <2>1, <2>2, <2>3, <2>4, <2>5, <2>6 DEF Unlocked
<1>1. /\ disk' = dirlink(disk, D, disk.ino[D], x, n) /\ icache' = written(icache, s, disk.ino[D])
      /\ IputThen(p, [r EXCEPT !.dp = 0], s, "ln_put")
  BY <1>0 DEF ln_link, NoType, read
<1>2. entries(disk, disk.ino[D])[x] = 0
  BY <1>0 DEF dirlookup
<1>b. Nobody # p
  BY InodeAssumption
<1> HIDE DEF r, N
<1>a. at(r) = "ln_link" /\ r.ip = 0 /\ r.x = 0 /\ r.ret = "end" /\ r.ino = 0 /\ r.call = "link" /\ Len(r.path) = 1
  BY <1>0 DEF Shape, HasDp, HasIp, HasOld, at, Iputs
<1>3. x \in AllNames
  <2>1. r.path \in Seq(AllNames) /\ Len(r.path) = 1
    BY <1>0, <1>a DEF Records
  <2> QED BY <2>1
<1> DEFINE m == [r EXCEPT !.dp = 0]
<1>m1. m \in Records
  BY <1>0 DEF Records, Ptrs
<1>m2. /\ m.fd = r.fd /\ m.cwd = r.cwd /\ m.call = r.call /\ m.path = r.path /\ m.new = r.new /\ m.dp = 0
       /\ m.ip = r.ip /\ m.old = r.old /\ m.x = r.x /\ m.ret = r.ret /\ m.ino = r.ino
  BY <1>0 DEF Records
<1>m3. IputThen(p, m, s, "ln_put") /\ "ln_put" \in Pcs /\ s \in Ptrs
  BY <1>0, <1>1 DEF Pcs, Ptrs, Records
<1> HIDE DEF m
<1>m4. /\ Framed(p) /\ N \in Records /\ N.pc = "iput" /\ N.x = s /\ N.ret = "ln_put" /\ N.fd = r.fd /\ N.cwd = r.cwd
       /\ N.call = r.call /\ N.path = r.path /\ N.new = r.new /\ N.dp = 0 /\ N.ip = r.ip /\ N.old = r.old
       /\ N.ino = r.ino
  BY <1>m1, <1>m2, <1>m3, IputFacts DEF N
<1>m5. at(N) = "ln_put"
  BY <1>m4 DEF at, Iputs
<1>4. \A u \in Slots : Count(N, u) = Count(r, u) /\ Count(r, u) \in Nat
  BY <1>0, <1>a, <1>m4, OfKinds, Basics DEF Count, One
<1>5. \A u \in Slots : ~Locks(N, u) /\ ~Locks(r, u)
  BY <1>0, <1>a, <1>m4, <1>m5, Basics DEF Locks, HoldsDp, HoldsIp
<1>6. Shape(N) /\ PathOk(N)
  BY <1>0, <1>a, <1>m4, <1>m5 DEF Shape, Iputs, Returns, HasDp, HasIp, HasOld, PathOk
<1>7. Stays(r, N, icache, icache, 0, 0) /\ s \in Sees(r)
  BY <1>0, <1>a, <1>m4 DEF Stays, Sees
<1>8. D \notin Reserved
  BY <1>0, <1>7, NotReserved DEF r
<1>9. /\ DiskInv(disk, Reserved, Owed) /\ BlocksOk(disk) /\ disk.ino[D].addr # 0
  <2>1. DiskInv(disk, Reserved, Owed)
    BY DEF InodeInv
  <2> QED BY <1>0, <1>8, <2>1 DEF DiskInv, DotsOk
<1>10. Ent(disk, D, x) = 0
  BY <1>0, <1>2 DEF Ent
<1> HIDE DEF x
<1>11. /\ disk' \in Images /\ disk'.ino = disk.ino /\ disk'.used = disk.used
       /\ \A b \in Blocks, a \in AllNames : disk'.data[b][a] = IF b = disk.ino[D].addr /\ a = x THEN n ELSE disk.data[b][a]
  <2> DEFINE v == dirlink(disk, D, disk.ino[D], x, n)
  <2>1. /\ v \in Images /\ v.ino = disk.ino /\ v.used = disk.used
        /\ \A b \in Blocks, a \in AllNames : v.data[b][a] = IF b = disk.ino[D].addr /\ a = x THEN n ELSE disk.data[b][a]
    <3>1. disk \in Images /\ D \in Inums /\ disk.ino[D] \in Inodes /\ disk.ino[D].addr # 0 /\ x \in AllNames /\ n \in Inums \union {0}
      BY <1>0, <1>3, <1>9
    <3> HIDE DEF n, D
    <3> QED BY ONLY <3>1, Dirlinked
  <2> QED BY ONLY <1>1, <2>1, Zenon
<1>12. \A m2 \in Inums, a \in AllNames : Ent(disk', m2, a) = IF m2 = D /\ a = x THEN n ELSE Ent(disk, m2, a)
  <2>1. \A m2 \in Inums : m2 # D => disk.ino[m2].addr # disk.ino[D].addr
    BY <1>0, <1>9 DEF BlocksOk
  <2>2. \A m2 \in Inums : disk'.ino[m2].type = disk.ino[m2].type /\ disk'.ino[m2].addr = disk.ino[m2].addr
    BY <1>11
  <2>3. disk \in Images /\ D \in Inums /\ disk.ino[D].type = "dir" /\ disk.ino[D].addr # 0
    BY <1>0, <1>9
  <2> HIDE DEF n, D
  <2> QED BY ONLY <1>3, <1>11, <2>1, <2>2, <2>3, EntLinked
<1>13. /\ icache' \in [Slots -> Entries] /\ \A u \in Slots : u # s => icache'[u] = icache[u]
       /\ icache'[s].inum = D /\ icache'[s].ref = icache[s].ref /\ icache'[s].valid = TRUE
       /\ icache'[s].di = disk.ino[D] /\ icache'[s].lock = Nobody
  <2>1. PICK j \in Inodes : j = disk.ino[D]
    BY <1>0
  <2>2. icache \in [Slots -> Entries] /\ s \in Slots
    BY <1>0
  <2>3. /\ written(icache, s, j) \in [Slots -> Entries] /\ \A u \in Slots : u # s => written(icache, s, j)[u] = icache[u]
        /\ written(icache, s, j)[s].inum = icache[s].inum /\ written(icache, s, j)[s].ref = icache[s].ref
        /\ written(icache, s, j)[s].valid = TRUE /\ written(icache, s, j)[s].di = j /\ written(icache, s, j)[s].lock = Nobody
    BY ONLY <2>1, <2>2 DEF written, Entries
  <2> QED BY ONLY <1>1, <2>1, <2>3, Zenon
<1>14. resv(N, icache') = 0 /\ resv(r, icache) = 0 /\ owed(N, icache') = 0 /\ owed(r, icache) = n
  BY <1>0, <1>a, <1>m4, <1>m5 DEF resv, owed
<1>15. Alters(p, {s})
  <2>1. \A u \in Slots : /\ icache'[u].inum = icache[u].inum /\ Count(N, u) <= Count(r, u)
                         /\ icache'[u].ref = icache[u].ref + Count(N, u) - Count(r, u)
    BY <1>0, <1>4, <1>13
  <2>2. \A u \in Slots : u \notin {s} =>
          /\ icache'[u].lock = icache[u].lock /\ icache'[u].valid = icache[u].valid /\ icache'[u].di = icache[u].di
          /\ Locks(N, u) <=> Locks(r, u)
    BY <1>5, <1>13
  <2>3. /\ s \in Slots /\ s \in Sees(r)
        /\ icache[s].lock = Nobody /\ icache'[s].lock = Nobody /\ p # Nobody /\ ~Locks(N, s)
        /\ icache'[s].di = disk'.ino[icache[s].inum] /\ icache'[s].di.type # "none"
        /\ disk'.ino[icache[s].inum].type = disk.ino[icache[s].inum].type
    BY <1>0, <1>5, <1>7, <1>11, <1>13, <1>b
  <2>4. \A t \in {s} :
          /\ t \in Slots /\ t \in Sees(r) \union {r.ip}
          /\ icache[t].lock \in {p, Nobody} /\ icache'[t].lock \in {p, Nobody}
          /\ icache'[t].lock = p <=> Locks(N, t)
          /\ Locks(N, t) => icache'[t].valid
          /\ icache'[t].di = disk'.ino[icache[t].inum] /\ icache'[t].di.type # "none"
          /\ disk'.ino[icache[t].inum].type = disk.ino[icache[t].inum].type
    BY ONLY <2>3
  <2>5. \A k \in Inums : disk.ino[k].type # "none" /\ (\A t \in {s} : icache[t].inum # k) =>
          disk'.ino[k] = disk.ino[k] /\ \A a \in AllNames : Ent(disk', k, a) = Ent(disk, k, a)
    BY <1>11, <1>12
  <2>6. N.pc \notin {"ul_entry", "iput_free", "cr_ialloc", "cr_iget", "cr_fill"} /\ r.pc # "iput_valid"
        /\ N.dp = 0 /\ N.old = r.old
    BY <1>0, <1>m4
  <2> QED BY ONLY <1>6, <1>7, <1>13, <1>14, <1>m4, <2>1, <2>2, <2>4, <2>5, <2>6, Zenon DEF Alters, r, N
<1>16. \A q \in Procs : q # p =>
         resv(proc'[q], icache') = resv(proc[q], icache) /\ owed(proc'[q], icache') = owed(proc[q], icache)
  BY ONLY <1>15, AlterOk, InodeInv, p \in Procs
<1>17. /\ Reserved' = Reserved /\ Reserved \in SUBSET Inums /\ Owed \in [Inums -> Nat] /\ Owed' \in [Inums -> Nat]
       /\ \A m2 \in Inums : Owed'[m2] = Owed[m2] + One(owed(N, icache'), m2) - One(owed(r, icache), m2)
  BY <1>14, <1>16, Debts DEF r, N
<1>18. Owed'[n] = Owed[n] - 1 /\ \A m2 \in Inums : m2 # n => Owed'[m2] = Owed[m2]
  <2>1. \A m2 \in Inums : m2 # 0
    BY Basics
  <2> HIDE DEF n
  <2> QED BY <1>0, <1>14, <1>17, <2>1 DEF One, n
<1>19. DiskInv(disk', Reserved, Owed')
  <2>1. /\ D \in Inums /\ n \in Inums /\ disk.ino[D].type = "dir" /\ disk.ino[n].type = "file"
        /\ \A m2 \in Inums : disk'.ino[m2] = disk.ino[m2]
    BY <1>0, <1>11
  <2> HIDE DEF n, D
  <2> QED BY ONLY <1>3, <1>8, <1>9, <1>10, <1>11, <1>12, <1>17, <1>18, <2>1, NameMade
<1>20. DiskInv(disk', Reserved', Owed')
  BY <1>17, <1>19
<1> QED BY ONLY <1>15, <1>20, AlterOk, InodeInv, p \in Procs

\* sys_link() with the directory of the new name.
LEMMA ln_linkKeeps ==
  ASSUME InodeInv, UpLinked, NEW p \in Procs, ln_link(p)
  PROVE  InodeInv'
BY ln_linkFails, ln_linkMakes

\* Cache e is c but for entry s, written with i and locked by l, and entry t, written
\* with j and unlocked.
BothWritten(e, c, s, t, i, j, l) ==
  /\ e \in [Slots -> Entries] /\ \A u \in Slots : u # s /\ u # t => e[u] = c[u]
  /\ e[s].inum = c[s].inum /\ e[s].ref = c[s].ref /\ e[s].valid = TRUE /\ e[s].di = i /\ e[s].lock = l
  /\ e[t].inum = c[t].inum /\ e[t].ref = c[t].ref /\ e[t].valid = TRUE /\ e[t].di = j /\ e[t].lock = Nobody

\* iupdate() of two inodes, one of which is unlocked.
LEMMA TwoWritten ==
  ASSUME NEW c \in [Slots -> Entries], NEW s \in Slots, NEW t \in Slots, s # t, NEW i \in Inodes, NEW j \in Inodes,
         NEW l \in Procs \union {Nobody}
  PROVE  BothWritten(held(written(written(c, s, i), t, j), s, l), c, s, t, i, j, l)
<1>1. PICK a : a = written(c, s, i)
  OBVIOUS
<1>2. /\ a \in [Slots -> Entries] /\ \A u \in Slots : u # s => a[u] = c[u]
      /\ a[s].inum = c[s].inum /\ a[s].ref = c[s].ref /\ a[s].valid = TRUE /\ a[s].di = i /\ a[s].lock = Nobody
  <2>1. c \in [Slots -> Entries] /\ s \in Slots /\ i \in Inodes
    OBVIOUS
  <2> QED BY ONLY <1>1, <2>1 DEF written, Entries
<1>3. PICK b : b = written(a, t, j)
  OBVIOUS
<1>4. /\ b \in [Slots -> Entries] /\ \A u \in Slots : u # t => b[u] = a[u]
      /\ b[t].inum = a[t].inum /\ b[t].ref = a[t].ref /\ b[t].valid = TRUE /\ b[t].di = j /\ b[t].lock = Nobody
  <2>1. a \in [Slots -> Entries] /\ t \in Slots /\ j \in Inodes
    BY <1>2
  <2> QED BY ONLY <1>3, <2>1 DEF written, Entries
<1>5. PICK e : e = held(b, s, l)
  OBVIOUS
<1>6. /\ e \in [Slots -> Entries] /\ \A u \in Slots : u # s => e[u] = b[u]
      /\ e[s].inum = b[s].inum /\ e[s].ref = b[s].ref /\ e[s].valid = b[s].valid /\ e[s].di = b[s].di /\ e[s].lock = l
  <2>1. b \in [Slots -> Entries] /\ s \in Slots /\ l \in Procs \union {Nobody}
    BY <1>4
  <2> QED BY ONLY <1>5, <2>1 DEF held, Entries
<1>7. BothWritten(e, c, s, t, i, j, l)
  BY <1>2, <1>4, <1>6 DEF BothWritten
<1> QED BY <1>1, <1>3, <1>5, <1>7

\* Image e is d but for the inode of D, now j, and entry x in its block, now k.
DirWritten(e, d, D, j, x, k) ==
  /\ e \in Images /\ e.ino[D] = j /\ \A m \in Inums : m # D => e.ino[m] = d.ino[m]
  /\ e.used = d.used
  /\ \A m \in Inums, a \in AllNames : Ent(e, m, a) = IF m = D /\ a = x THEN k ELSE Ent(d, m, a)

\* iupdate() of directory D and writei() of an entry of its block.
LEMMA ParentLinked ==
  ASSUME NEW d \in Images, NEW D \in Inums, NEW j \in Inodes, j.type = "dir", d.ino[D].type = "dir",
         j.addr = d.ino[D].addr, j.addr # 0, \A m \in Inums : m # D => d.ino[m].addr # d.ino[D].addr,
         NEW x \in AllNames, NEW k \in Inums \union {0}
  PROVE  DirWritten(dirlink(iupdate(d, D, j), D, j, x, k), d, D, j, x, k)
<1> DEFINE f == iupdate(d, D, j)  e == dirlink(f, D, j, x, k)
<1>0. d.ino[D].addr # 0 /\ d \in Images /\ D \in Inums /\ j \in Inodes /\ j.addr # 0 /\ x \in AllNames /\ k \in Inums \union {0}
  OBVIOUS
<1>1. /\ f \in Images /\ f.ino[D] = j /\ \A m \in Inums : m # D => f.ino[m] = d.ino[m]
      /\ f.used = d.used /\ f.data = d.data
  BY ONLY <1>0, Updated
<1> HIDE DEF f
<1>2. /\ e \in Images /\ e.ino = f.ino /\ e.used = f.used
      /\ \A b \in Blocks, a \in AllNames : e.data[b][a] = IF b = j.addr /\ a = x THEN k ELSE f.data[b][a]
  BY ONLY <1>0, <1>1, Dirlinked
<1> HIDE DEF e
<1>3. \A m \in Inums : e.ino[m].type = d.ino[m].type /\ e.ino[m].addr = d.ino[m].addr
  BY <1>1, <1>2
<1>4. \A b \in Blocks, a \in AllNames : e.data[b][a] = IF b = d.ino[D].addr /\ a = x THEN k ELSE d.data[b][a]
  BY <1>1, <1>2
<1>6. \A m \in Inums, a \in AllNames : Ent(e, m, a) = IF m = D /\ a = x THEN k ELSE Ent(d, m, a)
  BY <1>0, <1>2, <1>3, <1>4, EntLinked
<1>7. DirWritten(e, d, D, j, x, k)
  BY <1>1, <1>2, <1>6 DEF DirWritten
<1> QED BY <1>7 DEF e, f

\* p, which has dp locked, has written the inodes of ip and dp through, keeps ip locked
\* and puts dp, on its way to label.
Relinks(p, i, j, label) ==
  LET r == proc[p]
      n == icache[r.ip].inum
      D == icache[r.dp].inum
  IN
  /\ r.pc \in {"ul_entry", "cr_fill"} /\ Unlocked(r.ip) /\ label \in HoldsIp
  /\ i \in Inodes /\ i.type = disk.ino[n].type /\ disk'.ino[n] = i
  /\ j \in Inodes /\ j.type = disk.ino[D].type /\ disk'.ino[D] = j
  /\ \A m \in Inums : disk.ino[m].type # "none" /\ m # n /\ m # D =>
       disk'.ino[m] = disk.ino[m] /\ \A a \in AllNames : Ent(disk', m, a) = Ent(disk, m, a)
  /\ icache' = held(written(written(icache, r.ip, i), r.dp, j), r.ip, p)
  /\ IputThen(p, [r EXCEPT !.dp = 0], r.dp, label)

\* What it relies on.
LEMMA PairFacts ==
  ASSUME InodeInv, NEW p \in Procs, proc[p].pc \in {"ul_entry", "cr_fill"}, Unlocked(proc[p].ip)
  PROVE  LET r == proc[p]
             n == icache[r.ip].inum
             D == icache[r.dp].inum
         IN
         /\ r.ip \in Slots /\ r.dp \in Slots /\ r.ip # 0 /\ r.dp # 0 /\ r.ip # r.dp
         /\ icache[r.ip].ref > 0 /\ icache[r.dp].ref > 0 /\ icache[r.ip].lock = Nobody /\ icache[r.dp].lock = p
         /\ n \in Inums /\ D \in Inums /\ n # D /\ n # 0
         /\ inode(r.ip) = disk.ino[n] /\ icache[r.dp].di = disk.ino[D]
         /\ disk \in Images /\ disk.ino[n].type # "none" /\ disk.ino[D].type = "dir" /\ D \notin Reserved
         /\ r.old = 0 /\ r.x = 0 /\ r.ino = 0 /\ r.ret = "end" /\ Len(r.path) = 1 /\ at(r) = r.pc
         /\ Head(r.path) \in AllNames /\ Head(r.path) = r.path[Len(r.path)] /\ r.path # <<>>
         /\ \A u \in Slots : Locks(r, u) <=> u = r.dp
<1> DEFINE r == proc[p]  n == icache[r.ip].inum  D == icache[r.dp].inum
<1>1. /\ r \in Records /\ Shape(r) /\ r.pc \in {"ul_entry", "cr_fill"} /\ icache[r.ip].lock = Nobody
  BY Mine DEF Unlocked
<1>2. /\ at(r) = r.pc /\ r.old = 0 /\ r.x = 0 /\ r.ino = 0 /\ r.ret = "end" /\ Len(r.path) = 1 /\ r.ip # 0 /\ r.dp # 0
  <2> HIDE DEF r
  <2> QED BY <1>1 DEF Shape, at, Iputs, HasDp, HasIp, HasOld
<1>3. /\ r.ip \in Slots /\ r.dp \in Slots /\ icache[r.ip].ref > 0 /\ icache[r.dp].ref > 0
      /\ n \in Inums /\ D \in Inums /\ n # 0 /\ disk \in Images /\ disk.ino[n].type # "none"
  BY <1>2, Mine
<1>4. disk.ino[D].type = "dir"
  BY <1>2, Mine DEF Local
<1>5. \A u \in Slots : Locks(r, u) <=> u = r.dp
  <2> HIDE DEF r
  <2> QED BY <1>1, <1>2, Basics DEF Locks, HoldsDp, HoldsIp
<1>6. icache[r.dp].lock = p
  <2>1. \A u \in Slots : icache[u].lock = p <=> Locks(r, u)
    BY Mine
  <2> QED BY <1>3, <1>5, <2>1
<1>7. r.ip # r.dp
  BY <1>1, <1>6, InodeAssumption
<1>8. n # D
  BY <1>3, <1>7 DEF InodeInv, UniqInv
<1>9. inode(r.ip) = disk.ino[n]
  BY <1>3, Read
<1>10. icache[r.dp].di = disk.ino[D]
  <2>1. Locks(proc[p], r.dp) /\ proc[p].pc # "iput_valid"
    BY <1>1, <1>3, <1>5
  <2> QED BY <1>3, <2>1, Read
<1>11. D \notin Reserved
  BY <1>2, NotReserved DEF Sees
<1>12. Head(r.path) \in AllNames /\ Head(r.path) = r.path[Len(r.path)] /\ r.path # <<>>
  <2>1. r.path \in Seq(AllNames) /\ Len(r.path) = 1
    BY <1>1, <1>2 DEF Records
  <2> HIDE DEF r
  <2> QED BY ONLY <2>1
<1> QED BY <1>1, <1>2, <1>3, <1>4, <1>5, <1>6, <1>7, <1>8, <1>9, <1>10, <1>11, <1>12


\* Such a step alters the two entries; its debts are known.
LEMMA RelinkAlters ==
  ASSUME InodeInv, NEW p \in Procs, NEW i, NEW j, NEW label, Relinks(p, i, j, label)
  PROVE  LET N == proc'[p] IN
         /\ Alters(p, {proc[p].ip, proc[p].dp}) /\ resv(N, icache') = 0 /\ owed(proc[p], icache) = 0
         /\ owed(N, icache') = IF label = "ul_drop" THEN icache[proc[p].ip].inum ELSE 0
<1> DEFINE r == proc[p]  N == proc'[p]  s == r.ip  t == r.dp  n == icache[s].inum  D == icache[t].inum
<1>0. /\ r.pc \in {"ul_entry", "cr_fill"} /\ Unlocked(s) /\ label \in HoldsIp
      /\ i \in Inodes /\ i.type = disk.ino[n].type /\ disk'.ino[n] = i
      /\ j \in Inodes /\ j.type = disk.ino[D].type /\ disk'.ino[D] = j
      /\ icache' = held(written(written(icache, s, i), t, j), s, p)
      /\ IputThen(p, [r EXCEPT !.dp = 0], t, label)
  BY DEF Relinks
<1>1. \A m \in Inums : disk.ino[m].type # "none" /\ m # n /\ m # D =>
       disk'.ino[m] = disk.ino[m] /\ \A a \in AllNames : Ent(disk', m, a) = Ent(disk, m, a)
  BY DEF Relinks
<1>2. /\ s \in Slots /\ t \in Slots /\ s # 0 /\ t # 0 /\ s # t
      /\ icache[s].ref > 0 /\ icache[t].ref > 0 /\ icache[s].lock = Nobody /\ icache[t].lock = p
      /\ n \in Inums /\ D \in Inums /\ n # D /\ n # 0
      /\ disk \in Images /\ disk.ino[n].type # "none" /\ disk.ino[D].type = "dir"
      /\ r.old = 0 /\ r.x = 0 /\ r.ino = 0 /\ r.ret = "end" /\ Len(r.path) = 1 /\ at(r) = r.pc
      /\ \A u \in Slots : Locks(r, u) <=> u = t
  BY <1>0, PairFacts, Zenon
<1>3. /\ r \in Records /\ Shape(r) /\ PathOk(r) /\ icache \in [Slots -> Entries] /\ \A u \in Slots : icache[u].ref \in Nat
  BY Mine
<1>b. Nobody # p
  BY InodeAssumption
<1>4. label \in {"cr_done", "ul_drop"}
  BY <1>0 DEF HoldsIp
<1>5. /\ icache' \in [Slots -> Entries] /\ \A u \in Slots : u # s /\ u # t => icache'[u] = icache[u]
      /\ icache'[s].inum = n /\ icache'[s].ref = icache[s].ref /\ icache'[s].valid = TRUE /\ icache'[s].di = i
      /\ icache'[s].lock = p
      /\ icache'[t].inum = D /\ icache'[t].ref = icache[t].ref /\ icache'[t].valid = TRUE /\ icache'[t].di = j
      /\ icache'[t].lock = Nobody
  <2>1. icache \in [Slots -> Entries] /\ s \in Slots /\ t \in Slots /\ s # t /\ i \in Inodes /\ j \in Inodes
        /\ p \in Procs \union {Nobody}
    BY <1>0, <1>2, <1>3
  <2> HIDE DEF s, t
  <2>2. BothWritten(held(written(written(icache, s, i), t, j), s, p), icache, s, t, i, j, p)
    BY ONLY <2>1, TwoWritten
  <2>3. BothWritten(icache', icache, s, t, i, j, p)
    BY ONLY <1>0, <2>2
  <2> QED BY ONLY <2>3 DEF BothWritten
<1> HIDE DEF r, N
<1> DEFINE m == [r EXCEPT !.dp = 0]
<1>m1. m \in Records
  BY <1>3, <1>2, <1>4 DEF Records, Ptrs
<1>m2. /\ m.fd = r.fd /\ m.cwd = r.cwd /\ m.call = r.call /\ m.path = r.path /\ m.new = r.new /\ m.dp = 0
       /\ m.ip = r.ip /\ m.old = r.old /\ m.x = r.x /\ m.ret = r.ret /\ m.ino = r.ino
  BY <1>3, <1>2, <1>4 DEF Records
<1>m3. IputThen(p, m, t, label) /\ label \in Pcs /\ t \in Ptrs
  BY <1>3, <1>2, <1>4, <1>0 DEF Pcs, Ptrs, Records
<1> HIDE DEF m
<1>m4. /\ Framed(p) /\ N \in Records /\ N.pc = "iput" /\ N.x = t /\ N.ret = label /\ N.fd = r.fd /\ N.cwd = r.cwd
       /\ N.call = r.call /\ N.path = r.path /\ N.new = r.new /\ N.dp = 0 /\ N.ip = r.ip /\ N.old = r.old
       /\ N.ino = r.ino
  BY <1>m1, <1>m2, <1>m3, IputFacts DEF N
<1>m5. at(N) = label
  BY <1>m4 DEF at, Iputs
<1>6. \A u \in Slots : Count(N, u) = Count(r, u) /\ Count(r, u) \in Nat
  BY <1>2, <1>m4, OfKinds, Basics DEF Count, One
<1>7. \A u \in Slots : Locks(N, u) <=> u = s
  BY <1>2, <1>4, <1>m4, <1>m5, Basics DEF Locks, HoldsDp, HoldsIp
<1>8. Shape(N) /\ PathOk(N)
  <2>1. Shape(N)
    <3>1. \A a : a \notin {"user", "end"} => (r.call \in {"open", "create"} /\ at(r) \notin {"user", "end"} => r.fd = 0)
      BY <1>3 DEF Shape
    <3>2. r.call \in {"open", "create"} => r.fd = 0
      BY <1>0, <1>2, <1>3 DEF Shape
    <3> QED BY ONLY <1>2, <1>4, <1>m4, <1>m5, <3>2 DEF Shape, Iputs, Returns, HasDp, HasIp, HasOld
  <2> QED BY <1>3, <1>m4, <2>1 DEF PathOk
<1>9. Stays(r, N, icache, icache, 0, 0) /\ t \in Sees(r)
  BY <1>2, <1>m4 DEF Stays, Sees
<1>10. resv(N, icache') = 0 /\ owed(r, icache) = 0 /\ owed(N, icache') = IF label = "ul_drop" THEN n ELSE 0
  <2>1. N.pc = "iput" /\ N.ip = s /\ N.old = 0 /\ at(N) = label
    BY <1>2, <1>m4, <1>m5
  <2>2. at(r) # "ul_drop"
    BY <1>0, <1>2 DEF r
  <2> HIDE DEF s, n
  <2> QED BY ONLY <1>2, <1>5, <2>1, <2>2 DEF resv, owed
<1>11. Alters(p, {s, t})
  <2>1. \A u \in Slots : /\ icache'[u].inum = icache[u].inum /\ Count(N, u) <= Count(r, u)
                         /\ icache'[u].ref = icache[u].ref + Count(N, u) - Count(r, u)
    BY <1>3, <1>5, <1>6
  <2>2. \A u \in Slots : u \notin {s, t} =>
          /\ icache'[u].lock = icache[u].lock /\ icache'[u].valid = icache[u].valid /\ icache'[u].di = icache[u].di
          /\ Locks(N, u) <=> Locks(r, u)
    BY <1>2, <1>5, <1>7
  <2>3. /\ s \in Slots /\ s \in {r.ip} /\ icache[s].lock = Nobody /\ icache'[s].lock = p /\ Locks(N, s)
        /\ icache'[s].di = disk'.ino[icache[s].inum] /\ icache'[s].di.type # "none" /\ icache'[s].valid
        /\ disk'.ino[icache[s].inum].type = disk.ino[icache[s].inum].type
    BY <1>0, <1>2, <1>5, <1>7
  <2>4. /\ t \in Slots /\ t \in Sees(r) /\ icache[t].lock = p /\ icache'[t].lock = Nobody /\ ~Locks(N, t) /\ p # Nobody
        /\ icache'[t].di = disk'.ino[icache[t].inum] /\ icache'[t].di.type # "none"
        /\ disk'.ino[icache[t].inum].type = disk.ino[icache[t].inum].type
    BY <1>0, <1>2, <1>5, <1>7, <1>9, <1>b
  <2>5. \A u \in {s, t} :
          /\ u \in Slots /\ u \in Sees(r) \union {r.ip}
          /\ icache[u].lock \in {p, Nobody} /\ icache'[u].lock \in {p, Nobody}
          /\ icache'[u].lock = p <=> Locks(N, u)
          /\ Locks(N, u) => icache'[u].valid
          /\ icache'[u].di = disk'.ino[icache[u].inum] /\ icache'[u].di.type # "none"
          /\ disk'.ino[icache[u].inum].type = disk.ino[icache[u].inum].type
    <3> HIDE DEF s, t
    <3> QED BY ONLY <2>3, <2>4
  <2>6. \A k \in Inums : disk.ino[k].type # "none" /\ (\A u \in {s, t} : icache[u].inum # k) =>
          disk'.ino[k] = disk.ino[k] /\ \A a \in AllNames : Ent(disk', k, a) = Ent(disk, k, a)
    BY <1>1 DEF r
  <2>7. N.pc \notin {"ul_entry", "iput_free", "cr_ialloc", "cr_iget", "cr_fill"} /\ r.pc # "iput_valid"
        /\ N.dp = 0 /\ N.old = r.old
    BY <1>0, <1>m4
  <2> HIDE DEF s, t
  <2> QED BY ONLY <1>5, <1>8, <1>9, <1>10, <1>m4, <2>1, <2>2, <2>5, <2>6, <2>7 DEF Alters, r, N
<1> QED BY <1>10, <1>11 DEF r, N


\* sys_unlink() zeroes the entry.
LEMMA ul_entryKeeps == ASSUME InodeInv, NEW p \in Procs, ul_entry(p) PROVE InodeInv'
<1> DEFINE r == proc[p]  N == proc'[p]  s == r.ip  t == r.dp  n == icache[s].inum  D == icache[t].inum  x == Head(r.path)
           i == disk.ino[n]
           j == [disk.ino[D] EXCEPT !.nlink = IF i.type = "dir" THEN disk.ino[D].nlink - 1 ELSE disk.ino[D].nlink]
<1>0. r.pc = "ul_entry" /\ Unlocked(s)
  BY DEF ul_entry
<1>1. /\ s \in Slots /\ t \in Slots /\ n \in Inums /\ D \in Inums /\ n # D /\ n # 0
      /\ inode(s) = i /\ icache[t].di = disk.ino[D]
      /\ disk \in Images /\ i.type # "none" /\ disk.ino[D].type = "dir" /\ D \notin Reserved
      /\ x \in AllNames /\ x = r.path[Len(r.path)] /\ r.path # <<>>
  BY <1>0, PairFacts
<1>2. Ent(disk, D, x) = n /\ x \in Names
  BY <1>0, Mine DEF Local
<1>3. r.call = "unlink" /\ Removes(x)
  <2>1. Shape(r) /\ PathOk(r)
    BY Mine
  <2>2. r.call = "unlink"
    BY <1>0, <2>1 DEF Shape, at, Iputs
  <2> QED BY <1>1, <2>1, <2>2 DEF PathOk
<1>4. /\ DiskInv(disk, Reserved, Owed) /\ Reserved \in SUBSET Inums /\ Owed \in [Inums -> Nat]
  <2>1. \A m \in Inums : Cardinality({q \in Procs : owed(proc[q], icache) = m}) \in Nat
    BY Basics, FS_Subset, FS_CardinalityType
  <2> QED BY <2>1 DEF InodeInv, Reserved, Owed
<1>5. i.nlink >= 1
  <2>1. i.nlink \in Int /\ Ent(disk, D, x) # 0
    BY <1>1, <1>2, ImageFacts
  <2>2. i.nlink > 0
    <3>1. D \in Inums /\ x \in Names /\ Ent(disk, D, x) # 0 /\ n = Ent(disk, D, x)
      BY <1>1, <1>2
    <3> HIDE DEF D, x, n
    <3> QED BY ONLY <1>4, <3>1, Named
  <2> QED BY <2>1, <2>2
<1>6. \/ icache' = read(icache, s) /\ disk' = disk /\ IputThen(p, [r EXCEPT !.ip = 0], s, "ul_bad")
      \/ /\ disk' = dirlink(iupdate(disk, D, j), D, j, x, 0)
         /\ icache' = held(written(written(icache, s, i), t, j), s, p)
         /\ IputThen(p, [r EXCEPT !.dp = 0], t, "ul_drop")
  <2>1. ~NoType(s) /\ ~(inode(s).nlink < 1)
    <3>1. i.nlink \in Int
      BY <1>1, ImageFacts
    <3> HIDE DEF i, s
    <3> QED BY <1>1, <1>5, <3>1 DEF NoType
  <2>2. [icache[t].di EXCEPT !.nlink = IF inode(s).type = "dir" THEN @ - 1 ELSE @] = j
    BY <1>1
  <2> HIDE DEF i, j
  <2> QED BY <1>1, <2>1, <2>2, Zenon DEF ul_entry, read
<1>7. CASE icache' = read(icache, s) /\ disk' = disk /\ IputThen(p, [r EXCEPT !.ip = 0], s, "ul_bad")
  BY <1>0, <1>7, ul_entryFails
<1>8. CASE /\ disk' = dirlink(iupdate(disk, D, j), D, j, x, 0)
           /\ icache' = held(written(written(icache, s, i), t, j), s, p)
           /\ IputThen(p, [r EXCEPT !.dp = 0], t, "ul_drop")
  <2>1. /\ i \in Inodes /\ j \in Inodes /\ j.type = "dir" /\ j.addr = disk.ino[D].addr
        /\ j.nlink = IF i.type = "dir" THEN disk.ino[D].nlink - 1 ELSE disk.ino[D].nlink
    <3>1. i \in Inodes /\ disk.ino[D] \in Inodes
      BY <1>1, ImageFacts
    <3>2. disk.ino[D].type = "dir"
      BY <1>1
    <3> HIDE DEF i, D
    <3> QED BY ONLY <3>1, <3>2 DEF Inodes
  <2>2. BlocksOk(disk) /\ DotsOk(disk, Reserved)
    BY <1>4 DEF DiskInv
  <2>3. disk.ino[D].addr # 0 /\ \A m \in Inums : m # D => disk.ino[m].addr # disk.ino[D].addr
    BY <1>1, <2>2, Zenon DEF DotsOk, BlocksOk
  <2>4. DirWritten(disk', disk, D, j, x, 0)
    <3>1. /\ disk \in Images /\ D \in Inums /\ j \in Inodes /\ j.type = "dir" /\ disk.ino[D].type = "dir"
          /\ j.addr = disk.ino[D].addr /\ j.addr # 0 /\ x \in AllNames /\ 0 \in Inums \union {0}
      BY <1>1, <2>1, <2>3, Zenon
    <3> HIDE DEF D, j, x
    <3>2. DirWritten(dirlink(iupdate(disk, D, j), D, j, x, 0), disk, D, j, x, 0)
      BY ONLY <2>3, <3>1, ParentLinked
    <3> QED BY ONLY <1>8, <3>2
  <2>5. /\ disk' \in Images /\ disk'.ino[D] = j /\ \A m \in Inums : m # D => disk'.ino[m] = disk.ino[m]
        /\ disk'.used = disk.used
        /\ \A m \in Inums, a \in AllNames : Ent(disk', m, a) = IF m = D /\ a = x THEN 0 ELSE Ent(disk, m, a)
    <3> HIDE DEF D, j, x
    <3> QED BY ONLY <2>4 DEF DirWritten
  <2>6. Relinks(p, i, j, "ul_drop")
    <3>1. /\ \A m \in Inums : disk.ino[m].type # "none" /\ m # n /\ m # D =>
               disk'.ino[m] = disk.ino[m] /\ \A a \in AllNames : Ent(disk', m, a) = Ent(disk, m, a)
          /\ disk'.ino[n] = i /\ disk'.ino[D] = j
      BY <1>1, <2>5, Zenon
    <3>2. "ul_drop" \in HoldsIp /\ r.pc \in {"ul_entry", "cr_fill"} /\ j.type = disk.ino[D].type
      BY <1>0, <1>1, <2>1, Zenon DEF HoldsIp
    <3>3. i.type = disk.ino[n].type
      OBVIOUS
    <3> HIDE DEF i, j
    <3> QED BY ONLY <1>0, <1>8, <2>1, <3>1, <3>2, <3>3, Zenon DEF Relinks
  <2>7. /\ Alters(p, {s, t}) /\ resv(N, icache') = 0 /\ owed(r, icache) = 0 /\ owed(N, icache') = n
    <3> HIDE DEF i, j
    <3> QED BY ONLY <2>6, RelinkAlters, InodeInv, p \in Procs
  <2>8. resv(r, icache) = 0
    BY <1>0 DEF resv
  <2>9. \A q \in Procs : q # p =>
          resv(proc'[q], icache') = resv(proc[q], icache) /\ owed(proc'[q], icache') = owed(proc[q], icache)
    BY ONLY <2>7, AlterOk, InodeInv, p \in Procs
  <2>10. /\ Reserved' = Reserved /\ Owed' \in [Inums -> Nat]
         /\ \A m \in Inums : Owed'[m] = Owed[m] + One(owed(N, icache'), m) - One(owed(r, icache), m)
    BY <2>7, <2>8, <2>9, Debts
  <2>11. Owed'[n] = Owed[n] + 1 /\ \A m \in Inums : m # n => Owed'[m] = Owed[m]
    <3>1. \A m \in Inums : m # 0 /\ Owed[m] \in Nat
      BY <1>4, Basics
    <3>2. n \in Inums
      BY <1>1
    <3> HIDE DEF n
    <3> QED BY ONLY <2>7, <2>10, <3>1, <3>2 DEF One
  <2>12. DiskInv(disk', Reserved, Owed')
    <3>1. /\ D \in Inums /\ n \in Inums /\ disk.ino[D].type = "dir" /\ D \notin Reserved /\ x \in Names /\ Ent(disk, D, x) = n
          /\ Removes(x) /\ disk'.ino[D].type = "dir" /\ disk'.ino[D].addr = disk.ino[D].addr
          /\ disk'.ino[D].nlink = IF disk.ino[n].type = "dir" THEN disk.ino[D].nlink - 1 ELSE disk.ino[D].nlink
      BY <1>1, <1>2, <1>3, <2>1, <2>5, Zenon
    <3> HIDE DEF n, D, x, i, j
    <3> QED BY ONLY <1>4, <2>5, <2>10, <2>11, <3>1, NameCleared
  <2>13. DiskInv(disk', Reserved', Owed')
    BY <2>10, <2>12
  <2> QED BY ONLY <2>7, <2>13, AlterOk, InodeInv, p \in Procs
<1> QED BY <1>6, <1>7, <1>8, Zenon


\* Image f is d but for directory n, now j, whose block is new and has the dots only.
DotsMade(f, d, n, j, D) ==
  /\ f \in Images /\ f.ino[n] = j /\ \A m \in Inums : m # n => f.ino[m] = d.ino[m]
  /\ f.used = d.used \union {j.addr} /\ j.addr \in Blocks /\ j.addr \notin d.used
  /\ \A a \in AllNames : Ent(f, n, a) = IF a = ".." THEN D ELSE IF a = "." THEN n ELSE 0
  /\ \A m \in Inums, a \in AllNames : m # n => Ent(f, m, a) = Ent(d, m, a)

\* dirlink() of the dots of a new directory, for which bmap() takes a block.
LEMMA DotsLinked ==
  ASSUME NEW d \in Images, d.used # Blocks, \A m \in Inums : d.ino[m].addr # 0 => d.ino[m].addr \in d.used,
         NEW n \in Inums, NEW D \in Inums, NEW i \in Inodes, i.addr = 0, i.type = "dir"
  PROVE  /\ bmapped(d, i) \in Inodes /\ bmapped(d, i).type = "dir" /\ bmapped(d, i).nlink = i.nlink
         /\ DotsMade(dirlink(dirlink(d, n, i, ".", n), n, bmapped(d, i), "..", D), d, n, bmapped(d, i), D)
<1> DEFINE b == Min(Blocks \ d.used)  f == balloc(d)
<1>1. /\ f \in Images /\ f.ino = d.ino /\ f.used = d.used \union {b} /\ b \in Blocks /\ b \notin d.used
      /\ f.data[b] = Zeroed /\ \A c \in Blocks : c # b => f.data[c] = d.data[c]
  BY Balloced
<1>2. bmapped(d, i) = [i EXCEPT !.addr = b] /\ bmap(d, n, i) = iupdate(f, n, [i EXCEPT !.addr = b])
  BY DEF bmapped, bmap
<1>3. PICK j : j = [i EXCEPT !.addr = b]
  OBVIOUS
<1> HIDE DEF b, f
<1>4. j \in Inodes /\ j.type = "dir" /\ j.nlink = i.nlink /\ j.addr = b /\ j.addr # 0
  BY <1>1, <1>3, Basics DEF Inodes
<1>5. PICK g : g = iupdate(f, n, j)
  OBVIOUS
<1>6. /\ g \in Images /\ g.ino[n] = j /\ (\A m \in Inums : m # n => g.ino[m] = f.ino[m]) /\ g.used = f.used /\ g.data = f.data
  <2> DEFINE v == iupdate(f, n, j)
  <2>1. v \in Images /\ v.ino[n] = j /\ (\A m \in Inums : m # n => v.ino[m] = f.ino[m]) /\ v.used = f.used /\ v.data = f.data
    <3>1. f \in Images /\ n \in Inums /\ j \in Inodes
      BY <1>1, <1>4
    <3> QED BY ONLY <3>1, Updated
  <2> QED BY ONLY <1>5, <2>1
<1>7. PICK h : h = dirlink(g, n, j, ".", n)
  OBVIOUS
<1>8. dirlink(d, n, i, ".", n) = h
  BY <1>2, <1>3, <1>4, <1>5, <1>7 DEF dirlink, bmap, bmapped
<1>a. "." \in AllNames /\ ".." \in AllNames /\ n \in Inums \union {0} /\ D \in Inums \union {0} /\ n \in Inums
  BY DEF AllNames, Dots
<1>9. /\ h \in Images /\ h.ino = g.ino /\ h.used = g.used
      /\ \A c \in Blocks, a \in AllNames : h.data[c][a] = IF c = j.addr /\ a = "." THEN n ELSE g.data[c][a]
  <2> DEFINE v == dirlink(g, n, j, ".", n)
  <2>1. /\ v \in Images /\ v.ino = g.ino /\ v.used = g.used
        /\ \A c \in Blocks, a \in AllNames : v.data[c][a] = IF c = j.addr /\ a = "." THEN n ELSE g.data[c][a]
    <3>1. g \in Images /\ j \in Inodes /\ j.addr # 0
      BY <1>4, <1>6
    <3> QED BY ONLY <1>a, <3>1, Dirlinked
  <2> QED BY ONLY <1>7, <2>1
<1>10. PICK e : e = dirlink(h, n, j, "..", D)
  OBVIOUS
<1>11. /\ e \in Images /\ e.ino = h.ino /\ e.used = h.used
       /\ \A c \in Blocks, a \in AllNames : e.data[c][a] = IF c = j.addr /\ a = ".." THEN D ELSE h.data[c][a]
  <2> DEFINE v == dirlink(h, n, j, "..", D)
  <2>1. /\ v \in Images /\ v.ino = h.ino /\ v.used = h.used
        /\ \A c \in Blocks, a \in AllNames : v.data[c][a] = IF c = j.addr /\ a = ".." THEN D ELSE h.data[c][a]
    <3>1. h \in Images /\ j \in Inodes /\ j.addr # 0
      BY <1>4, <1>9
    <3> QED BY ONLY <1>a, <3>1, Dirlinked
  <2> QED BY ONLY <1>10, <2>1
<1>12. /\ e.ino[n] = j /\ (\A m \in Inums : m # n => e.ino[m] = d.ino[m]) /\ e.used = d.used \union {j.addr}
       /\ \A c \in Blocks, a \in AllNames : c # j.addr => e.data[c][a] = d.data[c][a]
       /\ \A a \in AllNames : e.data[j.addr][a] = IF a = ".." THEN D ELSE IF a = "." THEN n ELSE 0
  <2>1. \A a \in AllNames : Zeroed[a] = 0
    BY DEF Zeroed
  <2>2. /\ e.ino[n] = j /\ (\A m \in Inums : m # n => e.ino[m] = d.ino[m]) /\ e.used = d.used \union {j.addr}
    BY <1>1, <1>4, <1>6, <1>9, <1>11
  <2>3. \A c \in Blocks, a \in AllNames : c # j.addr => e.data[c][a] = d.data[c][a]
    BY ONLY <1>1, <1>4, <1>6, <1>9, <1>11
  <2>4. \A a \in AllNames : g.data[j.addr][a] = 0
    BY ONLY <1>1, <1>4, <1>6, <2>1
  <2>5. \A a \in AllNames : e.data[j.addr][a] = IF a = ".." THEN D ELSE IF a = "." THEN n ELSE 0
    BY ONLY <1>1, <1>4, <1>9, <1>11, <2>4
  <2> QED BY <2>2, <2>3, <2>5
<1>13. \A a \in AllNames : Ent(e, n, a) = IF a = ".." THEN D ELSE IF a = "." THEN n ELSE 0
  <2>1. \A a \in AllNames : Ent(e, n, a) = e.data[j.addr][a]
    BY <1>4, <1>11, <1>12, ImageFacts
  <2> QED BY <1>12, <2>1
<1>14. ASSUME NEW m \in Inums, m # n PROVE \A a \in AllNames : Ent(e, m, a) = Ent(d, m, a)
  <2>1. e.ino[m] = d.ino[m]
    BY <1>12, <1>14
  <2>2. d.ino[m].addr # 0 => d.ino[m].addr \in Blocks /\ d.ino[m].addr # j.addr
    BY <1>1, <1>4, ImageFacts
  <2>3. \A a \in AllNames : d.ino[m].addr # 0 => e.data[d.ino[m].addr][a] = d.data[d.ino[m].addr][a]
    BY <1>12, <2>2
  <2> QED BY <1>11, <2>1, <2>3, SameEnt
<1>15. DotsMade(e, d, n, j, D)
  BY <1>1, <1>4, <1>11, <1>12, <1>13, <1>14 DEF DotsMade
<1>16. bmapped(d, i) = j
  BY <1>2, <1>3
<1> QED BY <1>4, <1>8, <1>10, <1>15, <1>16


\* What create() relies on when it fills the inode in.
LEMMA FillFacts ==
  ASSUME InodeInv, NEW p \in Procs, proc[p].pc = "cr_fill", Unlocked(proc[p].ip)
  PROVE  LET r == proc[p]
             n == icache[r.ip].inum
             D == icache[r.dp].inum
         IN
         /\ disk.ino[n] = Fresh(r.call) /\ disk.ino[n].nlink = 0 /\ disk.ino[n].addr = 0
         /\ disk.ino[n].type = IF r.call = "mkdir" THEN "dir" ELSE "file"
         /\ n \in Reserved /\ Ent(disk, D, Head(r.path)) = 0
         /\ r.call = "mkdir" => Makes(Head(r.path))
         /\ DiskInv(disk, Reserved, Owed) /\ Reserved \in SUBSET Inums /\ Owed \in [Inums -> Nat]
         /\ disk.ino[D].addr # 0 /\ \A m \in Inums : m # D => disk.ino[m].addr # disk.ino[D].addr
         /\ resv(r, icache) = n /\ \A q \in Procs : q # p => resv(proc[q], icache) # n
<1> DEFINE r == proc[p]  n == icache[r.ip].inum  D == icache[r.dp].inum
<1>0. r.pc = "cr_fill"
  OBVIOUS
<1>1. /\ n \in Inums /\ n # 0 /\ D \in Inums /\ disk.ino[D].type = "dir" /\ D \notin Reserved /\ at(r) = r.pc
      /\ Head(r.path) = r.path[Len(r.path)] /\ r.path # <<>>
  BY PairFacts
<1>2. resv(r, icache) = n
  BY <1>0 DEF resv
<1>3. disk.ino[n] = Fresh(r.call) /\ Ent(disk, D, Head(r.path)) = 0
  <2>1. Local(r, icache, disk)
    BY Mine
  <2>2. disk.ino[resv(r, icache)] = Fresh(r.call) /\ Ent(disk, icache[r.dp].inum, Head(r.path)) = 0
    <3> HIDE DEF r
    <3> QED BY ONLY <1>0, <2>1 DEF Local
  <2> QED BY ONLY <1>2, <2>2
<1>4. /\ disk.ino[n].nlink = 0 /\ disk.ino[n].addr = 0
      /\ disk.ino[n].type = IF r.call = "mkdir" THEN "dir" ELSE "file"
  BY <1>3 DEF Fresh, Free
<1>5. n \in Reserved /\ \A q \in Procs : q # p => resv(proc[q], icache) # n
  BY <1>1, <1>2 DEF InodeInv, ReserveInv, Reserved
<1>6. r.call = "mkdir" => Makes(Head(r.path))
  <2>1. PathOk(r)
    BY Mine
  <2> HIDE DEF r
  <2> QED BY ONLY <1>1, <2>1 DEF PathOk
<1>7. DiskInv(disk, Reserved, Owed) /\ Reserved \in SUBSET Inums /\ Owed \in [Inums -> Nat]
  <2>1. \A m \in Inums : Cardinality({q \in Procs : owed(proc[q], icache) = m}) \in Nat
    BY Basics, FS_Subset, FS_CardinalityType
  <2> QED BY <2>1 DEF InodeInv, Reserved, Owed
<1>8. BlocksOk(disk) /\ DotsOk(disk, Reserved)
  BY <1>7 DEF DiskInv
<1>9. disk.ino[D].addr # 0 /\ \A m \in Inums : m # D => disk.ino[m].addr # disk.ino[D].addr
  <2> HIDE DEF D
  <2> QED BY <1>1, <1>8 DEF DotsOk, BlocksOk
<1> QED BY <1>2, <1>3, <1>4, <1>5, <1>6, <1>7, <1>9, Zenon

\* create() has filled the inode in, and the disk is sound without it being reserved.
LEMMA FilledOk ==
  ASSUME InodeInv, NEW p \in Procs, proc[p].pc = "cr_fill", NEW i, NEW j, Relinks(p, i, j, "cr_done"),
         DiskInv(disk', Reserved \ {icache[proc[p].ip].inum}, Owed)
  PROVE  InodeInv'
<1> DEFINE r == proc[p]  N == proc'[p]  n == icache[r.ip].inum
<1>1. Alters(p, {r.ip, r.dp}) /\ resv(N, icache') = 0 /\ owed(r, icache) = 0 /\ owed(N, icache') = 0
  BY ONLY RelinkAlters, InodeInv, p \in Procs, Relinks(p, i, j, "cr_done")
<1>2. \A q \in Procs : q # p =>
         resv(proc'[q], icache') = resv(proc[q], icache) /\ owed(proc'[q], icache') = owed(proc[q], icache)
  BY ONLY <1>1, AlterOk, InodeInv, p \in Procs
<1>3. Owed' = Owed
  BY <1>1, <1>2, Debts
<1>4. resv(r, icache) = n /\ \A q \in Procs : q # p => resv(proc[q], icache) # n
  BY FillFacts, Zenon DEF Relinks
<1>5. \A m \in Inums : m # 0
  BY Basics
<1>6. Reserved' = Reserved \ {n}
  <2>1. \A m \in Inums : (\E q \in Procs : resv(proc'[q], icache') = m) <=> (m # n /\ \E q \in Procs : resv(proc[q], icache) = m)
    <3> HIDE DEF n, r, N
    <3> QED BY <1>1, <1>2, <1>4, <1>5 DEF r, N
  <2> QED BY <2>1 DEF Reserved
<1>7. DiskInv(disk', Reserved', Owed')
  BY <1>3, <1>6
<1> QED BY ONLY <1>1, <1>7, AlterOk, InodeInv, p \in Procs


\* create() of a file.
LEMMA FileFilled ==
  ASSUME InodeInv, NEW p \in Procs, proc[p].pc = "cr_fill", Unlocked(proc[p].ip), proc[p].call # "mkdir",
         NEW i \in Inodes, i.type = "file", i.nlink = 1, i.addr = 0,
         LET D == icache[proc[p].dp].inum
             n == icache[proc[p].ip].inum
         IN  disk' = dirlink(iupdate(iupdate(disk, n, i), D, disk.ino[D]), D, disk.ino[D], Head(proc[p].path), n),
         icache' = held(written(written(icache, proc[p].ip, i), proc[p].dp, disk.ino[icache[proc[p].dp].inum]), proc[p].ip, p),
         IputThen(p, [proc[p] EXCEPT !.dp = 0], proc[p].dp, "cr_done")
  PROVE  InodeInv'
<1> DEFINE r == proc[p]  N == proc'[p]  s == r.ip  t == r.dp  n == icache[s].inum  D == icache[t].inum  x == Head(r.path)
<1>1. /\ s \in Slots /\ t \in Slots /\ n \in Inums /\ D \in Inums /\ n # D
      /\ disk \in Images /\ disk.ino[n].type # "none" /\ disk.ino[D].type = "dir" /\ D \notin Reserved
      /\ x \in AllNames
  BY PairFacts, Zenon
<1>2. /\ disk.ino[n].nlink = 0 /\ disk.ino[n].addr = 0 /\ n \in Reserved /\ Ent(disk, D, x) = 0
      /\ DiskInv(disk, Reserved, Owed) /\ Reserved \in SUBSET Inums /\ Owed \in [Inums -> Nat]
      /\ disk.ino[D].addr # 0 /\ \A m \in Inums : m # D => disk.ino[m].addr # disk.ino[D].addr
  BY FillFacts, Zenon
<1>3. disk.ino[n].type = "file" /\ disk.ino[D] \in Inodes
  <2>1. disk.ino[D] \in Inodes
    BY <1>1, ImageFacts, Zenon
  <2> QED BY <2>1, FillFacts, Zenon
<1>4. PICK f : f = iupdate(disk, n, i)
  OBVIOUS
<1>5. disk' = dirlink(iupdate(f, D, disk.ino[D]), D, disk.ino[D], x, n)
  BY <1>4
<1>6. icache' = held(written(written(icache, s, i), t, disk.ino[D]), s, p) /\ IputThen(p, [r EXCEPT !.dp = 0], t, "cr_done")
  OBVIOUS
<1>7. PICK j \in Inodes : j = disk.ino[D]
  BY <1>3, Zenon
<1>8. disk' = dirlink(iupdate(f, D, j), D, j, x, n) /\ icache' = held(written(written(icache, s, i), t, j), s, p)
  BY ONLY <1>5, <1>6, <1>7
<1>9. r.pc = "cr_fill" /\ Unlocked(s) /\ i \in Inodes /\ i.type = "file" /\ i.nlink = 1 /\ i.addr = 0
  OBVIOUS
<1> HIDE DEF x
<1>10. /\ f \in Images /\ f.ino[n] = i /\ (\A m \in Inums : m # n => f.ino[m] = disk.ino[m])
       /\ f.used = disk.used /\ f.data = disk.data
  <2> DEFINE v == iupdate(disk, n, i)
  <2>1. v \in Images /\ v.ino[n] = i /\ (\A m \in Inums : m # n => v.ino[m] = disk.ino[m]) /\ v.used = disk.used /\ v.data = disk.data
    <3>1. disk \in Images /\ n \in Inums /\ i \in Inodes
      BY <1>1, Zenon
    <3> HIDE DEF n
    <3> QED BY ONLY <3>1, Updated
  <2> QED BY ONLY <1>4, <2>1
<1> HIDE DEF n, D
<1>11. \A m \in Inums, a \in AllNames : Ent(f, m, a) = Ent(disk, m, a)
  <2>1. \A m \in Inums : f.ino[m].type = disk.ino[m].type /\ f.ino[m].addr = disk.ino[m].addr
    BY ONLY <1>1, <1>2, <1>3, <1>9, <1>10
  <2> QED BY <1>1, <1>10, <2>1, SameEnt, Zenon
<1>12. DirWritten(disk', f, D, j, x, n)
  <2>1. /\ f \in Images /\ D \in Inums /\ j \in Inodes /\ j.type = "dir" /\ f.ino[D].type = "dir"
        /\ j.addr = f.ino[D].addr /\ j.addr # 0 /\ x \in AllNames /\ n \in Inums \union {0}
    BY ONLY <1>1, <1>2, <1>7, <1>10
  <2>2. \A m \in Inums : m # D => f.ino[m].addr # f.ino[D].addr
    BY ONLY <1>1, <1>2, <1>9, <1>10
  <2>3. DirWritten(dirlink(iupdate(f, D, j), D, j, x, n), f, D, j, x, n)
    BY ONLY <2>1, <2>2, ParentLinked
  <2> QED BY ONLY <1>8, <2>3
<1>13. /\ disk' \in Images /\ disk'.ino[n] = i /\ disk'.ino[D] = j /\ disk'.used = disk.used
       /\ \A m \in Inums : m # n => disk'.ino[m] = disk.ino[m]
       /\ \A m \in Inums, a \in AllNames : Ent(disk', m, a) = IF m = D /\ a = x THEN n ELSE Ent(disk, m, a)
  <2>1. /\ disk' \in Images /\ disk'.ino[D] = j /\ \A m \in Inums : m # D => disk'.ino[m] = f.ino[m]
        /\ disk'.used = f.used
        /\ \A m \in Inums, a \in AllNames : Ent(disk', m, a) = IF m = D /\ a = x THEN n ELSE Ent(f, m, a)
    BY ONLY <1>12 DEF DirWritten
  <2>2. \A m \in Inums, a \in AllNames : Ent(disk', m, a) = IF m = D /\ a = x THEN n ELSE Ent(disk, m, a)
    BY ONLY <1>11, <2>1
  <2> QED BY ONLY <1>1, <1>7, <1>10, <2>1, <2>2
<1>14. Relinks(p, i, j, "cr_done")
  <2>1. \A m \in Inums : disk.ino[m].type # "none" /\ m # n /\ m # D =>
          disk'.ino[m] = disk.ino[m] /\ \A a \in AllNames : Ent(disk', m, a) = Ent(disk, m, a)
    BY ONLY <1>13
  <2>2. "cr_done" \in HoldsIp /\ r.pc \in {"ul_entry", "cr_fill"} /\ j.type = disk.ino[D].type /\ i.type = disk.ino[n].type
    BY <1>3, <1>7, <1>9 DEF HoldsIp
  <2> QED BY ONLY <1>6, <1>7, <1>8, <1>9, <1>13, <2>1, <2>2, Zenon DEF Relinks, n, D
<1>15. DiskInv(disk', Reserved \ {n}, Owed)
  <2>1. disk'.ino[n].type = "file" /\ disk'.ino[n].nlink = 1 /\ disk'.ino[n].addr = 0
    BY ONLY <1>9, <1>13
  <2> QED BY ONLY <1>1, <1>2, <1>3, <1>13, <2>1, FileCreated
<1> QED BY ONLY <1>9, <1>14, <1>15, FilledOk, InodeInv, p \in Procs DEF n, r


\* mkdir().
LEMMA DirFilled ==
  ASSUME InodeInv, NEW p \in Procs, proc[p].pc = "cr_fill", Unlocked(proc[p].ip), proc[p].call = "mkdir",
         disk.used # Blocks, NEW i \in Inodes, i.type = "dir", i.nlink = 1, i.addr = 0,
         NEW j \in Inodes, j.type = "dir", j.nlink = disk.ino[icache[proc[p].dp].inum].nlink + 1,
         j.addr = disk.ino[icache[proc[p].dp].inum].addr,
         LET D == icache[proc[p].dp].inum
             n == icache[proc[p].ip].inum
             d0 == iupdate(disk, n, i)
         IN  /\ disk' = dirlink(iupdate(dirlink(dirlink(d0, n, i, ".", n), n, bmapped(d0, i), "..", D), D, j),
                                D, j, Head(proc[p].path), n)
             /\ icache' = held(written(written(icache, proc[p].ip, bmapped(d0, i)), proc[p].dp, j), proc[p].ip, p),
         IputThen(p, [proc[p] EXCEPT !.dp = 0], proc[p].dp, "cr_done")
  PROVE  InodeInv'
<1> DEFINE r == proc[p]  N == proc'[p]  s == r.ip  t == r.dp  n == icache[s].inum  D == icache[t].inum  x == Head(r.path)
<1>1. /\ s \in Slots /\ t \in Slots /\ n \in Inums /\ D \in Inums /\ n # D
      /\ disk \in Images /\ disk.ino[n].type # "none" /\ disk.ino[D].type = "dir" /\ D \notin Reserved
      /\ x \in AllNames
  BY PairFacts, Zenon
<1>2. /\ disk.ino[n].nlink = 0 /\ disk.ino[n].addr = 0 /\ n \in Reserved /\ Ent(disk, D, x) = 0
      /\ DiskInv(disk, Reserved, Owed) /\ Reserved \in SUBSET Inums /\ Owed \in [Inums -> Nat]
      /\ disk.ino[D].addr # 0 /\ \A m \in Inums : m # D => disk.ino[m].addr # disk.ino[D].addr
  BY FillFacts, Zenon
<1>3. /\ disk.ino[n].type = "dir" /\ Makes(x) /\ r.pc = "cr_fill" /\ Unlocked(s) /\ disk.used # Blocks
      /\ i \in Inodes /\ i.type = "dir" /\ i.nlink = 1 /\ i.addr = 0
      /\ j \in Inodes /\ j.type = "dir" /\ j.nlink = disk.ino[D].nlink + 1 /\ j.addr = disk.ino[D].addr
      /\ IputThen(p, [r EXCEPT !.dp = 0], t, "cr_done")
  <2>1. disk.ino[n].type = "dir" /\ Makes(x)
    BY FillFacts, Zenon
  <2> QED BY <2>1, Zenon
<1>4. PICK f : f = iupdate(disk, n, i)
  OBVIOUS
<1>5. PICK k : k = bmapped(f, i)
  OBVIOUS
<1>6. PICK g : g = dirlink(dirlink(f, n, i, ".", n), n, k, "..", D)
  BY Zenon
<1>7. disk' = dirlink(iupdate(g, D, j), D, j, x, n) /\ icache' = held(written(written(icache, s, k), t, j), s, p)
  BY <1>4, <1>5, <1>6, Zenon
<1> HIDE DEF x
<1>8. /\ f \in Images /\ f.ino[n] = i /\ (\A m \in Inums : m # n => f.ino[m] = disk.ino[m])
      /\ f.used = disk.used /\ f.data = disk.data
  <2> DEFINE v == iupdate(disk, n, i)
  <2>1. v \in Images /\ v.ino[n] = i /\ (\A m \in Inums : m # n => v.ino[m] = disk.ino[m]) /\ v.used = disk.used /\ v.data = disk.data
    <3>1. disk \in Images /\ n \in Inums /\ i \in Inodes
      BY <1>1, Zenon
    <3> HIDE DEF n
    <3> QED BY ONLY <3>1, Updated
  <2> QED BY ONLY <1>4, <2>1
<1> HIDE DEF n, D
<1>9. \A m \in Inums, a \in AllNames : Ent(f, m, a) = Ent(disk, m, a)
  <2>1. \A m \in Inums : f.ino[m].type = disk.ino[m].type /\ f.ino[m].addr = disk.ino[m].addr
    BY ONLY <1>1, <1>2, <1>3, <1>8
  <2> QED BY <1>1, <1>8, <2>1, SameEnt, Zenon
<1>a. BlocksOk(disk)
  BY <1>2 DEF DiskInv
<1>b. \A m \in Inums : disk.ino[m].addr # 0 => disk.ino[m].addr \in disk.used
  BY ONLY <1>a DEF BlocksOk
<1>10. k \in Inodes /\ k.type = "dir" /\ k.nlink = i.nlink /\ DotsMade(g, f, n, k, D)
  <2>1. /\ f \in Images /\ f.used # Blocks /\ n \in Inums /\ D \in Inums /\ i \in Inodes /\ i.addr = 0 /\ i.type = "dir"
        /\ \A m \in Inums : f.ino[m].addr # 0 => f.ino[m].addr \in f.used
    BY ONLY <1>1, <1>3, <1>8, <1>b
  <2>2. /\ bmapped(f, i) \in Inodes /\ bmapped(f, i).type = "dir" /\ bmapped(f, i).nlink = i.nlink
        /\ DotsMade(dirlink(dirlink(f, n, i, ".", n), n, bmapped(f, i), "..", D), f, n, bmapped(f, i), D)
    BY ONLY <2>1, DotsLinked
  <2> QED BY ONLY <1>5, <1>6, <2>2
<1>11. /\ g \in Images /\ g.ino[n] = k /\ (\A m \in Inums : m # n => g.ino[m] = f.ino[m])
       /\ g.used = f.used \union {k.addr} /\ k.addr \in Blocks /\ k.addr \notin f.used
       /\ \A a \in AllNames : Ent(g, n, a) = IF a = ".." THEN D ELSE IF a = "." THEN n ELSE 0
       /\ \A m \in Inums, a \in AllNames : m # n => Ent(g, m, a) = Ent(f, m, a)
  BY ONLY <1>10 DEF DotsMade
<1>12. DirWritten(disk', g, D, j, x, n)
  <2>1. /\ g \in Images /\ D \in Inums /\ j \in Inodes /\ j.type = "dir" /\ g.ino[D].type = "dir"
        /\ j.addr = g.ino[D].addr /\ j.addr # 0 /\ x \in AllNames /\ n \in Inums \union {0}
    BY ONLY <1>1, <1>2, <1>3, <1>8, <1>11
  <2>2. \A m \in Inums : m # D => g.ino[m].addr # g.ino[D].addr
    <3>1. k.addr # disk.ino[D].addr
      BY ONLY <1>1, <1>2, <1>8, <1>11, <1>b
    <3>2. g.ino[D] = disk.ino[D]
      BY ONLY <1>1, <1>8, <1>11
    <3>3. \A m \in Inums : m # n => g.ino[m] = disk.ino[m]
      BY ONLY <1>8, <1>11
    <3> QED BY ONLY <1>2, <1>11, <3>1, <3>2, <3>3
  <2>3. DirWritten(dirlink(iupdate(g, D, j), D, j, x, n), g, D, j, x, n)
    BY ONLY <2>1, <2>2, ParentLinked
  <2> QED BY ONLY <1>7, <2>3
<1>13. /\ disk' \in Images /\ disk'.ino[n] = k /\ disk'.ino[D] = j /\ disk'.used = disk.used \union {k.addr}
       /\ \A m \in Inums : m # n /\ m # D => disk'.ino[m] = disk.ino[m]
       /\ \A m \in Inums, a \in AllNames : m # n => Ent(disk', m, a) = IF m = D /\ a = x THEN n ELSE Ent(disk, m, a)
       /\ \A a \in AllNames : Ent(disk', n, a) = IF a = ".." THEN D ELSE IF a = "." THEN n ELSE 0
  <2>1. /\ disk' \in Images /\ disk'.ino[D] = j /\ \A m \in Inums : m # D => disk'.ino[m] = g.ino[m]
        /\ disk'.used = g.used
        /\ \A m \in Inums, a \in AllNames : Ent(disk', m, a) = IF m = D /\ a = x THEN n ELSE Ent(g, m, a)
    BY ONLY <1>12 DEF DirWritten
  <2>2. \A m \in Inums, a \in AllNames : m # n => Ent(disk', m, a) = IF m = D /\ a = x THEN n ELSE Ent(disk, m, a)
    <3>1. \A m \in Inums, a \in AllNames : m # n => Ent(g, m, a) = Ent(disk, m, a)
      BY ONLY <1>9, <1>11
    <3> QED BY ONLY <2>1, <3>1
  <2>3. \A a \in AllNames : Ent(disk', n, a) = IF a = ".." THEN D ELSE IF a = "." THEN n ELSE 0
    <3>1. \A a \in AllNames : Ent(disk', n, a) = Ent(g, n, a)
      BY ONLY <1>1, <2>1
    <3> QED BY ONLY <1>11, <3>1
  <2>4. disk'.ino[n] = k /\ disk'.used = disk.used \union {k.addr}
    BY ONLY <1>1, <1>8, <1>11, <2>1
  <2>5. \A m \in Inums : m # n /\ m # D => disk'.ino[m] = disk.ino[m]
    BY ONLY <1>8, <1>11, <2>1
  <2> QED BY ONLY <2>1, <2>2, <2>3, <2>4, <2>5
<1>14. Relinks(p, k, j, "cr_done")
  <2>1. \A m \in Inums : disk.ino[m].type # "none" /\ m # n /\ m # D =>
          disk'.ino[m] = disk.ino[m] /\ \A a \in AllNames : Ent(disk', m, a) = Ent(disk, m, a)
    BY ONLY <1>13
  <2>2. "cr_done" \in HoldsIp /\ r.pc \in {"ul_entry", "cr_fill"} /\ j.type = disk.ino[D].type /\ k.type = disk.ino[n].type
    BY <1>1, <1>3, <1>10 DEF HoldsIp
  <2> QED BY ONLY <1>3, <1>7, <1>10, <1>13, <2>1, <2>2, Zenon DEF Relinks, n, D
<1>15. DiskInv(disk', Reserved \ {n}, Owed)
  <2>1. /\ disk'.ino[n].type = "dir" /\ disk'.ino[n].nlink = 1 /\ disk'.ino[n].addr = k.addr
        /\ disk'.ino[D].type = "dir" /\ disk'.ino[D].nlink = disk.ino[D].nlink + 1 /\ disk'.ino[D].addr = disk.ino[D].addr
        /\ k.addr \in Blocks /\ k.addr \notin disk.used
    BY ONLY <1>3, <1>8, <1>10, <1>11, <1>13
  <2>2. Ent(disk', n, ".") = n /\ Ent(disk', n, "..") = D /\ \A a \in Names : Ent(disk', n, a) = 0
    BY <1>13, Basics, Zenon DEF AllNames, Dots
  <2>3. PICK b \in Blocks : b = k.addr
    BY <2>1, Zenon
  <2>4. /\ b \notin disk.used /\ disk'.ino[n].addr = b /\ disk'.used = disk.used \union {b} /\ disk' \in Images
        /\ \A m \in Inums : m # n /\ m # D => disk'.ino[m] = disk.ino[m]
        /\ \A m \in Inums, a \in AllNames : m # n => Ent(disk', m, a) = IF m = D /\ a = x THEN n ELSE Ent(disk, m, a)
    BY ONLY <1>13, <2>1, <2>3
  <2>5. disk.ino[n].type = "dir" /\ Makes(x)
    BY ONLY <1>3
  <2> QED BY ONLY <1>1, <1>2, <2>1, <2>2, <2>3, <2>4, <2>5, DirCreated
<1>16. r.pc = "cr_fill"
  BY ONLY <1>3
<1> QED BY ONLY <1>14, <1>15, <1>16, FilledOk, InodeInv, p \in Procs DEF n, r

\* create() fills the inode in, and its parent.
LEMMA cr_fillKeeps == ASSUME InodeInv, NEW p \in Procs, cr_fill(p) PROVE InodeInv'
<1> DEFINE r == proc[p]  N == proc'[p]  s == r.ip  t == r.dp  n == icache[s].inum  D == icache[t].inum  x == Head(r.path)
<1> DEFINE i == [inode(s) EXCEPT !.nlink = 1]  d0 == iupdate(disk, n, i)
           j == [icache[t].di EXCEPT !.nlink = IF r.call = "mkdir" THEN @ + 1 ELSE @]
<1>0. r.pc = "cr_fill" /\ Unlocked(s)
  BY DEF cr_fill
<1>1. /\ n \in Inums /\ D \in Inums /\ disk \in Images /\ inode(s) = disk.ino[n] /\ icache[t].di = disk.ino[D]
      /\ disk.ino[n].type # "none" /\ disk.ino[D].type = "dir"
  BY <1>0, PairFacts
<1>2. disk.ino[n].addr = 0 /\ disk.ino[n].type = IF r.call = "mkdir" THEN "dir" ELSE "file"
  BY <1>0, FillFacts
<1>3. disk.ino[n] \in Inodes /\ disk.ino[D] \in Inodes
  BY <1>1, ImageFacts
<1>4. i \in Inodes /\ i.type = disk.ino[n].type /\ i.nlink = 1 /\ i.addr = 0
  <2>1. PICK v \in Inodes : v = disk.ino[n]
    BY <1>3
  <2>2. [v EXCEPT !.nlink = 1] \in Inodes /\ [v EXCEPT !.nlink = 1].type = v.type /\ [v EXCEPT !.nlink = 1].nlink = 1
        /\ [v EXCEPT !.nlink = 1].addr = v.addr
    BY ONLY v \in Inodes DEF Inodes
  <2>3. i = [v EXCEPT !.nlink = 1]
    BY ONLY <1>1, <2>1
  <2> HIDE DEF i
  <2> QED BY ONLY <1>2, <2>1, <2>2, <2>3, Zenon
<1>5. r.call = "mkdir" => j \in Inodes /\ j.type = "dir" /\ j.nlink = disk.ino[D].nlink + 1 /\ j.addr = disk.ino[D].addr
  <2>1. PICK v \in Inodes : v = disk.ino[D]
    BY <1>3
  <2>2. LET w == [v EXCEPT !.nlink = v.nlink + 1] IN
          w \in Inodes /\ w.type = v.type /\ w.addr = v.addr /\ w.nlink = v.nlink + 1
    BY ONLY <2>1, Relinked
  <2>3. r.call = "mkdir" => j = [v EXCEPT !.nlink = v.nlink + 1]
    BY ONLY <1>1, <2>1
  <2> HIDE DEF j
  <2> QED BY ONLY <1>1, <2>1, <2>2, <2>3, Zenon
<1>6. r.call # "mkdir" => j = disk.ino[D]
  BY ONLY <1>1, <1>3, Zenon DEF Inodes
<1>7. \/ Stop("full")
      \/ /\ r.call = "mkdir" => disk.used # Blocks
         /\ disk' = dirlink(iupdate(IF r.call = "mkdir"
                                    THEN dirlink(dirlink(d0, n, i, ".", n), n, bmapped(d0, i), "..", D)
                                    ELSE d0, D, j), D, j, x, n)
         /\ icache' = held(written(written(icache, s, IF r.call = "mkdir" THEN bmapped(d0, i) ELSE i), t, j), s, p)
         /\ IputThen(p, [r EXCEPT !.dp = 0], t, "cr_done")
  BY <1>1, Zenon DEF cr_fill, NoType, OutOfBlocks
<1>8. CASE Stop("full")
  BY <1>8, StopKeeps
<1>9. CASE /\ r.call = "mkdir" /\ disk.used # Blocks
           /\ disk' = dirlink(iupdate(dirlink(dirlink(d0, n, i, ".", n), n, bmapped(d0, i), "..", D), D, j), D, j, x, n)
           /\ icache' = held(written(written(icache, s, bmapped(d0, i)), t, j), s, p)
           /\ IputThen(p, [r EXCEPT !.dp = 0], t, "cr_done")
  <2>1. i \in Inodes /\ i.type = "dir" /\ i.nlink = 1 /\ i.addr = 0
    BY <1>2, <1>4, <1>9, Zenon
  <2>2. j \in Inodes /\ j.type = "dir" /\ j.nlink = disk.ino[D].nlink + 1 /\ j.addr = disk.ino[D].addr
    BY <1>5, <1>9, Zenon
  <2> HIDE DEF i, j
  <2> QED BY ONLY <1>0, <1>9, <2>1, <2>2, DirFilled, InodeInv, p \in Procs, Zenon
<1>10. CASE /\ r.call # "mkdir"
            /\ disk' = dirlink(iupdate(d0, D, disk.ino[D]), D, disk.ino[D], x, n)
            /\ icache' = held(written(written(icache, s, i), t, disk.ino[D]), s, p)
            /\ IputThen(p, [r EXCEPT !.dp = 0], t, "cr_done")
  <2>1. i \in Inodes /\ i.type = "file" /\ i.nlink = 1 /\ i.addr = 0
    BY <1>2, <1>4, <1>10, Zenon
  <2> HIDE DEF i
  <2> QED BY ONLY <1>0, <1>10, <2>1, FileFilled, InodeInv, p \in Procs, Zenon
<1>11. ASSUME r.call = "mkdir", ~Stop("full")
       PROVE  /\ disk.used # Blocks
              /\ disk' = dirlink(iupdate(dirlink(dirlink(d0, n, i, ".", n), n, bmapped(d0, i), "..", D), D, j), D, j, x, n)
              /\ icache' = held(written(written(icache, s, bmapped(d0, i)), t, j), s, p)
              /\ IputThen(p, [r EXCEPT !.dp = 0], t, "cr_done")
  <2> HIDE DEF i, j, d0, n, D, x, s, t, r
  <2> QED BY ONLY <1>7, <1>11
<1>12. ASSUME r.call # "mkdir", ~Stop("full")
       PROVE  /\ disk' = dirlink(iupdate(d0, D, disk.ino[D]), D, disk.ino[D], x, n)
              /\ icache' = held(written(written(icache, s, i), t, disk.ino[D]), s, p)
              /\ IputThen(p, [r EXCEPT !.dp = 0], t, "cr_done")
  <2> HIDE DEF i, j, d0, n, D, x, s, t, r
  <2> QED BY ONLY <1>6, <1>7, <1>12
<1> HIDE DEF i, j, d0, n, D, x, s, t, r
<1> QED BY <1>8, <1>9, <1>10, <1>11, <1>12

-----------------------------------------------------------------------------
(* The start, a crash, and the invariant. *)

\* A machine that has booted from a sound disk.
Booted ==
  /\ icache = FreshCache /\ proc = FreshProcs /\ panicked = "no"
  /\ DiskInv(disk, {}, NoneOwed) /\ DiskInv(durable, {}, NoneOwed)

\* It has the invariant: one entry, the root directory's, which all processes are in.
LEMMA BootedOk == Booted => InodeInv
<1> SUFFICES ASSUME Booted PROVE InodeInv
  OBVIOUS
<1>0. /\ icache = FreshCache /\ proc = FreshProcs /\ panicked = "no"
      /\ DiskInv(disk, {}, NoneOwed) /\ DiskInv(durable, {}, NoneOwed)
  BY DEF Booted
<1>1. Cardinality(Procs) \in Nat
  BY Basics, FS_CardinalityType
<1>2. \A s \in Slots : /\ icache[s].inum = ROOTINO /\ icache[s].ref = (IF s = 1 THEN Cardinality(Procs) ELSE 0)
                       /\ icache[s].valid = FALSE /\ icache[s].di = Free /\ icache[s].lock = Nobody
  BY <1>0 DEF FreshCache
<1>3. icache \in [Slots -> Entries]
  BY <1>0, <1>1, Basics, FreeFacts DEF FreshCache, Entries
<1>4. ASSUME NEW p \in Procs
      PROVE  LET r == proc[p] IN
             /\ r.pc = "user" /\ r.fd = 0 /\ r.cwd = 1 /\ r.call = "none" /\ r.path = <<>> /\ r.new = <<>>
             /\ r.dp = 0 /\ r.ip = 0 /\ r.old = 0 /\ r.x = 0 /\ r.ret = "end" /\ r.ino = 0
  BY <1>0 DEF FreshProcs, Idle
<1>5. proc \in [Procs -> Records]
  <2>1. <<>> \in Seq(AllNames) /\ <<>> \in Seq(AllNames \union {"/"}) /\ Len(<<>>) = 0
    BY EmptySeq
  <2>2. <<>> \in Paths
    BY <2>1 DEF Paths
  <2>3. 1 \in Slots
    BY Basics
  <2>4. Idle(0, 1) \in Records
    BY <2>1, <2>2, <2>3 DEF Idle, Records, Pcs, Ptrs
  <2> QED BY <1>0, <2>4 DEF FreshProcs
<1>6. ASSUME NEW p \in Procs PROVE at(proc[p]) = "user" /\ Shape(proc[p]) /\ PathOk(proc[p])
  <2> DEFINE r == proc[p]
  <2>1. /\ r.pc = "user" /\ r.fd = 0 /\ r.cwd = 1 /\ r.call = "none" /\ r.path = <<>> /\ r.new = <<>>
        /\ r.dp = 0 /\ r.ip = 0 /\ r.old = 0 /\ r.x = 0 /\ r.ret = "end" /\ r.ino = 0
    BY <1>4
  <2> HIDE DEF r
  <2>2. at(r) = "user"
    BY <2>1 DEF at, Iputs
  <2>3. Len(<<>>) = 0 /\ 1 .. 0 = {}
    OBVIOUS
  <2>4. Shape(r) /\ PathOk(r)
    BY <2>1, <2>2, <2>3 DEF Shape, Iputs, Returns, HasDp, HasIp, HasOld, PathOk
  <2> QED BY <2>2, <2>4 DEF r
<1>7. ASSUME NEW p \in Procs, NEW s \in Slots PROVE ~Locks(proc[p], s)
  BY <1>4, <1>6, Basics DEF Locks, HoldsDp, HoldsIp
<1>8. ASSUME NEW p \in Procs, NEW k \in Kinds PROVE proc[p][k] = IF k = "cwd" THEN 1 ELSE 0
  <2> DEFINE r == proc[p]
  <2>1. r.fd = 0 /\ r.cwd = 1 /\ r.dp = 0 /\ r.ip = 0 /\ r.old = 0 /\ r.x = 0
    BY <1>4
  <2> HIDE DEF r
  <2>2. r[k] = IF k = "cwd" THEN 1 ELSE 0
    BY <2>1 DEF Kinds
  <2> QED BY <2>2 DEF r
<1>9. ASSUME NEW p \in Procs PROVE resv(proc[p], icache) = 0 /\ Local(proc[p], icache, disk)
  <2>1. disk.ino[icache[1].inum].type # "none"
    BY <1>0, <1>2, Basics DEF DiskInv, DotsOk, IsDir
  <2>2. \A k \in Kinds : proc[p][k] # 0 => proc[p][k] = 1
    BY <1>8
  <2>3. \A k \in Kinds : proc[p][k] # 0 /\ ~Dying(proc[p], k) => disk.ino[icache[proc[p][k]].inum].type # "none"
    BY <2>1, <2>2
  <2>4. proc[p].pc = "user" /\ proc[p].dp = 0 /\ proc[p].old = 0
    BY <1>4
  <2> QED BY <1>6, <1>7, <2>3, <2>4 DEF Local, resv
<1>10. RefInv
  <2> SUFFICES ASSUME NEW s \in Slots PROVE icache[s].ref = Pointers(s)
    BY DEF RefInv
  <2>1. \A e \in Procs \X Kinds : proc[e[1]][e[2]] = s <=> s = 1 /\ e[2] = "cwd"
    <3> SUFFICES ASSUME NEW e \in Procs \X Kinds PROVE proc[e[1]][e[2]] = s <=> s = 1 /\ e[2] = "cwd"
      OBVIOUS
    <3>1. e[1] \in Procs /\ e[2] \in Kinds /\ s # 0
      BY Basics
    <3> QED BY <1>8, <3>1
  <2>2. Pointers(s) = Cardinality({e \in Procs \X Kinds : proc[e[1]][e[2]] = s})
    BY DEF Pointers, Kinds
  <2>3. CASE s = 1
    <3>1. {e \in Procs \X Kinds : proc[e[1]][e[2]] = s} = Procs \X {"cwd"}
      BY <2>1, <2>3 DEF Kinds
    <3>2. IsFiniteSet({"cwd"}) /\ Cardinality({"cwd"}) = 1
      BY FS_Singleton
    <3>3. Cardinality(Procs \X {"cwd"}) = Cardinality(Procs) * 1
      BY <3>2, Basics, FS_Product
    <3>4. icache[s].ref = Cardinality(Procs)
      BY <1>2, <2>3
    <3>5. Cardinality(Procs) * 1 = Cardinality(Procs)
      BY ONLY <1>1
    <3> QED BY ONLY <2>2, <3>1, <3>3, <3>4, <3>5
  <2>4. CASE s # 1
    <3>1. {e \in Procs \X Kinds : proc[e[1]][e[2]] = s} = {}
      BY <2>1, <2>4
    <3> QED BY <1>2, <2>2, <2>4, <3>1, FS_EmptySet
  <2> QED BY <2>3, <2>4
<1>11. UniqInv /\ AgreeInv
  BY <1>2 DEF UniqInv, AgreeInv
<1>12. LockInv
  BY <1>2, <1>7, InodeAssumption DEF LockInv
<1>13. ReserveInv
  <2>1. \A p \in Procs, k \in Kinds : proc[p][k] # 0 => icache[proc[p][k]].inum # 0
    BY <1>2, <1>8, Basics
  <2> QED BY <1>9, <2>1 DEF ReserveInv
<1>14. Reserved = {} /\ Owed = NoneOwed
  BY <1>4, <1>6, NoDebts
<1>15. TypeInv
  BY <1>0, <1>3, <1>5 DEF TypeInv
<1> QED BY <1>0, <1>9, <1>10, <1>11, <1>12, <1>13, <1>14, <1>15 DEF InodeInv

\* The image of mkfs is sound.
LEMMA ImageOk == DiskInv(Image, {}, NoneOwed)
<1> DEFINE d == Image
<1>1. /\ d.ino = [i \in Inums |-> CASE i = ROOTINO -> [type |-> "dir", nlink |-> 1, addr |-> 1]
                                    [] i = 2 -> [type |-> "file", nlink |-> 1, addr |-> 0]
                                    [] OTHER -> Free]
      /\ d.used = {1}
      /\ d.data = [b \in Blocks |-> IF b = 1 THEN [Zeroed EXCEPT !["."] = ROOTINO, ![".."] = ROOTINO, ![File] = 2]
                                    ELSE Zeroed]
  BY DEF Image
<1>2. /\ d.ino[ROOTINO] = [type |-> "dir", nlink |-> 1, addr |-> 1] /\ d.ino[2] = [type |-> "file", nlink |-> 1, addr |-> 0]
      /\ \A n \in Inums : n # ROOTINO /\ n # 2 => d.ino[n] = Free
  BY <1>1, Basics
<1>3. /\ d.ino[ROOTINO].type = "dir" /\ d.ino[ROOTINO].nlink = 1 /\ d.ino[ROOTINO].addr = 1
      /\ d.ino[2].type = "file" /\ d.ino[2].nlink = 1 /\ d.ino[2].addr = 0
      /\ \A n \in Inums : n # ROOTINO /\ n # 2 =>
           d.ino[n] = Free /\ d.ino[n].type = "none" /\ d.ino[n].nlink = 0 /\ d.ino[n].addr = 0
  BY <1>2, FreeFacts
<1>4. \A n \in Inums : d.ino[n] \in Inodes
  <2>1. [type |-> "dir", nlink |-> 1, addr |-> 1] \in Inodes /\ [type |-> "file", nlink |-> 1, addr |-> 0] \in Inodes
    BY Basics DEF Inodes
  <2> QED BY <1>2, <2>1, FreeFacts
<1> DEFINE z == [Zeroed EXCEPT !["."] = ROOTINO, ![".."] = ROOTINO, ![File] = 2]
<1>5. /\ z \in [AllNames -> Inums \union {0}]
      /\ \A a \in AllNames : z[a] = IF a \in Dots THEN ROOTINO ELSE IF a = File THEN 2 ELSE 0
  <2>1. Zeroed \in [AllNames -> Inums \union {0}] /\ \A a \in AllNames : Zeroed[a] = 0
    BY DEF Zeroed
  <2>2. "." \in AllNames /\ ".." \in AllNames /\ File \in AllNames /\ File \notin Dots /\ ROOTINO \in Inums /\ 2 \in Inums
    BY Basics DEF Dots
  <2> QED BY <2>1, <2>2 DEF Dots
<1> HIDE DEF z
<1>6. d.data = [b \in Blocks |-> IF b = 1 THEN z ELSE Zeroed]
  BY <1>1 DEF z
<1>7. d \in Images
  <2>1. Zeroed \in [AllNames -> Inums \union {0}]
    BY DEF Zeroed
  <2>2. d.data \in [Blocks -> [AllNames -> Inums \union {0}]]
    BY <1>5, <1>6, <2>1
  <2>3. d.used \in SUBSET Blocks
    BY <1>1, Basics
  <2>4. d.ino \in [Inums -> Inodes]
    BY <1>1, <1>4
  <2> QED BY <2>2, <2>3, <2>4 DEF Image, Images
<1> HIDE DEF d
<1>8. \A m \in Inums, a \in AllNames :
        Ent(d, m, a) = IF m = ROOTINO THEN IF a \in Dots THEN ROOTINO ELSE IF a = File THEN 2 ELSE 0 ELSE 0
  <2>1. \A m \in Inums, a \in AllNames :
          Ent(d, m, a) = IF d.ino[m].type = "dir" /\ d.ino[m].addr # 0 THEN d.data[d.ino[m].addr][a] ELSE 0
    BY <1>7, ImageFacts
  <2>2. \A a \in AllNames : d.data[1][a] = IF a \in Dots THEN ROOTINO ELSE IF a = File THEN 2 ELSE 0
    BY <1>5, <1>6, Basics
  <2>3. \A m \in Inums : m # ROOTINO => d.ino[m].type # "dir"
    BY <1>3
  <2> QED BY ONLY <1>3, <2>1, <2>2, <2>3
<1>9. \A m \in Inums, a \in Names : Ent(d, m, a) = IF m = ROOTINO /\ a = File THEN 2 ELSE 0
  BY <1>8, Basics DEF Dots
<1>10. \A m : IsDir(d, m) <=> m = ROOTINO
  BY <1>3, Basics DEF IsDir
<1>11. \A m \in Inums, a \in Names : ~IsDir(d, Ent(d, m, a))
  BY <1>9, <1>10, Basics
<1>12. FreeOk(d, {})
  BY <1>3 DEF FreeOk
<1>13. BlocksOk(d)
  <2>1. \A n \in Inums : d.ino[n].addr # 0 => n = ROOTINO
    BY <1>3
  <2>2. d.used = {1}
    BY <1>1 DEF d
  <2> QED BY <1>3, <2>1, <2>2, Basics DEF BlocksOk
<1>14. DotsOk(d, {})
  <2>1. Ent(d, ROOTINO, ".") = ROOTINO /\ Ent(d, ROOTINO, "..") = ROOTINO
    BY <1>8, Basics DEF Dots
  <2>2. \A n \in Inums : d.ino[n].type = "dir" => n = ROOTINO
    BY <1>3
  <2> QED BY <1>3, <1>10, <2>1, <2>2, Basics DEF DotsOk
<1>15. NamesOk(d)
  BY <1>11 DEF NamesOk
<1>16. LinksOk(d, NoneOwed)
  <2>1. \A n \in Inums : Kids(d, n) = {} /\ Cardinality(Kids(d, n)) = 0 /\ NoneOwed[n] = 0
    <3>1. \A n \in Inums : Kids(d, n) = {} /\ NoneOwed[n] = 0
      BY <1>11 DEF Kids, NoneOwed
    <3> QED BY <3>1, FS_EmptySet
  <2>2. \A n \in Inums : n # 2 => Cardinality(NameSet(d, n)) = 0
    <3>1. \A n \in Inums : n # 2 => NameSet(d, n) = {}
      <4> SUFFICES ASSUME NEW n \in Inums, n # 2, NEW e \in Inums \X Names, Ent(d, e[1], e[2]) = n PROVE FALSE
        BY DEF NameSet
      <4> QED BY <1>9, Basics
    <3> QED BY <3>1, FS_EmptySet
  <2>3. Cardinality(NameSet(d, 2)) = 1
    <3>1. NameSet(d, 2) = {<<ROOTINO, File>>}
      <4>1. \A e \in Inums \X Names : Ent(d, e[1], e[2]) = 2 <=> e = <<ROOTINO, File>>
        BY <1>9, Basics
      <4>2. <<ROOTINO, File>> \in Inums \X Names
        BY Basics
      <4> QED BY <4>1, <4>2 DEF NameSet
    <3> QED BY <3>1, FS_Singleton
  <2>4. \A n \in Inums : Links(d, NoneOwed, n) = IF n = 2 \/ n = ROOTINO THEN 1 ELSE 0
    BY <2>1, <2>2, <2>3, Basics DEF Links
  <2>5. \A n \in Inums : d.ino[n].nlink = Links(d, NoneOwed, n) /\ d.ino[n].nlink >= Links(d, NoneOwed, n)
    BY <1>3, <2>4
  <2> QED BY <2>5 DEF LinksOk, LinksAt
<1>17. TreeOk(d, {})
  <2>1. Ent(d, ROOTINO, "..") = ROOTINO
    BY <1>8, Basics DEF Dots
  <2>2. \A n \in Inums : d.ino[n].type = "dir" => n = ROOTINO
    BY <1>3
  <2> QED BY <1>10, <2>1, <2>2 DEF TreeOk
<1> QED BY <1>7, <1>12, <1>13, <1>14, <1>15, <1>16, <1>17 DEF DiskInv, d

\* A crash: recovery finds a sound disk, and everybody starts again.
LEMMA CrashKeeps == ASSUME InodeInv, Crash PROVE InodeInv'
<1>1. Booted'
  BY DEF Crash, InodeInv, Booted
<1>2. Booted' => InodeInv'
  BY BootedOk, PTL
<1> QED BY <1>1, <1>2

\* A step of a process in its call.
LEMMA StepKeeps == ASSUME InodeInv, UpLinked, NEW p \in Procs, Step(p) PROVE InodeInv'
<1>1. CASE namex(p) \/ open(p) \/ chdir(p) \/ write(p)
  BY <1>1, namexKeeps, openKeeps, chdirKeeps, writeKeeps
<1>2. CASE iput(p) \/ iput_free(p) \/ iput_valid(p) \/ iput_ref(p) \/ end_op(p)
  BY <1>2, iputKeeps, iput_freeKeeps, iput_validKeeps, iput_refKeeps, end_opKeeps
<1>3. CASE create(p) \/ cr_exists(p) \/ ialloc(p) \/ cr_iget(p) \/ cr_fill(p) \/ cr_done(p)
  BY <1>3, createKeeps, cr_existsKeeps, iallocKeeps, cr_igetKeeps, cr_fillKeeps, cr_doneKeeps
<1>4. CASE unlink(p) \/ ul_entry(p) \/ ul_drop(p)
  BY <1>4, unlinkKeeps, ul_entryKeeps, ul_dropKeeps
<1>5. CASE ul_bad(p) \/ ln_exists(p)
  BY <1>5, ReleaseKeeps DEF ul_bad, ln_exists
<1>6. CASE ln_lock(p) \/ ln_parent(p) \/ ln_link(p) \/ ln_put(p) \/ ln_bad(p)
  BY <1>6, ln_lockKeeps, ln_parentKeeps, ln_linkKeeps, ln_putKeeps, ln_badKeeps
<1> QED BY <1>1, <1>2, <1>3, <1>4, <1>5, <1>6 DEF Step

\* Init has it.
LEMMA BootedAtFirst == Init => InodeInv
<1>1. Init => Booted
  BY ImageOk DEF Init, Booted
<1> QED BY <1>1, BootedOk

\* Every step keeps it from a state in which no path goes up to an inode without links.
LEMMA NextKeeps == InodeInv /\ UpLinked /\ [Next]_vars => InodeInv'
<1> SUFFICES ASSUME InodeInv, UpLinked, [Next]_vars PROVE InodeInv'
  OBVIOUS
<1>1. CASE UNCHANGED vars
  BY <1>1, NothingKeeps DEF vars
<1>2. ASSUME NEW p \in Procs, Step(p) PROVE InodeInv'
  BY <1>2, StepKeeps
<1>3. ASSUME NEW p \in Procs, NEW c \in Calls[p], Begin(p, c) PROVE InodeInv'
  BY <1>3, BeginKeeps
<1>4. CASE Crash
  BY <1>4, CrashKeeps
<1> QED BY <1>1, <1>2, <1>3, <1>4 DEF Next

\* The inductive invariant holds of the code for as long as no path goes up to an inode
\* without links.
THEOREM InodeInvariant == Spec /\ []UpLinked => []InodeInv
BY BootedAtFirst, NextKeeps, PTL DEF Spec

\* Without ".." in the paths no path goes up; without rmdir it goes up to a directory.
LEMMA UpIsLinked == ASSUME NoDotDot \/ NoRmdir PROVE InodeInv => UpLinked
<1> SUFFICES ASSUME InodeInv, NEW p \in Procs, NEW s \in Slots, GoesUp(p, s), dirlookup(s, "..") # 0
             PROVE  disk.ino[dirlookup(s, "..")].nlink >= 1
  BY DEF UpLinked
<1> DEFINE r == proc[p]  D == icache[s].inum
<1>1. r \in Records /\ Shape(r) /\ PathOk(r) /\ r.path # <<>> /\ Head(r.path) = ".."
  BY Mine DEF GoesUp
<1>2. NoRmdir
  BY <1>1, HeadFacts
<1>3. /\ s # 0 /\ s \in Sees(r) \union {r.ip} /\ Count(r, s) > 0
  BY <1>1, Mine DEF GoesUp, Shape, HasIp, HasDp, at, Iputs, Sees
<1>4. D \in Inums /\ D \notin Reserved /\ inode(s) = disk.ino[D] /\ inode(s).type = "dir"
  BY <1>3, Mine, NotReserved, Read DEF GoesUp
<1>5. dirlookup(s, "..") = Ent(disk, D, "..")
  BY <1>4 DEF dirlookup, Ent
<1>6. Reserved \in SUBSET Inums /\ Owed \in [Inums -> Nat] /\ DiskInv(disk, Reserved, Owed)
  <2>1. \A m \in Inums : Cardinality({q \in Procs : owed(proc[q], icache) = m}) \in Nat
    BY Basics, FS_Subset, FS_CardinalityType
  <2> QED BY <2>1 DEF Reserved, Owed, InodeInv
<1> HIDE DEF D
<1> QED BY <1>2, <1>4, <1>5, <1>6, UpHasLink

\* If no path has ".." or no directory is removed, no path ever goes up to an inode
\* without links: what the theorems below assume is met.
THEOREM UpStaysLinked == ASSUME NoDotDot \/ NoRmdir PROVE Spec => [](InodeInv /\ UpLinked)
<1>1. InodeInv => UpLinked
  BY UpIsLinked
<1>2. Init => InodeInv
  BY BootedAtFirst
<1>3. InodeInv /\ UpLinked /\ [Next]_vars => InodeInv'
  BY NextKeeps
<1> QED BY <1>1, <1>2, <1>3, PTL DEF Spec
-----------------------------------------------------------------------------
(* What it implies. *)

\* iget() finds at most one entry, and an entry that nobody has locked is as on the disk.
LEMMA CacheIsSound == InodeInv => CacheSound
<1> SUFFICES ASSUME InodeInv PROVE CacheSound
  OBVIOUS
<1>1. \A s \in Slots : icache[s].ref = Pointers(s)
  BY DEF InodeInv, RefInv
<1>2. \A n \in Inums : Cardinality(hit(n)) <= 1
  <2> SUFFICES ASSUME NEW n \in Inums PROVE Cardinality(hit(n)) <= 1
    OBVIOUS
  <2>1. CASE hit(n) = {}
    BY <2>1, FS_EmptySet
  <2>2. CASE hit(n) # {}
    <3>1. PICK s : s \in hit(n)
      BY <2>2
    <3>2. hit(n) = {s}
      BY <3>1 DEF hit, InodeInv, UniqInv
    <3> QED BY <3>2, FS_Singleton
  <2> QED BY <2>1, <2>2
<1>3. ASSUME NEW s \in Slots, icache[s].ref > 0, icache[s].valid, Unlocked(s)
      PROVE  icache[s].di = disk.ino[icache[s].inum]
  <2>1. inode(s) = disk.ino[icache[s].inum]
    BY <1>3, Read
  <2> QED BY <1>3, <2>1 DEF inode
<1> QED BY <1>1, <1>2, <1>3 DEF CacheSound

\* The inode cache of fs.c, for as long as no path goes up to an inode without links: ref
\* counts the pointers, no inode is in two entries, and an entry that is valid and not
\* locked agrees with the disk.
THEOREM CacheIsConsistent == Spec /\ []UpLinked => []CacheSound
<1>1. Spec /\ []UpLinked => []InodeInv
  BY InodeInvariant
<1>2. InodeInv => CacheSound
  BY CacheIsSound
<1> QED BY <1>1, <1>2, PTL

\* The panics of ilock() ("no type") and sys_unlink() ("nlink < 1") can be reached: a
\* process in a removed directory, or with one open as its current directory, goes up to
\* a parent that was removed and freed too.  That is the only way: there is no panic as
\* long as no path has gone up to an inode without links.
THEOREM PanicsOnlyGoingUp == Spec /\ []UpLinked => []NoPanic
<1>1. Spec /\ []UpLinked => []InodeInv
  BY InodeInvariant
<1>2. InodeInv => NoPanic
  BY DEF InodeInv, TypeInv, NoPanic
<1> QED BY <1>1, <1>2, PTL

\* Without rmdir, a directory has a link.
LEMMA DirLinked ==
  ASSUME NoRmdir, NEW d, DiskInv(d, {}, NoneOwed), NEW n \in Inums, d.ino[n].type = "dir"
  PROVE  d.ino[n].nlink > 0
<1>1. d \in Images /\ LinksOk(d, NoneOwed) /\ TreeOk(d, {})
  BY DEF DiskInv
<1>2. n # ROOTINO => NameSet(d, n) # {}
  BY <1>1 DEF TreeOk
<1>3. /\ Cardinality(NameSet(d, n)) \in Nat /\ Cardinality(Kids(d, n)) \in Nat /\ NoneOwed[n] = 0
      /\ NameSet(d, n) # {} => Cardinality(NameSet(d, n)) # 0
  <2>1. NoneOwed[n] = 0
    BY DEF NoneOwed
  <2> QED BY <2>1, FiniteNames, FS_EmptySet
<1>4. d.ino[n].nlink = Links(d, NoneOwed, n)
  BY <1>1 DEF LinksOk, LinksAt
<1> QED BY <1>2, <1>3, <1>4 DEF Links

\* The subdirectories of a directory are those whose ".." it is.
LEMMA KidsCounted ==
  ASSUME NoRmdir, NEW d, DiskInv(d, {}, NoneOwed), NEW n \in Inums
  PROVE  LET B == {e \in Dirs(d) \X {".."} : e[1] # n /\ Ent(d, e[1], "..") = n} IN
         IsFiniteSet(B) /\ Cardinality(B) = Cardinality(Kids(d, n))
<1> DEFINE B == {e \in Dirs(d) \X {".."} : e[1] # n /\ Ent(d, e[1], "..") = n}
           f == [a \in Kids(d, n) |-> <<Ent(d, n, a), "..">>]
<1>1. d \in Images /\ NamesOk(d) /\ TreeOk(d, {}) /\ DotsOk(d, {})
  BY DEF DiskInv
<1>2. ASSUME NEW a \in Kids(d, n)
      PROVE  /\ a \in Names /\ Ent(d, n, a) \in Dirs(d) /\ Ent(d, n, a) # n /\ Ent(d, Ent(d, n, a), "..") = n
             /\ \A b \in Kids(d, n) : Ent(d, n, b) = Ent(d, n, a) => b = a
  <2>1. a \in Names /\ IsDir(d, Ent(d, n, a)) /\ \A b \in Kids(d, n) : b \in Names
    BY DEF Kids
  <2>2. /\ Ent(d, n, a) # n /\ Ent(d, Ent(d, n, a), "..") = n
        /\ \A m \in Inums, b \in Names : Ent(d, m, b) = Ent(d, n, a) => m = n /\ b = a
    BY <1>1, <2>1 DEF NamesOk
  <2>3. Ent(d, n, a) \in Dirs(d)
    <3>1. PICK m : m = Ent(d, n, a)
      OBVIOUS
    <3>2. m \in Inums /\ d.ino[m].type = "dir"
      BY <2>1, <3>1 DEF IsDir
    <3>3. d.ino[m].nlink > 0
      BY <3>2, DirLinked
    <3> QED BY <3>1, <3>2, <3>3 DEF Dirs
  <2> QED BY <2>1, <2>2, <2>3
<1>3. f \in [Kids(d, n) -> B]
  <2> SUFFICES ASSUME NEW a \in Kids(d, n) PROVE <<Ent(d, n, a), "..">> \in B
    OBVIOUS
  <2> QED BY <1>2
<1>4. \A a, b \in Kids(d, n) : f[a] = f[b] => a = b
  BY <1>2
<1>5. ASSUME NEW e \in B PROVE \E a \in Kids(d, n) : f[a] = e
  <2>1. PICK m : m = e[1]
    OBVIOUS
  <2>2. e = <<m, "..">> /\ m \in Inums /\ d.ino[m].type = "dir" /\ m # n /\ Ent(d, m, "..") = n
    BY <1>5, <2>1 DEF Dirs
  <2>3. m # ROOTINO
    BY <1>1, <2>2 DEF DotsOk
  <2>4. NameSet(d, m) # {}
    BY <1>1, <2>2, <2>3 DEF TreeOk
  <2>5. PICK l \in Inums, a \in Names : Ent(d, l, a) = m
    BY <2>4 DEF NameSet
  <2>6. IsDir(d, Ent(d, l, a))
    BY <2>2, <2>5 DEF IsDir
  <2>7. Ent(d, m, "..") = l
    BY <1>1, <2>5, <2>6 DEF NamesOk
  <2>8. a \in Kids(d, n) /\ Ent(d, n, a) = m
    BY <2>2, <2>5, <2>6, <2>7 DEF Kids
  <2> QED BY <2>2, <2>8
<1>6. f \in Bijection(Kids(d, n), B)
  BY <1>3, <1>4, <1>5, Fun_IsBij
<1>7. ExistsBijection(Kids(d, n), B)
  BY <1>6 DEF ExistsBijection
<1>8. IsFiniteSet(Kids(d, n))
  BY FiniteNames
<1> HIDE DEF B
<1>9. IsFiniteSet(B) /\ Cardinality(B) = Cardinality(Kids(d, n))
  BY <1>7, <1>8, FS_Bijection
<1> QED BY <1>9 DEF B

\* The link counts of a disk that has the invariant are those a check of it would count.
LEMMA LinksAreNames ==
  ASSUME NoRmdir, NEW d, DiskInv(d, {}, NoneOwed), NEW n \in Inums
  PROVE  d.ino[n].nlink = Cardinality(NamesOf(d, n)) + IF n = ROOTINO THEN 1 ELSE 0
<1> DEFINE A == NameSet(d, n)
           B == {e \in Dirs(d) \X {".."} : e[1] # n /\ Ent(d, e[1], "..") = n}
<1>1. d \in Images /\ LinksOk(d, NoneOwed)
  BY DEF DiskInv
<1>2. \A m \in Inums : d.ino[m].type = "dir" => m \in Dirs(d)
  BY DirLinked DEF Dirs
<1>3. \A m \in Inums, a \in AllNames : Ent(d, m, a) = n => m \in Dirs(d)
  BY <1>2, Basics DEF Ent
<1>4. \A m \in Dirs(d), a \in AllNames : m \in Inums /\ entries(d, d.ino[m])[a] = Ent(d, m, a)
  BY DEF Ent, Dirs
<1>5. NamesOf(d, n) = A \cup B
  <2>1. ASSUME NEW e \in NamesOf(d, n) PROVE e \in A \cup B
    <3>1. PICK m \in Dirs(d), a \in AllNames \ {"."} : e = <<m, a>>
      BY <2>1 DEF NamesOf
    <3>2. (a = ".." => m # n) /\ entries(d, d.ino[m])[a] = n
      BY <2>1, <3>1 DEF NamesOf
    <3>3. m \in Inums /\ Ent(d, m, a) = n
      BY <1>4, <3>1, <3>2
    <3>4. CASE a = ".."
      BY <3>1, <3>2, <3>3, <3>4
    <3>5. CASE a # ".."
      <4>1. a \in Names
        BY <3>1, <3>5, Basics
      <4> QED BY <3>1, <3>3, <4>1 DEF NameSet
    <3> QED BY <3>4, <3>5
  <2>2. ASSUME NEW e \in A PROVE e \in NamesOf(d, n)
    <3>1. PICK m \in Inums, a \in Names : e = <<m, a>> /\ Ent(d, m, a) = n
      BY <2>2 DEF NameSet
    <3>2. a \in AllNames /\ a # "." /\ a # ".."
      BY Basics
    <3>3. m \in Dirs(d) /\ entries(d, d.ino[m])[a] = n
      BY <1>3, <1>4, <3>1, <3>2
    <3> QED BY <3>1, <3>2, <3>3 DEF NamesOf
  <2>3. ASSUME NEW e \in B PROVE e \in NamesOf(d, n)
    <3>1. PICK m \in Dirs(d) : e = <<m, "..">> /\ m # n /\ Ent(d, m, "..") = n
      BY <2>3
    <3>2. ".." \in AllNames /\ ".." # "."
      BY Basics
    <3>3. entries(d, d.ino[m])[".."] = n
      BY <1>4, <3>1, <3>2
    <3> QED BY <3>1, <3>2, <3>3 DEF NamesOf
  <2> QED BY <2>1, <2>2, <2>3
<1>6. A \cap B = {}
  <2> SUFFICES ASSUME NEW e, e \in A, e \in B PROVE FALSE
    OBVIOUS
  <2>1. e[2] \in Names
    BY DEF NameSet
  <2>2. e[2] = ".."
    OBVIOUS
  <2> QED BY <2>1, <2>2, Basics
<1>7. IsFiniteSet(B) /\ Cardinality(B) = Cardinality(Kids(d, n))
  BY KidsCounted
<1>8. IsFiniteSet(A) /\ Cardinality(A) \in Nat /\ Cardinality(Kids(d, n)) \in Nat
  BY FiniteNames
<1> HIDE DEF A, B
<1>9. Cardinality(A \cup B) = Cardinality(A) + Cardinality(B)
  <2>1. Cardinality(A \cup B) = Cardinality(A) + Cardinality(B) - Cardinality(A \cap B)
    BY <1>7, <1>8, FS_Union
  <2>2. Cardinality(A \cap B) = 0
    BY <1>6, FS_EmptySet
  <2> QED BY <1>7, <1>8, <2>1, <2>2
<1>10. NoneOwed[n] = 0
  BY DEF NoneOwed
<1>11. d.ino[n].nlink = Links(d, NoneOwed, n)
  BY <1>1 DEF LinksOk, LinksAt
<1>12. Links(d, NoneOwed, n) = Cardinality(A) + Cardinality(Kids(d, n)) + IF n = ROOTINO THEN 1 ELSE 0
  BY <1>8, <1>10 DEF Links, A
<1> QED BY <1>5, <1>7, <1>9, <1>11, <1>12

\* A block is marked if and only if it belongs to exactly one inode.
LEMMA BlocksOwned ==
  ASSUME NEW R, NEW W, NEW d, DiskInv(d, R, W), NEW b \in Blocks
  PROVE  Cardinality({n \in Inums : d.ino[n].addr = b}) = IF b \in d.used THEN 1 ELSE 0
<1>0. BlocksOk(d) /\ b # 0
  BY Basics DEF DiskInv
<1>1. CASE b \in d.used
  <2>1. PICK n \in Inums : d.ino[n].addr = b
    BY <1>0, <1>1 DEF BlocksOk
  <2>2. {m \in Inums : d.ino[m].addr = b} = {n}
    BY <1>0, <2>1 DEF BlocksOk
  <2> QED BY <1>1, <2>2, FS_Singleton
<1>2. CASE b \notin d.used
  <2>1. {m \in Inums : d.ino[m].addr = b} = {}
    BY <1>0, <1>2 DEF BlocksOk
  <2> QED BY <1>2, <2>1, FS_EmptySet
<1> QED BY <1>1, <1>2

\* A disk that has the invariant, and nothing reserved or owed, is sound.
LEMMA ImageSound == ASSUME NoRmdir, NEW d, DiskInv(d, {}, NoneOwed) PROVE Sound(d)
BY BlocksOwned, LinksAreNames DEF Sound

\* If no directory is removed, what a crash leaves is a sound file system, and so is the
\* disk when no call is in progress.
THEOREM DiskStaysSound == ASSUME NoRmdir PROVE Spec => []DiskSound
<1>0. NoRmdir
  OBVIOUS
<1>1. Spec => []InodeInv
  BY <1>0, UpStaysLinked, PTL
<1>2. InodeInv => DiskSound
  <2> SUFFICES ASSUME InodeInv PROVE DiskSound
    OBVIOUS
  <2>1. Sound(durable)
    BY <1>0, ImageSound DEF InodeInv
  <2>2. ASSUME Quiet PROVE Sound(disk)
    <3>1. \A q \in Procs : Shape(proc[q]) /\ proc[q].pc \in {"user", "end"}
      BY <2>2 DEF Quiet, InodeInv, Local
    <3>2. Reserved = {} /\ Owed = NoneOwed
      BY <3>1, NoDebts
    <3> QED BY <1>0, <3>2, ImageSound DEF InodeInv
  <2> QED BY <2>1, <2>2 DEF DiskSound
<1> QED BY <1>1, <1>2, PTL

\* What a disk keeps when directories are removed too and even while calls are in
\* progress: no name leads to a free inode, no inode has fewer links than names, and a
\* block is marked in use if and only if it belongs to exactly one inode.
Intact(d) ==
  /\ \A n \in Inums, a \in Names : Ent(d, n, a) # 0 => d.ino[Ent(d, n, a)].type # "none"
  /\ \A n \in Inums : d.ino[n].nlink >= Cardinality(NameSet(d, n)) + Cardinality(Kids(d, n))
  /\ \A b \in Blocks : Cardinality({n \in Inums : d.ino[n].addr = b}) = IF b \in d.used THEN 1 ELSE 0

\* An image that has the invariant is intact, whatever is reserved and owed.
LEMMA ImageIntact == ASSUME NEW R, NEW W \in [Inums -> Nat], NEW d, DiskInv(d, R, W) PROVE Intact(d)
<1>1. \A n \in Inums, a \in Names : Ent(d, n, a) # 0 => d.ino[Ent(d, n, a)].type # "none"
  BY Named
<1>2. ASSUME NEW n \in Inums
      PROVE  d.ino[n].nlink >= Cardinality(NameSet(d, n)) + Cardinality(Kids(d, n))
  <2>1. d.ino[n].nlink >= Links(d, W, n) /\ d.ino[n].nlink \in Int
    BY ImageFacts DEF DiskInv, LinksOk, LinksAt
  <2>2. Cardinality(NameSet(d, n)) \in Nat /\ Cardinality(Kids(d, n)) \in Nat /\ W[n] \in Nat
    BY FiniteNames
  <2> QED BY <2>1, <2>2 DEF Links
<1> QED BY <1>1, <1>2, BlocksOwned DEF Intact

\* Between any two steps of create(), sys_link(), sys_unlink() and iput(), the disk is
\* intact, and so is what a crash leaves, for as long as no path goes up to an inode
\* without links: what the code loses in a removed directory is
\* never a name of a freed inode nor a block with two owners.
THEOREM DiskStaysIntact == Spec /\ []UpLinked => [](Intact(durable) /\ Intact(disk))
<1>1. Spec /\ []UpLinked => []InodeInv
  BY InodeInvariant
<1>2. InodeInv => Intact(durable) /\ Intact(disk)
  <2> SUFFICES ASSUME InodeInv PROVE Intact(durable) /\ Intact(disk)
    OBVIOUS
  <2>1. NoneOwed \in [Inums -> Nat]
    BY DEF NoneOwed
  <2>2. Owed \in [Inums -> Nat]
    <3>1. \A m \in Inums : Cardinality({q \in Procs : owed(proc[q], icache) = m}) \in Nat
      BY Basics, FS_Subset, FS_CardinalityType
    <3> QED BY <3>1 DEF Owed
  <2>3. DiskInv(durable, {}, NoneOwed) /\ DiskInv(disk, Reserved, Owed)
    BY DEF InodeInv
  <2> QED BY <2>1, <2>2, <2>3, ImageIntact
<1> QED BY <1>1, <1>2, PTL
=============================================================================

---------------------------- MODULE InodeLemmas ------------------------------
(***************************************************************************)
(* The inductive invariant of inodes and directories (Inode) and what its  *)
(* steps have in common, for any number of processes, inodes, cache        *)
(* entries and blocks: what one change of an image does to its links,      *)
(* blocks and tree, what a process that takes, keeps or puts pointers does *)
(* to the reference counts, and the three forms a step has: it leaves the  *)
(* disk alone (Proceeds), changes inodes on it (Alters) or one's link      *)
(* count (Recounts).                                                       *)
(*                                                                         *)
(* The parts of the invariant about the disk are operators on an image, so *)
(* that they can be said of the disk, of what recovery would find, and of  *)
(* the next state; those about a process are operators on its record.      *)
(***************************************************************************)
EXTENDS Inode, WellFoundedInduction, TLAPS, FiniteSetTheorems, FunctionTheorems, SequenceTheorems

\* Types.
Pcs == {"user", "end", "namex", "open", "chdir", "write", "iput", "iput_free", "iput_valid", "iput_ref",
        "create", "cr_exists", "cr_ialloc", "cr_iget", "cr_fill", "cr_done",
        "unlink", "ul_entry", "ul_bad", "ul_drop",
        "ln_lock", "ln_parent", "ln_link", "ln_exists", "ln_put", "ln_bad"}
Ops == {"open", "create", "mkdir", "link", "unlink", "chdir"}
Ptrs == Slots \union {0}
Kinds == {"fd", "cwd", "dp", "ip", "old", "x"}
Inodes == [type : {"none", "file", "dir"}, nlink : Int, addr : Blocks \union {0}]
Images == [ino : [Inums -> Inodes], used : SUBSET Blocks,
           data : [Blocks -> [AllNames -> Inums \union {0}]]]
Entries == [inum : Inums, ref : Nat, valid : BOOLEAN, di : Inodes, lock : Procs \union {Nobody}]
Records == [pc : Pcs, fd : Ptrs, cwd : Slots, call : Ops \union {"none", "write", "close"}, path : Seq(AllNames), new : Paths,
            dp : Ptrs, ip : Ptrs, old : Ptrs, x : Ptrs, ret : Pcs, ino : Inums \union {0}]

\* What the calls do: a name some mkdir() makes or some unlink() removes.
Makes(a) == \E p \in Procs : \E c \in Calls[p] :
              c.op = "mkdir" /\ c.path # <<>> /\ c.path[Len(c.path)] = a
Removes(a) == \E p \in Procs : \E c \in Calls[p] :
                c.op = "unlink" /\ c.path # <<>> /\ c.path[Len(c.path)] = a

\* No call removes a directory.
NoRmdir == \A a \in Names : ~(Makes(a) /\ Removes(a))

\* No call goes up.
NoDotDot == \A p \in Procs : \A c \in Calls[p] :
              /\ \A i \in 1 .. Len(c.path) : c.path[i] # ".."
              /\ \A i \in 1 .. Len(c.new) : c.new[i] # ".."
-----------------------------------------------------------------------------
(* The disk *)

\* The entry of name a in directory n of image d; 0 if n is no directory.
Ent(d, n, a) == IF d.ino[n].type = "dir" THEN entries(d, d.ino[n])[a] ELSE 0

\* The names of inode n, dots apart, and its subdirectories.
NameSet(d, n) == {e \in Inums \X Names : Ent(d, e[1], e[2]) = n}
IsDir(d, n) == n \in Inums /\ d.ino[n].type = "dir"
Kids(d, n) == {a \in Names : IsDir(d, Ent(d, n, a))}

\* The links inode n should have when W[n] calls owe one.
Links(d, W, n) == Cardinality(NameSet(d, n)) + Cardinality(Kids(d, n)) + W[n]
                    + IF n = ROOTINO THEN 1 ELSE 0

\* A free inode is zero, and so is one in R but for its type.
FreeOk(d, R) ==
  /\ \A n \in Inums : d.ino[n].type = "none" => d.ino[n] = Free
  /\ \A n \in R : d.ino[n].type # "none" /\ d.ino[n].nlink = 0 /\ d.ino[n].addr = 0

\* A block is marked if and only if it is an inode's, and it is one inode's only.
BlocksOk(d) ==
  /\ \A n \in Inums : d.ino[n].addr # 0 => d.ino[n].addr \in d.used
  /\ \A n, m \in Inums : d.ino[n].addr # 0 /\ d.ino[n].addr = d.ino[m].addr => n = m
  /\ \A b \in d.used : \E n \in Inums : d.ino[n].addr = b

\* A directory has its dots.
DotsOk(d, R) ==
  /\ IsDir(d, ROOTINO) /\ ROOTINO \notin R /\ Ent(d, ROOTINO, "..") = ROOTINO
  /\ \A n \in Inums : d.ino[n].type = "dir" /\ n \notin R =>
       d.ino[n].addr # 0 /\ Ent(d, n, ".") = n /\ Ent(d, n, "..") # 0

\* A directory has one name, made by mkdir(), in the one its ".." says.
NamesOk(d) ==
  \A n \in Inums, a \in Names : IsDir(d, Ent(d, n, a)) =>
    /\ Ent(d, n, a) # n /\ Ent(d, n, a) # ROOTINO /\ Makes(a)
    /\ Ent(d, Ent(d, n, a), "..") = n
    /\ \A m \in Inums, b \in Names : Ent(d, m, b) = Ent(d, n, a) => m = n /\ b = a

\* No link is missing; one may be too many for a file whose directory is gone.
LinksAt(d, W, n) == /\ d.ino[n].nlink >= Links(d, W, n)
                    /\ d.ino[n].type # "file" \/ NoRmdir => d.ino[n].nlink = Links(d, W, n)
LinksOk(d, W) == \A n \in Inums : LinksAt(d, W, n)

\* If no directory is removed, each is in the tree.
TreeOk(d, R) ==
  NoRmdir => \A n \in Inums : d.ino[n].type = "dir" /\ n \notin R =>
               /\ n # ROOTINO => NameSet(d, n) # {}
               /\ IsDir(d, Ent(d, n, "..")) /\ Ent(d, n, "..") \notin R

\* Image d is sound but for the inodes in R, which are being created, and the
\* links W, which are being made or dropped.
DiskInv(d, R, W) ==
  d \in Images /\ FreeOk(d, R) /\ BlocksOk(d) /\ DotsOk(d, R) /\ NamesOk(d) /\ LinksOk(d, W) /\ TreeOk(d, R)

NoneOwed == [n \in Inums |-> 0]
-----------------------------------------------------------------------------
(* The processes *)

Iputs == {"iput", "iput_free", "iput_valid", "iput_ref"}

\* Where the call is, or will be after iput().
at(r) == IF r.pc \in Iputs THEN r.ret ELSE r.pc

\* Where a call puts an inode on its way to, has dp, ip or old, and has dp or ip locked.
Returns == {"end", "namex", "cr_exists", "cr_done", "ul_bad", "ul_drop", "ln_exists", "ln_put", "ln_bad"}
HasDp == {"create", "unlink", "cr_ialloc", "cr_iget", "cr_fill", "ul_entry", "ul_bad", "ln_link", "ln_exists"}
HasIp == {"namex", "open", "chdir", "cr_exists", "ln_lock", "cr_fill", "cr_done", "ul_entry", "ul_drop"}
HasOld == {"ln_parent", "ln_link", "ln_exists", "ln_put", "ln_bad"}
HoldsDp == {"cr_ialloc", "cr_iget", "cr_fill", "ul_entry", "ul_bad", "ln_exists"}
HoldsIp == {"cr_done", "ul_drop"}

\* The local variables in use.
Shape(r) ==
  /\ at(r) \notin Iputs
  /\ r.pc \in Iputs => r.ret \in Returns
  /\ r.dp # 0 <=> at(r) \in HasDp
  /\ r.ip # 0 <=> at(r) \in HasIp
  /\ at(r) \in HasOld => r.old # 0
  /\ r.old # 0 => at(r) \in HasOld \union {"namex"} /\ r.call = "link"
  /\ r.x # 0 <=> r.pc \in Iputs
  /\ r.pc \notin Iputs => r.ret = "end"
  /\ r.pc = "write" => r.fd # 0
  /\ r.ino # 0 <=> r.pc = "cr_iget"
  /\ at(r) = "namex" => r.call \in Ops
  /\ r.dp # 0 => Len(r.path) = 1
  /\ at(r) \in {"create", "cr_ialloc", "cr_iget", "cr_fill"} => r.call \in {"create", "mkdir"}
  /\ at(r) \in {"unlink", "ul_entry"} => r.call = "unlink"
  /\ at(r) = "open" => r.call = "open"
  /\ at(r) = "ln_lock" => r.call = "link"
  /\ r.pc \in {"iput_free", "iput_valid"} =>
       ~(r.x = r.dp /\ at(r) \in HoldsDp) /\ ~(r.x = r.ip /\ at(r) \in HoldsIp)
  /\ r.call \in {"open", "create"} /\ at(r) \notin {"user", "end"} => r.fd = 0

\* What is left of the paths.
PathOk(r) ==
  /\ NoDotDot => /\ \A i \in 1 .. Len(r.path) : r.path[i] # ".."
                 /\ \A i \in 1 .. Len(r.new) : r.new[i] # ".."
  /\ r.call = "mkdir" /\ r.path # <<>> => Makes(r.path[Len(r.path)])
  /\ r.call = "unlink" /\ r.path # <<>> => Removes(r.path[Len(r.path)])

\* Process r has the sleep-lock of entry s.
Locks(r, s) ==
  \/ s = r.dp /\ at(r) \in HoldsDp
  \/ s = r.ip /\ at(r) \in HoldsIp
  \/ s = r.x /\ r.pc \in {"iput_free", "iput_valid"}

\* Pointer k of r is to an inode that may be gone: iput() has freed it.
Dying(r, k) == k = "x" /\ r.pc \in {"iput_valid", "iput_ref"}

\* The inode r is creating, and the one whose links r changes in two steps.
resv(r, ic) == IF r.pc = "cr_iget" THEN r.ino
               ELSE IF r.pc = "cr_fill" THEN ic[r.ip].inum ELSE 0
owed(r, ic) == IF at(r) = "ul_drop" THEN ic[r.ip].inum
               ELSE IF r.old # 0 /\ at(r) # "ln_put" THEN ic[r.old].inum ELSE 0

Fresh(call) == [Free EXCEPT !.type = IF call = "mkdir" THEN "dir" ELSE "file"]

\* What process r relies on, ic being the cache and d the disk.
Local(r, ic, d) ==
  /\ Shape(r) /\ PathOk(r)
  /\ \A k \in Kinds : r[k] # 0 /\ ~Dying(r, k) => d.ino[ic[r[k]].inum].type # "none"
  /\ \A s \in Slots : Locks(r, s) => ic[s].valid
  /\ r.dp # 0 => d.ino[ic[r.dp].inum].type = "dir"
  /\ r.old # 0 => d.ino[ic[r.old].inum].type = "file"
  /\ r.pc \in {"cr_ialloc", "cr_iget", "cr_fill"} => Ent(d, ic[r.dp].inum, Head(r.path)) = 0
  /\ r.pc = "ul_entry" => /\ Ent(d, ic[r.dp].inum, Head(r.path)) = ic[r.ip].inum
                          /\ Head(r.path) \in Names
  /\ r.pc = "iput_free" => ic[r.x].ref = 1 /\ d.ino[ic[r.x].inum].nlink = 0
  /\ r.pc \in {"cr_iget", "cr_fill"} => d.ino[resv(r, ic)] = Fresh(r.call)
-----------------------------------------------------------------------------
TypeInv ==
  /\ icache \in [Slots -> Entries] /\ proc \in [Procs -> Records]
  /\ panicked \in {"no", "full"}

RefInv == \A s \in Slots : icache[s].ref = Pointers(s)

UniqInv == \A s, t \in Slots :
  icache[s].ref > 0 /\ icache[t].ref > 0 /\ icache[s].inum = icache[t].inum => s = t

LockInv == \A s \in Slots, p \in Procs : icache[s].lock = p <=> Locks(proc[p], s)

\* A valid entry is as on the disk and in use, but when iput() is freeing it.
AgreeInv == \A s \in Slots : icache[s].ref > 0 /\ icache[s].valid =>
  \/ icache[s].di = disk.ino[icache[s].inum] /\ icache[s].di.type # "none"
  \/ \E p \in Procs : proc[p].pc = "iput_valid" /\ proc[p].x = s

\* An inode that is being created is its creator's alone.
ReserveInv ==
  /\ \A p, q \in Procs : resv(proc[p], icache) # 0 /\ resv(proc[p], icache) = resv(proc[q], icache) => p = q
  /\ \A p, q \in Procs, k \in Kinds :
       proc[p][k] # 0 /\ resv(proc[q], icache) = icache[proc[p][k]].inum =>
         Dying(proc[p], k) \/ (p = q /\ k = "ip")

Reserved == {n \in Inums : \E p \in Procs : resv(proc[p], icache) = n}
Owed == [n \in Inums |-> Cardinality({p \in Procs : owed(proc[p], icache) = n})]

\* The inductive invariant.
InodeInv ==
  /\ TypeInv
  /\ \A p \in Procs : Local(proc[p], icache, disk)
  /\ RefInv /\ UniqInv /\ LockInv /\ AgreeInv /\ ReserveInv
  /\ DiskInv(disk, Reserved, Owed)
  /\ DiskInv(durable, {}, NoneOwed)
-----------------------------------------------------------------------------
\* A set of naturals has a least element.
LEMMA LeastNatural ==
  ASSUME NEW S \in SUBSET Nat, S # {}
  PROVE  \E s \in S : \A t \in S : s <= t
<1> DEFINE R == OpToRel(<, Nat)
<1>1. IsWellFoundedOn(R, Nat)
  BY NatLessThanWellFounded, Zenon
<1>2. R = {ss \in Nat \X Nat : ss[1] < ss[2]}
  BY Zenon DEF OpToRel
<1> HIDE DEF R
<1>3. \A s, t \in Nat : t < s => <<t, s>> \in R
  BY <1>2
<1>4. PICK s \in S : \A t \in S : ~(<<t, s>> \in R)
  BY <1>1, WFMin
<1>5. \A t \in S : ~(t < s)
  BY <1>3, <1>4
<1> QED
  BY <1>5
-----------------------------------------------------------------------------
(* Numbers, images and counting. *)

\* The sets of numbers, and the names.
LEMMA Basics ==
  /\ \A n \in Inums : n \in Nat /\ n # 0
  /\ \A s \in Slots : s \in Nat /\ s # 0
  /\ \A b \in Blocks : b \in Nat /\ b # 0
  /\ ROOTINO \in Inums /\ 2 \in Inums /\ ROOTINO # 2 /\ 1 \in Slots /\ 1 \in Blocks
  /\ IsFiniteSet(Inums) /\ IsFiniteSet(Names) /\ IsFiniteSet(Procs)
  /\ \A a : a \in AllNames <=> a \in Names \/ a = "." \/ a = ".."
  /\ "." \notin Names /\ ".." \notin Names /\ "/" \notin AllNames
  /\ "." \in AllNames /\ ".." \in AllNames /\ File \in Names /\ \A a \in Names : a \in AllNames
<1>1. IsFiniteSet(1 .. NINODES)
  BY InodeAssumption, FS_Interval
<1>2. /\ \A n \in Inums : n \in Nat /\ n # 0
      /\ \A s \in Slots : s \in Nat /\ s # 0
      /\ \A b \in Blocks : b \in Nat /\ b # 0
      /\ ROOTINO \in Inums /\ 2 \in Inums /\ ROOTINO # 2 /\ 1 \in Slots /\ 1 \in Blocks
  BY InodeAssumption DEF Inums, Slots, Blocks, ROOTINO
<1>3. /\ \A a : a \in AllNames <=> a \in Names \/ a = "." \/ a = ".."
      /\ "." \notin Names /\ ".." \notin Names /\ "/" \notin AllNames
      /\ "." \in AllNames /\ ".." \in AllNames /\ File \in Names /\ \A a \in Names : a \in AllNames
  BY InodeAssumption DEF AllNames, Dots
<1> QED BY <1>1, <1>2, <1>3, InodeAssumption DEF Inums

\* The least element of a set of numbers.
LEMMA MinFacts == ASSUME NEW S \in SUBSET Nat, S # {} PROVE Min(S) \in S
BY LeastNatural DEF Min

\* An image by its fields.
LEMMA ImageFacts ==
  ASSUME NEW d \in Images
  PROVE  /\ \A n \in Inums : /\ d.ino[n] \in Inodes /\ d.ino[n].type \in {"none", "file", "dir"}
                             /\ d.ino[n].nlink \in Int /\ d.ino[n].addr \in Blocks \union {0}
         /\ d.used \subseteq Blocks
         /\ \A b \in Blocks, a \in AllNames : d.data[b][a] \in Inums \union {0}
         /\ \A n \in Inums, a \in AllNames : Ent(d, n, a) \in Inums \union {0}
         /\ \A n \in Inums, a \in AllNames :
              Ent(d, n, a) = IF d.ino[n].type = "dir" /\ d.ino[n].addr # 0
                             THEN d.data[d.ino[n].addr][a] ELSE 0
<1>1. /\ \A n \in Inums : /\ d.ino[n] \in Inodes /\ d.ino[n].type \in {"none", "file", "dir"}
                          /\ d.ino[n].nlink \in Int /\ d.ino[n].addr \in Blocks \union {0}
      /\ d.used \subseteq Blocks
      /\ \A b \in Blocks, a \in AllNames : d.data[b][a] \in Inums \union {0}
  BY DEF Images, Inodes
<1>2. \A n \in Inums, a \in AllNames :
        Ent(d, n, a) = IF d.ino[n].type = "dir" /\ d.ino[n].addr # 0
                       THEN d.data[d.ino[n].addr][a] ELSE 0
  BY DEF Ent, entries, Zeroed
<1>3. \A n \in Inums, a \in AllNames : Ent(d, n, a) \in Inums \union {0}
  BY <1>1, <1>2
<1> QED BY <1>1, <1>2, <1>3

\* A free inode.
LEMMA FreeFacts == /\ Free.type = "none" /\ Free.nlink = 0 /\ Free.addr = 0 /\ Free \in Inodes
BY DEF Free, Inodes

\* The names and the subdirectories of an inode are finitely many.
LEMMA FiniteNames ==
  ASSUME NEW d, NEW n
  PROVE  /\ IsFiniteSet(NameSet(d, n)) /\ Cardinality(NameSet(d, n)) \in Nat
         /\ IsFiniteSet(Kids(d, n)) /\ Cardinality(Kids(d, n)) \in Nat
<1>1. IsFiniteSet(Inums \X Names)
  BY Basics, FS_Product
<1>2. NameSet(d, n) \in SUBSET (Inums \X Names) /\ Kids(d, n) \in SUBSET Names
  BY DEF NameSet, Kids
<1>3. IsFiniteSet(NameSet(d, n)) /\ IsFiniteSet(Kids(d, n))
  BY <1>1, <1>2, Basics, FS_Subset
<1> QED BY <1>3, FS_CardinalityType

\* The names of an inode are those entries, so the same entries are the same names.
LEMMA SameNames ==
  ASSUME NEW d, NEW e, NEW n, \A m \in Inums, a \in Names : Ent(e, m, a) = n <=> Ent(d, m, a) = n
  PROVE  NameSet(e, n) = NameSet(d, n)
<1>1. \A x : x \in NameSet(e, n) <=> x \in NameSet(d, n)
  BY DEF NameSet
<1> QED BY <1>1

\* The same of the subdirectories.
LEMMA SameKids ==
  ASSUME NEW d, NEW e, NEW n, \A a \in Names : IsDir(e, Ent(e, n, a)) <=> IsDir(d, Ent(d, n, a))
  PROVE  Kids(e, n) = Kids(d, n)
<1>1. \A x : x \in Kids(e, n) <=> x \in Kids(d, n)
  BY DEF Kids
<1> QED BY <1>1

\* A name more.
LEMMA NameAdded ==
  ASSUME NEW d, NEW e, NEW n, NEW D \in Inums, NEW x \in Names, Ent(d, D, x) # n, Ent(e, D, x) = n,
         \A m \in Inums, a \in Names : m # D \/ a # x => (Ent(e, m, a) = n <=> Ent(d, m, a) = n)
  PROVE  Cardinality(NameSet(e, n)) = Cardinality(NameSet(d, n)) + 1
<1>1. NameSet(e, n) = NameSet(d, n) \cup {<<D, x>>}
  <2>1. \A y : y \in NameSet(e, n) <=> y \in NameSet(d, n) \cup {<<D, x>>}
    BY DEF NameSet
  <2> QED BY <2>1
<1>2. <<D, x>> \notin NameSet(d, n)
  BY DEF NameSet
<1>3. IsFiniteSet(NameSet(d, n))
  BY FiniteNames
<1>4. Cardinality(NameSet(d, n) \cup {<<D, x>>}) = Cardinality(NameSet(d, n)) + 1
  BY <1>2, <1>3, FS_AddElement
<1> QED BY <1>1, <1>4

\* A name less.
LEMMA NameRemoved ==
  ASSUME NEW d, NEW e, NEW n, NEW D \in Inums, NEW x \in Names, Ent(d, D, x) = n, Ent(e, D, x) # n,
         \A m \in Inums, a \in Names : m # D \/ a # x => (Ent(e, m, a) = n <=> Ent(d, m, a) = n)
  PROVE  Cardinality(NameSet(e, n)) = Cardinality(NameSet(d, n)) - 1
<1>1. Cardinality(NameSet(d, n)) = Cardinality(NameSet(e, n)) + 1
  BY NameAdded
<1> QED BY <1>1, FiniteNames

\* A subdirectory more.
LEMMA KidAdded ==
  ASSUME NEW d, NEW e, NEW n, NEW x \in Names, ~IsDir(d, Ent(d, n, x)), IsDir(e, Ent(e, n, x)),
         \A a \in Names : a # x => (IsDir(e, Ent(e, n, a)) <=> IsDir(d, Ent(d, n, a)))
  PROVE  Cardinality(Kids(e, n)) = Cardinality(Kids(d, n)) + 1
<1>1. Kids(e, n) = Kids(d, n) \cup {x}
  <2>1. \A y : y \in Kids(e, n) <=> y \in Kids(d, n) \cup {x}
    BY DEF Kids
  <2> QED BY <2>1
<1>2. x \notin Kids(d, n)
  BY DEF Kids
<1> QED BY <1>1, <1>2, FiniteNames, FS_AddElement

\* A subdirectory less.
LEMMA KidRemoved ==
  ASSUME NEW d, NEW e, NEW n, NEW x \in Names, IsDir(d, Ent(d, n, x)), ~IsDir(e, Ent(e, n, x)),
         \A a \in Names : a # x => (IsDir(e, Ent(e, n, a)) <=> IsDir(d, Ent(d, n, a)))
  PROVE  Cardinality(Kids(e, n)) = Cardinality(Kids(d, n)) - 1
<1>1. Cardinality(Kids(d, n)) = Cardinality(Kids(e, n)) + 1
  BY KidAdded
<1> QED BY <1>1, FiniteNames

\* An inode without links has no name, and nobody owes it one.
LEMMA Unnamed ==
  ASSUME NEW d \in Images, NEW W \in [Inums -> Nat], LinksOk(d, W), NEW n \in Inums, d.ino[n].nlink = 0
  PROVE  /\ \A m \in Inums, a \in Names : Ent(d, m, a) # n
         /\ \A a \in Names : ~IsDir(d, Ent(d, n, a))
         /\ W[n] = 0 /\ n # ROOTINO
<1>1. /\ Cardinality(NameSet(d, n)) \in Nat /\ Cardinality(Kids(d, n)) \in Nat /\ W[n] \in Nat
  BY FiniteNames
<1>2. 0 >= Links(d, W, n)
  BY DEF LinksOk, LinksAt
<1>3. /\ Cardinality(NameSet(d, n)) = 0 /\ Cardinality(Kids(d, n)) = 0 /\ W[n] = 0 /\ n # ROOTINO
  BY <1>1, <1>2 DEF Links
<1>4. NameSet(d, n) = {} /\ Kids(d, n) = {}
  BY <1>3, FiniteNames, FS_EmptySet
<1>5. ASSUME NEW m \in Inums, NEW a \in Names PROVE Ent(d, m, a) # n
  <2>1. <<m, a>> \notin NameSet(d, n)
    BY <1>4
  <2> QED BY <2>1 DEF NameSet
<1>6. \A a \in Names : ~IsDir(d, Ent(d, n, a))
  BY <1>4 DEF Kids
<1> QED BY <1>3, <1>5, <1>6

\* An inode with a name has a link, and is neither free nor being created.
LEMMA Named ==
  ASSUME NEW R, NEW W \in [Inums -> Nat], NEW d, DiskInv(d, R, W),
         NEW m \in Inums, NEW a \in Names, Ent(d, m, a) # 0
  PROVE  /\ Ent(d, m, a) \in Inums /\ d.ino[Ent(d, m, a)].nlink > 0
         /\ d.ino[Ent(d, m, a)].type # "none" /\ Ent(d, m, a) \notin R
<1>0. d \in Images /\ LinksOk(d, W) /\ FreeOk(d, R)
  BY DEF DiskInv
<1> DEFINE n == Ent(d, m, a)
<1>1. n \in Inums
  BY <1>0, ImageFacts, Basics
<1>2. d.ino[n].nlink # 0
  BY <1>0, <1>1, Unnamed
<1>3. d.ino[n].nlink >= 0
  <2>1. /\ Cardinality(NameSet(d, n)) \in Nat /\ Cardinality(Kids(d, n)) \in Nat /\ W[n] \in Nat
    BY <1>1, FiniteNames
  <2>2. d.ino[n].nlink >= Links(d, W, n) /\ d.ino[n].nlink \in Int
    BY <1>0, <1>1, ImageFacts DEF LinksOk, LinksAt
  <2> HIDE DEF n
  <2> QED BY <2>1, <2>2 DEF Links
<1>4. d.ino[n].nlink \in Int
  BY <1>0, <1>1, ImageFacts
<1> QED BY <1>0, <1>1, <1>2, <1>3, <1>4, FreeFacts DEF FreeOk
-----------------------------------------------------------------------------
(* What a call does to an image d keeps it sound.  e is the image after.  *)

\* The links of an inode whose names, subdirectories and owed links changed with nlink.
LEMMA LinksStep ==
  ASSUME NEW d \in Images, NEW e \in Images, NEW W \in [Inums -> Nat], NEW V \in [Inums -> Nat],
         LinksOk(d, W), NEW n \in Inums, NEW i \in Int, NEW j \in Int, NEW k \in Int,
         Cardinality(NameSet(e, n)) = Cardinality(NameSet(d, n)) + i,
         Cardinality(Kids(e, n)) = Cardinality(Kids(d, n)) + j,
         V[n] = W[n] + k,
         e.ino[n].nlink = d.ino[n].nlink + i + j + k,
         d.ino[n].type = "file" => e.ino[n].type = "file"
  PROVE  LinksAt(e, V, n)
<1>1. /\ Cardinality(NameSet(d, n)) \in Nat /\ Cardinality(Kids(d, n)) \in Nat
      /\ Cardinality(NameSet(e, n)) \in Nat /\ Cardinality(Kids(e, n)) \in Nat
      /\ W[n] \in Nat /\ V[n] \in Nat
      /\ d.ino[n].nlink \in Int /\ e.ino[n].nlink \in Int
  BY FiniteNames, ImageFacts
<1>2. LinksAt(d, W, n)
  BY DEF LinksOk
<1>3. Links(e, V, n) = Links(d, W, n) + i + j + k /\ Links(d, W, n) \in Int
  BY <1>1 DEF Links
<1> QED BY <1>1, <1>2, <1>3 DEF LinksAt

\* The case where nothing changed.
LEMMA LinksKept ==
  ASSUME NEW d \in Images, NEW e \in Images, NEW W \in [Inums -> Nat], NEW V \in [Inums -> Nat],
         LinksOk(d, W), NEW n \in Inums,
         NameSet(e, n) = NameSet(d, n), Kids(e, n) = Kids(d, n), V[n] = W[n],
         e.ino[n].nlink = d.ino[n].nlink,
         d.ino[n].type = "file" => e.ino[n].type = "file"
  PROVE  LinksAt(e, V, n)
<1>1. /\ Cardinality(NameSet(d, n)) \in Nat /\ Cardinality(Kids(d, n)) \in Nat
      /\ W[n] \in Nat /\ d.ino[n].nlink \in Int
  BY FiniteNames, ImageFacts
<1>2. LinksAt(d, W, n)
  BY DEF LinksOk
<1> QED BY <1>1, <1>2 DEF LinksAt, Links

\* The directories and their entries are the same.
LEMMA SameTree ==
  ASSUME NEW d \in Images, NEW e \in Images, NamesOk(d), \A m : IsDir(e, m) <=> IsDir(d, m),
         \A m \in Inums, a \in AllNames : Ent(e, m, a) = Ent(d, m, a)
  PROVE  NamesOk(e)
<1> SUFFICES ASSUME NEW m \in Inums, NEW a \in Names, IsDir(e, Ent(e, m, a))
             PROVE  /\ Ent(e, m, a) # m /\ Ent(e, m, a) # ROOTINO /\ Makes(a)
                    /\ Ent(e, Ent(e, m, a), "..") = m
                    /\ \A l \in Inums, b \in Names : Ent(e, l, b) = Ent(e, m, a) => l = m /\ b = a
  BY DEF NamesOk
<1>1. ".." \in AllNames /\ \A b \in Names : b \in AllNames
  BY Basics
<1>2. Ent(e, m, a) = Ent(d, m, a) /\ IsDir(d, Ent(d, m, a)) /\ Ent(d, m, a) \in Inums
  BY <1>1 DEF IsDir
<1>3. /\ Ent(d, m, a) # m /\ Ent(d, m, a) # ROOTINO /\ Makes(a)
      /\ Ent(d, Ent(d, m, a), "..") = m
      /\ \A l \in Inums, b \in Names : Ent(d, l, b) = Ent(d, m, a) => l = m /\ b = a
  BY <1>2 DEF NamesOk
<1>4. Ent(e, Ent(d, m, a), "..") = Ent(d, Ent(d, m, a), "..")
  BY <1>1, <1>2
<1>5. \A l \in Inums, b \in Names : Ent(e, l, b) = Ent(d, l, b)
  BY <1>1
<1> QED BY <1>2, <1>3, <1>4, <1>5

\* iupdate() of a link count, with the owed links.
LEMMA NlinkChanged ==
  ASSUME NEW R \in SUBSET Inums, NEW W \in [Inums -> Nat], NEW V \in [Inums -> Nat], NEW d, DiskInv(d, R, W),
         NEW e \in Images, NEW n \in Inums, n \notin R, d.ino[n].type # "none", NEW k \in Int,
         \A m \in Inums : m # n => e.ino[m] = d.ino[m] /\ V[m] = W[m],
         e.ino[n].type = d.ino[n].type, e.ino[n].addr = d.ino[n].addr,
         e.ino[n].nlink = d.ino[n].nlink + k, V[n] = W[n] + k,
         e.used = d.used, \A m \in Inums, a \in AllNames : Ent(e, m, a) = Ent(d, m, a)
  PROVE  DiskInv(e, R, V)
<1>0. d \in Images /\ FreeOk(d, R) /\ BlocksOk(d) /\ DotsOk(d, R) /\ NamesOk(d) /\ LinksOk(d, W) /\ TreeOk(d, R)
  BY DEF DiskInv
<1>1. \A m : IsDir(e, m) <=> IsDir(d, m)
  BY DEF IsDir
<1>2. \A m \in Inums : NameSet(e, m) = NameSet(d, m) /\ Kids(e, m) = Kids(d, m)
  BY <1>1, SameNames, SameKids, Basics
<1>3. FreeOk(e, R)
  BY <1>0 DEF FreeOk
<1>4. BlocksOk(e)
  <2>1. \A m \in Inums : e.ino[m].addr = d.ino[m].addr
    OBVIOUS
  <2> QED BY <1>0, <2>1 DEF BlocksOk
<1>5. DotsOk(e, R)
  BY <1>0, <1>1, Basics DEF DotsOk
<1>6. NamesOk(e)
  BY <1>0, <1>1, SameTree
<1>7. ASSUME NEW m \in Inums PROVE LinksAt(e, V, m)
  <2>1. CASE m = n
    <3>1. /\ Cardinality(NameSet(e, n)) = Cardinality(NameSet(d, n)) + 0
          /\ Cardinality(Kids(e, n)) = Cardinality(Kids(d, n)) + 0
      BY <1>2, FiniteNames
    <3>2. e.ino[n].nlink = d.ino[n].nlink + 0 + 0 + k
      BY <1>0, ImageFacts
    <3> QED BY <1>0, <2>1, <3>1, <3>2, LinksStep
  <2>2. CASE m # n
    BY <1>0, <1>2, <2>2, LinksKept
  <2> QED BY <2>1, <2>2
<1>8. TreeOk(e, R)
  BY <1>0, <1>1, <1>2, Basics DEF TreeOk
<1> QED BY <1>3, <1>4, <1>5, <1>6, <1>7, <1>8 DEF DiskInv, LinksOk

\* writei() of a file's first block.
LEMMA BlockGiven ==
  ASSUME NEW R \in SUBSET Inums, NEW W \in [Inums -> Nat], NEW d, DiskInv(d, R, W),
         NEW e \in Images, NEW n \in Inums, n \notin R, d.ino[n].type = "file", d.ino[n].addr = 0,
         NEW b \in Blocks, b \notin d.used,
         \A m \in Inums : m # n => e.ino[m] = d.ino[m],
         e.ino[n].type = "file", e.ino[n].addr = b, e.ino[n].nlink = d.ino[n].nlink,
         e.used = d.used \union {b}, \A m \in Inums, a \in AllNames : Ent(e, m, a) = Ent(d, m, a)
  PROVE  DiskInv(e, R, W)
<1>0. d \in Images /\ FreeOk(d, R) /\ BlocksOk(d) /\ DotsOk(d, R) /\ NamesOk(d) /\ LinksOk(d, W) /\ TreeOk(d, R)
  BY DEF DiskInv
<1>1. \A m : IsDir(e, m) <=> IsDir(d, m)
  BY DEF IsDir
<1>2. \A m \in Inums : NameSet(e, m) = NameSet(d, m) /\ Kids(e, m) = Kids(d, m)
  BY <1>1, SameNames, SameKids, Basics
<1>3. FreeOk(e, R)
  BY <1>0 DEF FreeOk
<1>4. BlocksOk(e)
  <2>1. \A m \in Inums : m # n => d.ino[m].addr = 0 \/ d.ino[m].addr \in d.used
    BY <1>0 DEF BlocksOk
  <2>2. b # 0
    BY Basics
  <2>3. /\ \A m \in Inums : e.ino[m].addr # 0 => e.ino[m].addr \in e.used
        /\ \A l, m \in Inums : e.ino[l].addr # 0 /\ e.ino[l].addr = e.ino[m].addr => l = m
    BY <1>0, <2>1, <2>2 DEF BlocksOk
  <2>4. ASSUME NEW c \in e.used PROVE \E m \in Inums : e.ino[m].addr = c
    <3>1. CASE c = b
      BY <3>1
    <3>2. CASE c # b
      <4>1. c \in d.used
        BY <3>2
      <4>2. PICK m \in Inums : d.ino[m].addr = c
        BY <1>0, <4>1 DEF BlocksOk
      <4>3. c # 0
        BY <1>0, <4>1, ImageFacts, Basics
      <4> QED BY <4>2, <4>3
    <3> QED BY <3>1, <3>2
  <2> QED BY <2>3, <2>4 DEF BlocksOk
<1>5. DotsOk(e, R)
  BY <1>0, <1>1, Basics DEF DotsOk
<1>6. NamesOk(e)
  BY <1>0, <1>1, SameTree
<1>7. ASSUME NEW m \in Inums PROVE LinksAt(e, W, m)
  BY <1>0, <1>2, LinksKept
<1>8. TreeOk(e, R)
  BY <1>0, <1>1, <1>2, Basics DEF TreeOk
<1> QED BY <1>3, <1>4, <1>5, <1>6, <1>7, <1>8 DEF DiskInv, LinksOk

\* iput() frees an inode without links.
LEMMA InodeFreed ==
  ASSUME NEW R \in SUBSET Inums, NEW W \in [Inums -> Nat], NEW d, DiskInv(d, R, W),
         NEW e \in Images, NEW n \in Inums, n \notin R, d.ino[n].nlink = 0,
         \A m \in Inums : m # n => e.ino[m] = d.ino[m],
         e.ino[n] = Free, e.used = d.used \ {d.ino[n].addr},
         \A m \in Inums, a \in AllNames : Ent(e, m, a) = IF m = n THEN 0 ELSE Ent(d, m, a)
  PROVE  DiskInv(e, R, W)
<1>0. d \in Images /\ FreeOk(d, R) /\ BlocksOk(d) /\ DotsOk(d, R) /\ NamesOk(d) /\ LinksOk(d, W) /\ TreeOk(d, R)
  BY DEF DiskInv
<1>1. /\ \A m \in Inums, a \in Names : Ent(d, m, a) # n
      /\ \A a \in Names : ~IsDir(d, Ent(d, n, a))
      /\ W[n] = 0 /\ n # ROOTINO
  BY <1>0, Unnamed
<1>2. \A m : IsDir(e, m) <=> IsDir(d, m) /\ m # n
  BY FreeFacts DEF IsDir
<1>a. NoRmdir => d.ino[n].type # "dir"
  <2>1. NameSet(d, n) = {}
    BY <1>1 DEF NameSet
  <2> QED BY <1>0, <1>1, <2>1 DEF TreeOk
<1>b. NoRmdir => \A m \in Inums, a \in AllNames : Ent(e, m, a) = Ent(d, m, a)
  BY <1>a DEF Ent
<1>3. FreeOk(e, R)
  BY <1>0 DEF FreeOk
<1>4. BlocksOk(e)
  <2>0. 0 \notin d.used
    BY <1>0, ImageFacts, Basics
  <2>1. /\ \A m \in Inums : e.ino[m].addr # 0 => e.ino[m].addr \in e.used
        /\ \A l, m \in Inums : e.ino[l].addr # 0 /\ e.ino[l].addr = e.ino[m].addr => l = m
    BY <1>0, FreeFacts DEF BlocksOk
  <2>2. ASSUME NEW c \in e.used PROVE \E m \in Inums : e.ino[m].addr = c
    <3>1. PICK m \in Inums : d.ino[m].addr = c
      BY <1>0 DEF BlocksOk
    <3> QED BY <3>1
  <2> QED BY <2>1, <2>2 DEF BlocksOk
<1>5. DotsOk(e, R)
  BY <1>0, <1>1, <1>2, Basics DEF DotsOk, IsDir
<1>6. NamesOk(e)
  <2> SUFFICES ASSUME NEW m \in Inums, NEW a \in Names, IsDir(e, Ent(e, m, a))
               PROVE  /\ Ent(e, m, a) # m /\ Ent(e, m, a) # ROOTINO /\ Makes(a)
                      /\ Ent(e, Ent(e, m, a), "..") = m
                      /\ \A l \in Inums, b \in Names : Ent(e, l, b) = Ent(e, m, a) => l = m /\ b = a
    BY DEF NamesOk
  <2>0. a \in AllNames /\ ".." \in AllNames /\ \A b \in Names : b \in AllNames
    BY Basics
  <2>1. m # n /\ Ent(e, m, a) = Ent(d, m, a) /\ IsDir(d, Ent(d, m, a)) /\ Ent(d, m, a) # n
    BY <1>2, <2>0, Basics DEF IsDir
  <2>2. Ent(d, m, a) \in Inums /\ Ent(d, m, a) # 0
    BY <2>1, Basics DEF IsDir
  <2>3. /\ Ent(d, m, a) # m /\ Ent(d, m, a) # ROOTINO /\ Makes(a)
        /\ Ent(d, Ent(d, m, a), "..") = m
        /\ \A l \in Inums, b \in Names : Ent(d, l, b) = Ent(d, m, a) => l = m /\ b = a
    BY <1>0, <2>1 DEF NamesOk
  <2>4. Ent(e, Ent(d, m, a), "..") = Ent(d, Ent(d, m, a), "..")
    BY <2>0, <2>1, <2>2
  <2>5. ASSUME NEW l \in Inums, NEW b \in Names, Ent(e, l, b) = Ent(d, m, a) PROVE l = m /\ b = a
    <3>1. Ent(e, l, b) = Ent(d, l, b)
      BY <2>0, <2>2, <2>5
    <3> QED BY <2>3, <2>5, <3>1
  <2> QED BY <2>1, <2>3, <2>4, <2>5
<1>7. ASSUME NEW m \in Inums PROVE LinksAt(e, W, m)
  <2>1. Kids(e, m) = Kids(d, m)
    <3>1. \A a \in Names : IsDir(e, Ent(e, m, a)) <=> IsDir(d, Ent(d, m, a))
      BY <1>1, <1>2, Basics DEF IsDir
    <3> QED BY <3>1, SameKids
  <2>2. CASE m = n
    <3>1. NameSet(e, n) = {} /\ Kids(e, n) = {} /\ Cardinality({}) = 0
      <4>1. NameSet(e, n) = {}
        BY <1>1, Basics DEF NameSet
      <4>2. Kids(e, n) = {}
        BY <1>1, <2>1, <2>2 DEF Kids
      <4> QED BY <4>1, <4>2, FS_EmptySet
    <3>2. Links(e, W, n) = 0
      BY <1>1, <3>1 DEF Links
    <3> QED BY <2>2, <3>2, FreeFacts DEF LinksAt
  <2>3. CASE m # n /\ (d.ino[m].type # "file" \/ NoRmdir)
    <3>1. \A l \in Inums, a \in Names : Ent(e, l, a) = m <=> Ent(d, l, a) = m
      <4>1. CASE NoRmdir
        BY <1>b, <4>1, Basics
      <4>2. CASE d.ino[m].type = "dir"
        BY <1>1, <4>2, Basics DEF IsDir
      <4>3. CASE d.ino[m].type = "none"
        <5>1. d.ino[m].nlink = 0
          BY <1>0, <4>3, FreeFacts DEF FreeOk
        <5>2. \A l \in Inums, a \in Names : Ent(d, l, a) # m
          BY <1>0, <5>1, Unnamed
        <5> QED BY <5>2, Basics
      <4> QED BY <1>0, <2>3, <4>1, <4>2, <4>3, ImageFacts
    <3>2. NameSet(e, m) = NameSet(d, m)
      BY <3>1, SameNames
    <3> QED BY <1>0, <2>1, <2>3, <3>2, LinksKept
  <2>4. CASE m # n /\ d.ino[m].type = "file" /\ ~NoRmdir
    <3>1. NameSet(e, m) \in SUBSET NameSet(d, m)
      BY Basics DEF NameSet
    <3>2. Cardinality(NameSet(e, m)) =< Cardinality(NameSet(d, m))
      BY <3>1, FiniteNames, FS_Subset
    <3>3. /\ Cardinality(NameSet(d, m)) \in Nat /\ Cardinality(Kids(d, m)) \in Nat
          /\ Cardinality(NameSet(e, m)) \in Nat
          /\ W[m] \in Nat /\ d.ino[m].nlink \in Int
      BY <1>0, FiniteNames, ImageFacts
    <3>4. LinksAt(d, W, m) /\ e.ino[m] = d.ino[m]
      BY <1>0, <2>4 DEF LinksOk
    <3> QED BY <2>1, <2>4, <3>2, <3>3, <3>4 DEF LinksAt, Links
  <2> QED BY <2>2, <2>3, <2>4
<1>8. TreeOk(e, R)
  <2>1. SUFFICES ASSUME NoRmdir, NEW m \in Inums, e.ino[m].type = "dir", m \notin R
                 PROVE  /\ m # ROOTINO => NameSet(e, m) # {}
                        /\ IsDir(e, Ent(e, m, "..")) /\ Ent(e, m, "..") \notin R
    BY DEF TreeOk
  <2>2. NameSet(e, m) = NameSet(d, m)
    BY <1>b, <2>1, SameNames, Basics
  <2>3. d.ino[m].type = "dir"
    BY <2>1, FreeFacts
  <2>4. /\ m # ROOTINO => NameSet(d, m) # {}
        /\ IsDir(d, Ent(d, m, "..")) /\ Ent(d, m, "..") \notin R
    BY <1>0, <2>1, <2>3 DEF TreeOk
  <2>5. Ent(e, m, "..") = Ent(d, m, "..")
    BY <1>b, <2>1, Basics
  <2>6. Ent(d, m, "..") # n
    BY <1>a, <2>1, <2>4 DEF IsDir
  <2> QED BY <1>2, <2>2, <2>4, <2>5, <2>6
<1> QED BY <1>3, <1>4, <1>5, <1>6, <1>7, <1>8 DEF DiskInv, LinksOk

\* ialloc() takes a free inode, which is reserved until cr_fill.
LEMMA InodeTaken ==
  ASSUME NEW R \in SUBSET Inums, NEW W \in [Inums -> Nat], NEW d, DiskInv(d, R, W),
         NEW e \in Images, NEW n \in Inums, d.ino[n].type = "none",
         \A m \in Inums : m # n => e.ino[m] = d.ino[m],
         e.ino[n].type # "none", e.ino[n].nlink = 0, e.ino[n].addr = 0,
         e.used = d.used,
         \A m \in Inums, a \in AllNames : Ent(e, m, a) = Ent(d, m, a)
  PROVE  DiskInv(e, R \union {n}, W)
<1>0. d \in Images /\ FreeOk(d, R) /\ BlocksOk(d) /\ DotsOk(d, R) /\ NamesOk(d) /\ LinksOk(d, W) /\ TreeOk(d, R)
  BY DEF DiskInv
<1>a. d.ino[n].nlink = 0 /\ d.ino[n].addr = 0
  BY <1>0, FreeFacts DEF FreeOk
<1>1. /\ \A m \in Inums, a \in Names : Ent(d, m, a) # n
      /\ \A a \in Names : ~IsDir(d, Ent(d, n, a))
      /\ W[n] = 0 /\ n # ROOTINO
  BY <1>0, <1>a, Unnamed
<1>2. \A m : m # n => (IsDir(e, m) <=> IsDir(d, m))
  BY DEF IsDir
<1>b. ~IsDir(d, n)
  BY DEF IsDir
<1>c. \A m \in Inums, a \in Names : IsDir(e, Ent(e, m, a)) <=> IsDir(d, Ent(d, m, a))
  BY <1>1, <1>2, Basics
<1>d. \A m \in Inums : NameSet(e, m) = NameSet(d, m) /\ Kids(e, m) = Kids(d, m)
  BY <1>c, SameNames, SameKids, Basics
<1>3. FreeOk(e, R \union {n})
  BY <1>0 DEF FreeOk
<1>4. BlocksOk(e)
  <2>1. \A m \in Inums : e.ino[m].addr = d.ino[m].addr
    BY <1>a
  <2> QED BY <1>0, <2>1 DEF BlocksOk
<1>5. DotsOk(e, R \union {n})
  BY <1>0, <1>1, <1>2, Basics DEF DotsOk
<1>6. NamesOk(e)
  <2> SUFFICES ASSUME NEW m \in Inums, NEW a \in Names, IsDir(e, Ent(e, m, a))
               PROVE  /\ Ent(e, m, a) # m /\ Ent(e, m, a) # ROOTINO /\ Makes(a)
                      /\ Ent(e, Ent(e, m, a), "..") = m
                      /\ \A l \in Inums, b \in Names : Ent(e, l, b) = Ent(e, m, a) => l = m /\ b = a
    BY DEF NamesOk
  <2>0. a \in AllNames /\ ".." \in AllNames /\ \A b \in Names : b \in AllNames
    BY Basics
  <2>1. Ent(e, m, a) = Ent(d, m, a) /\ IsDir(d, Ent(d, m, a)) /\ Ent(d, m, a) \in Inums
    BY <1>c, <2>0 DEF IsDir
  <2>3. /\ Ent(d, m, a) # m /\ Ent(d, m, a) # ROOTINO /\ Makes(a)
        /\ Ent(d, Ent(d, m, a), "..") = m
        /\ \A l \in Inums, b \in Names : Ent(d, l, b) = Ent(d, m, a) => l = m /\ b = a
    BY <1>0, <2>1 DEF NamesOk
  <2>4. Ent(e, Ent(d, m, a), "..") = Ent(d, Ent(d, m, a), "..")
    BY <2>0, <2>1
  <2>5. \A l \in Inums, b \in Names : Ent(e, l, b) = Ent(d, l, b)
    BY <2>0
  <2> QED BY <2>1, <2>3, <2>4, <2>5
<1>7. ASSUME NEW m \in Inums PROVE LinksAt(e, W, m)
  <2>1. e.ino[m].nlink = d.ino[m].nlink /\ (d.ino[m].type = "file" => e.ino[m].type = "file")
    BY <1>a
  <2> QED BY <1>0, <1>d, <2>1, LinksKept
<1>8. TreeOk(e, R \union {n})
  <2>1. SUFFICES ASSUME NoRmdir, NEW m \in Inums, e.ino[m].type = "dir", m \notin R \union {n}
                 PROVE  /\ m # ROOTINO => NameSet(e, m) # {}
                        /\ IsDir(e, Ent(e, m, "..")) /\ Ent(e, m, "..") \notin R \union {n}
    BY DEF TreeOk
  <2>3. d.ino[m].type = "dir" /\ m \notin R
    BY <2>1
  <2>4. /\ m # ROOTINO => NameSet(d, m) # {}
        /\ IsDir(d, Ent(d, m, "..")) /\ Ent(d, m, "..") \notin R
    BY <1>0, <2>1, <2>3 DEF TreeOk
  <2>5. Ent(e, m, "..") = Ent(d, m, "..")
    BY Basics
  <2> QED BY <1>2, <1>b, <1>d, <2>4, <2>5
<1> QED BY <1>3, <1>4, <1>5, <1>6, <1>7, <1>8 DEF DiskInv, LinksOk

\* create() of a file: it gets its link and its name.
LEMMA FileCreated ==
  ASSUME NEW R \in SUBSET Inums, NEW W \in [Inums -> Nat], NEW d, DiskInv(d, R, W),
         NEW e \in Images, NEW n \in R, d.ino[n].type = "file",
         NEW D \in Inums, NEW x \in AllNames, d.ino[D].type = "dir", D \notin R, Ent(d, D, x) = 0,
         \A m \in Inums : m # n => e.ino[m] = d.ino[m],
         e.ino[n].type = "file", e.ino[n].nlink = 1, e.ino[n].addr = 0,
         e.used = d.used,
         \A m \in Inums, a \in AllNames : Ent(e, m, a) = IF m = D /\ a = x THEN n ELSE Ent(d, m, a)
  PROVE  DiskInv(e, R \ {n}, W)
<1>0. d \in Images /\ FreeOk(d, R) /\ BlocksOk(d) /\ DotsOk(d, R) /\ NamesOk(d) /\ LinksOk(d, W) /\ TreeOk(d, R)
  BY DEF DiskInv
<1>a. n \in Inums /\ d.ino[n].nlink = 0 /\ d.ino[n].addr = 0
  BY <1>0 DEF FreeOk
<1>b. x \in Names
  BY <1>0, Basics DEF DotsOk
<1>1. /\ \A m \in Inums, a \in Names : Ent(d, m, a) # n
      /\ \A a \in Names : ~IsDir(d, Ent(d, n, a))
      /\ W[n] = 0 /\ n # ROOTINO
  BY <1>0, <1>a, Unnamed
<1>2. \A m : IsDir(e, m) <=> IsDir(d, m)
  BY <1>a DEF IsDir
<1>c. \A m \in Inums, a \in Names : IsDir(e, Ent(e, m, a)) <=> IsDir(d, Ent(d, m, a))
  BY <1>2, Basics DEF IsDir
<1>d. \A m \in Inums : Kids(e, m) = Kids(d, m)
  BY <1>c, SameKids
<1>e. \A m \in Inums : m # n => NameSet(e, m) = NameSet(d, m)
  BY SameNames, Basics
<1>3. FreeOk(e, R \ {n})
  BY <1>0, <1>a DEF FreeOk
<1>4. BlocksOk(e)
  <2>1. \A m \in Inums : e.ino[m].addr = d.ino[m].addr
    BY <1>a
  <2> QED BY <1>0, <2>1 DEF BlocksOk
<1>5. DotsOk(e, R \ {n})
  BY <1>0, <1>2, <1>b, Basics DEF DotsOk
<1>6. NamesOk(e)
  <2> SUFFICES ASSUME NEW m \in Inums, NEW a \in Names, IsDir(e, Ent(e, m, a))
               PROVE  /\ Ent(e, m, a) # m /\ Ent(e, m, a) # ROOTINO /\ Makes(a)
                      /\ Ent(e, Ent(e, m, a), "..") = m
                      /\ \A l \in Inums, b \in Names : Ent(e, l, b) = Ent(e, m, a) => l = m /\ b = a
    BY DEF NamesOk
  <2>0. a \in AllNames /\ ".." \in AllNames /\ ".." # x /\ \A b \in Names : b \in AllNames
    BY <1>b, Basics
  <2>1. Ent(e, m, a) = Ent(d, m, a) /\ IsDir(d, Ent(d, m, a)) /\ Ent(d, m, a) \in Inums /\ Ent(d, m, a) # n
    BY <1>c, <2>0, <1>a DEF IsDir
  <2>3. /\ Ent(d, m, a) # m /\ Ent(d, m, a) # ROOTINO /\ Makes(a)
        /\ Ent(d, Ent(d, m, a), "..") = m
        /\ \A l \in Inums, b \in Names : Ent(d, l, b) = Ent(d, m, a) => l = m /\ b = a
    BY <1>0, <2>1 DEF NamesOk
  <2>4. Ent(e, Ent(d, m, a), "..") = Ent(d, Ent(d, m, a), "..")
    BY <2>0, <2>1
  <2>5. \A l \in Inums, b \in Names : Ent(e, l, b) = Ent(d, l, b) \/ Ent(e, l, b) = n
    BY <2>0
  <2> QED BY <2>1, <2>3, <2>4, <2>5
<1>7. ASSUME NEW m \in Inums PROVE LinksAt(e, W, m)
  <2>1. CASE m = n
    <3>1. Cardinality(NameSet(e, n)) = Cardinality(NameSet(d, n)) + 1
      <4>1. /\ Ent(d, D, x) # n /\ Ent(e, D, x) = n
            /\ \A l \in Inums, a \in Names : l # D \/ a # x => (Ent(e, l, a) = n <=> Ent(d, l, a) = n)
        BY <1>1, <1>b, Basics
      <4> QED BY <1>b, <4>1, NameAdded
    <3>2. Cardinality(Kids(e, n)) = Cardinality(Kids(d, n)) + 0 /\ W[n] = W[n] + 0
      BY <1>a, <1>d, FiniteNames
    <3>3. e.ino[n].nlink = d.ino[n].nlink + 1 + 0 + 0
      BY <1>a
    <3> QED BY <1>0, <2>1, <3>1, <3>2, <3>3, LinksStep
  <2>2. CASE m # n
    BY <1>0, <1>d, <1>e, <2>2, LinksKept
  <2> QED BY <2>1, <2>2
<1>8. TreeOk(e, R \ {n})
  <2>1. SUFFICES ASSUME NoRmdir, NEW m \in Inums, e.ino[m].type = "dir", m \notin R \ {n}
                 PROVE  /\ m # ROOTINO => NameSet(e, m) # {}
                        /\ IsDir(e, Ent(e, m, "..")) /\ Ent(e, m, "..") \notin R \ {n}
    BY DEF TreeOk
  <2>3. d.ino[m].type = "dir" /\ m \notin R /\ m # n
    BY <2>1
  <2>4. /\ m # ROOTINO => NameSet(d, m) # {}
        /\ IsDir(d, Ent(d, m, "..")) /\ Ent(d, m, "..") \notin R
    BY <1>0, <2>1, <2>3 DEF TreeOk
  <2>5. Ent(e, m, "..") = Ent(d, m, "..")
    BY <1>b, Basics
  <2> QED BY <1>2, <1>e, <2>3, <2>4, <2>5
<1> QED BY <1>3, <1>4, <1>5, <1>6, <1>7, <1>8 DEF DiskInv, LinksOk

\* mkdir(): the new directory gets its block with the dots, its link and its name,
\* and its parent a link.
LEMMA DirCreated ==
  ASSUME NEW R \in SUBSET Inums, NEW W \in [Inums -> Nat], NEW d, DiskInv(d, R, W),
         NEW e \in Images, NEW n \in R, d.ino[n].type = "dir",
         NEW D \in Inums, NEW x \in AllNames, d.ino[D].type = "dir", D \notin R, Ent(d, D, x) = 0, Makes(x),
         NEW b \in Blocks, b \notin d.used,
         \A m \in Inums : m # n /\ m # D => e.ino[m] = d.ino[m],
         e.ino[n].type = "dir", e.ino[n].nlink = 1, e.ino[n].addr = b,
         e.ino[D].type = "dir", e.ino[D].nlink = d.ino[D].nlink + 1, e.ino[D].addr = d.ino[D].addr,
         e.used = d.used \union {b},
         Ent(e, n, ".") = n, Ent(e, n, "..") = D, \A a \in Names : Ent(e, n, a) = 0,
         \A m \in Inums, a \in AllNames : m # n => Ent(e, m, a) = IF m = D /\ a = x THEN n ELSE Ent(d, m, a)
  PROVE  DiskInv(e, R \ {n}, W)
<1>0. d \in Images /\ FreeOk(d, R) /\ BlocksOk(d) /\ DotsOk(d, R) /\ NamesOk(d) /\ LinksOk(d, W) /\ TreeOk(d, R)
  BY DEF DiskInv
<1>a. n \in Inums /\ n # D /\ d.ino[n].nlink = 0 /\ d.ino[n].addr = 0 /\ n # 0 /\ D # 0 /\ b # 0
  BY <1>0, Basics DEF FreeOk
<1>b. x \in Names
  BY <1>0, Basics DEF DotsOk
<1>1. /\ \A m \in Inums, a \in Names : Ent(d, m, a) # n
      /\ \A a \in Names : ~IsDir(d, Ent(d, n, a))
      /\ W[n] = 0 /\ n # ROOTINO
  BY <1>0, <1>a, Unnamed
<1>2. \A m : IsDir(e, m) <=> IsDir(d, m)
  BY <1>a DEF IsDir
<1>f. \A a \in AllNames : Ent(d, n, a) = 0
  BY <1>0, <1>a, ImageFacts
<1>g. ~IsDir(d, 0) /\ IsDir(d, n)
  BY <1>a, Basics DEF IsDir
<1>c. \A m \in Inums, a \in Names : ~(m = D /\ a = x) => Ent(e, m, a) = Ent(d, m, a)
  BY <1>a, <1>f, Basics
<1>h. Ent(e, D, x) = n
  BY <1>a
<1>d. \A m \in Inums : m # D => Kids(e, m) = Kids(d, m)
  BY <1>2, <1>c, SameKids
<1>e. \A m \in Inums : m # n => NameSet(e, m) = NameSet(d, m)
  <2>1. ASSUME NEW m \in Inums, m # n, NEW l \in Inums, NEW a \in Names PROVE Ent(e, l, a) = m <=> Ent(d, l, a) = m
    <3>1. CASE l = D /\ a = x
      BY <1>h, <2>1, <3>1, Basics
    <3>2. CASE ~(l = D /\ a = x)
      BY <1>c, <3>2
    <3> QED BY <3>1, <3>2
  <2> QED BY <2>1, SameNames
<1>3. FreeOk(e, R \ {n})
  <2>1. \A m \in Inums : e.ino[m].type = "none" => e.ino[m] = Free
    BY <1>0, <1>a DEF FreeOk
  <2>2. \A m \in R \ {n} : e.ino[m].type # "none" /\ e.ino[m].nlink = 0 /\ e.ino[m].addr = 0
    BY <1>0, <1>a DEF FreeOk
  <2> QED BY <2>1, <2>2 DEF FreeOk
<1>4. BlocksOk(e)
  <2>0. \A m \in Inums : m # n => e.ino[m].addr = d.ino[m].addr
    BY <1>a
  <2>1. \A m \in Inums : m # n => d.ino[m].addr = 0 \/ d.ino[m].addr \in d.used
    BY <1>0 DEF BlocksOk
  <2>3. /\ \A m \in Inums : e.ino[m].addr # 0 => e.ino[m].addr \in e.used
        /\ \A l, m \in Inums : e.ino[l].addr # 0 /\ e.ino[l].addr = e.ino[m].addr => l = m
    BY <1>0, <1>a, <2>0, <2>1 DEF BlocksOk
  <2>4. ASSUME NEW c \in e.used PROVE \E m \in Inums : e.ino[m].addr = c
    <3>1. CASE c = b
      BY <1>a, <3>1
    <3>2. CASE c # b
      <4>1. c \in d.used
        BY <3>2
      <4>2. PICK m \in Inums : d.ino[m].addr = c
        BY <1>0, <4>1 DEF BlocksOk
      <4>3. c # 0
        BY <1>0, <4>1, ImageFacts, Basics
      <4> QED BY <1>a, <2>0, <4>2, <4>3
    <3> QED BY <3>1, <3>2
  <2> QED BY <2>3, <2>4 DEF BlocksOk
<1>5. DotsOk(e, R \ {n})
  <2>1. \A m \in Inums : m # n => Ent(e, m, ".") = Ent(d, m, ".") /\ Ent(e, m, "..") = Ent(d, m, "..")
    BY <1>b, Basics
  <2>2. IsDir(e, ROOTINO) /\ ROOTINO \notin R \ {n} /\ Ent(e, ROOTINO, "..") = ROOTINO
    BY <1>0, <1>1, <1>2, <2>1, Basics DEF DotsOk
  <2>3. ASSUME NEW m \in Inums, e.ino[m].type = "dir", m \notin R \ {n}
        PROVE  e.ino[m].addr # 0 /\ Ent(e, m, ".") = m /\ Ent(e, m, "..") # 0
    <3>1. CASE m = n
      BY <1>a, <3>1
    <3>2. CASE m # n
      <4>1. d.ino[m].type = "dir" /\ m \notin R /\ e.ino[m].addr = d.ino[m].addr
        BY <2>3, <3>2
      <4> QED BY <1>0, <2>1, <3>2, <4>1 DEF DotsOk
    <3> QED BY <3>1, <3>2
  <2> QED BY <2>2, <2>3 DEF DotsOk
<1>6. NamesOk(e)
  <2> SUFFICES ASSUME NEW m \in Inums, NEW a \in Names, IsDir(e, Ent(e, m, a))
               PROVE  /\ Ent(e, m, a) # m /\ Ent(e, m, a) # ROOTINO /\ Makes(a)
                      /\ Ent(e, Ent(e, m, a), "..") = m
                      /\ \A l \in Inums, y \in Names : Ent(e, l, y) = Ent(e, m, a) => l = m /\ y = a
    BY DEF NamesOk
  <2>1. CASE m = D /\ a = x
    BY <1>1, <1>a, <1>c, <1>h, <2>1
  <2>2. CASE ~(m = D /\ a = x)
    <3>1. Ent(e, m, a) = Ent(d, m, a) /\ IsDir(d, Ent(d, m, a)) /\ Ent(d, m, a) \in Inums /\ Ent(d, m, a) # n
      BY <1>1, <1>2, <1>c, <2>2 DEF IsDir
    <3>3. /\ Ent(d, m, a) # m /\ Ent(d, m, a) # ROOTINO /\ Makes(a)
          /\ Ent(d, Ent(d, m, a), "..") = m
          /\ \A l \in Inums, y \in Names : Ent(d, l, y) = Ent(d, m, a) => l = m /\ y = a
      BY <1>0, <3>1 DEF NamesOk
    <3>4. Ent(e, Ent(d, m, a), "..") = Ent(d, Ent(d, m, a), "..")
      BY <1>b, <3>1, Basics
    <3>5. \A l \in Inums, y \in Names : Ent(e, l, y) = Ent(d, l, y) \/ Ent(e, l, y) = n
      BY <1>c, <1>h
    <3> QED BY <3>1, <3>3, <3>4, <3>5
  <2> QED BY <2>1, <2>2
<1>7. ASSUME NEW m \in Inums PROVE LinksAt(e, W, m)
  <2>1. CASE m = n
    <3>1. Cardinality(NameSet(e, n)) = Cardinality(NameSet(d, n)) + 1
      <4>1. /\ Ent(d, D, x) # n /\ Ent(e, D, x) = n
            /\ \A l \in Inums, a \in Names : l # D \/ a # x => (Ent(e, l, a) = n <=> Ent(d, l, a) = n)
        BY <1>1, <1>b, <1>c, <1>h
      <4> QED BY <1>b, <4>1, NameAdded
    <3>2. Cardinality(Kids(e, n)) = Cardinality(Kids(d, n)) + 0 /\ W[n] = W[n] + 0
      BY <1>a, <1>d, FiniteNames
    <3>3. e.ino[n].nlink = d.ino[n].nlink + 1 + 0 + 0
      BY <1>a
    <3>4. n \in Inums /\ (d.ino[n].type = "file" => e.ino[n].type = "file")
      BY <1>a
    <3>5. LinksAt(e, W, n)
      BY <1>0, <3>1, <3>2, <3>3, <3>4, LinksStep
    <3> QED BY <2>1, <3>5
  <2>2. CASE m = D
    <3>1. Cardinality(Kids(e, D)) = Cardinality(Kids(d, D)) + 1
      <4>1. /\ ~IsDir(d, Ent(d, D, x)) /\ IsDir(e, Ent(e, D, x))
            /\ \A a \in Names : a # x => (IsDir(e, Ent(e, D, a)) <=> IsDir(d, Ent(d, D, a)))
        BY <1>2, <1>b, <1>c, <1>g, <1>h
      <4> QED BY <1>b, <4>1, KidAdded
    <3>2. Cardinality(NameSet(e, D)) = Cardinality(NameSet(d, D)) + 0 /\ W[D] = W[D] + 0
      BY <1>a, <1>e, FiniteNames
    <3>3. e.ino[D].nlink = d.ino[D].nlink + 0 + 1 + 0
      BY <1>0, ImageFacts
    <3> QED BY <1>0, <2>2, <3>1, <3>2, <3>3, LinksStep
  <2>3. CASE m # n /\ m # D
    BY <1>0, <1>d, <1>e, <2>3, LinksKept
  <2> QED BY <2>1, <2>2, <2>3
<1>8. TreeOk(e, R \ {n})
  <2>1. SUFFICES ASSUME NoRmdir, NEW m \in Inums, e.ino[m].type = "dir", m \notin R \ {n}
                 PROVE  /\ m # ROOTINO => NameSet(e, m) # {}
                        /\ IsDir(e, Ent(e, m, "..")) /\ Ent(e, m, "..") \notin R \ {n}
    BY DEF TreeOk
  <2>2. CASE m = n
    <3>1. <<D, x>> \in NameSet(e, n)
      BY <1>b, <1>h DEF NameSet
    <3> QED BY <1>2, <2>2, <3>1 DEF IsDir
  <2>3. CASE m # n
    <3>1. d.ino[m].type = "dir" /\ m \notin R
      BY <2>1, <2>3
    <3>2. /\ m # ROOTINO => NameSet(d, m) # {}
          /\ IsDir(d, Ent(d, m, "..")) /\ Ent(d, m, "..") \notin R
      BY <1>0, <2>1, <3>1 DEF TreeOk
    <3>3. Ent(e, m, "..") = Ent(d, m, "..")
      BY <1>b, <2>3, Basics
    <3> QED BY <1>2, <1>e, <2>3, <3>2, <3>3
  <2> QED BY <2>2, <2>3
<1> QED BY <1>3, <1>4, <1>5, <1>6, <1>7, <1>8 DEF DiskInv, LinksOk

\* unlink() zeroes an entry; the link of its inode is owed until ul_drop, the one its
\* ".." is for the parent goes at once.
LEMMA NameCleared ==
  ASSUME NEW R \in SUBSET Inums, NEW W \in [Inums -> Nat], NEW V \in [Inums -> Nat], NEW d, DiskInv(d, R, W),
         NEW e \in Images, NEW n \in Inums,
         NEW D \in Inums, NEW x \in Names, d.ino[D].type = "dir", D \notin R, Ent(d, D, x) = n, Removes(x),
         \A m \in Inums : m # D => e.ino[m] = d.ino[m],
         e.ino[D].type = "dir", e.ino[D].addr = d.ino[D].addr,
         e.ino[D].nlink = IF d.ino[n].type = "dir" THEN d.ino[D].nlink - 1 ELSE d.ino[D].nlink,
         e.used = d.used,
         V[n] = W[n] + 1, \A m \in Inums : m # n => V[m] = W[m],
         \A m \in Inums, a \in AllNames : Ent(e, m, a) = IF m = D /\ a = x THEN 0 ELSE Ent(d, m, a)
  PROVE  DiskInv(e, R, V)
<1>0. d \in Images /\ FreeOk(d, R) /\ BlocksOk(d) /\ DotsOk(d, R) /\ NamesOk(d) /\ LinksOk(d, W) /\ TreeOk(d, R)
  BY DEF DiskInv
<1>a. n # 0 /\ x # "." /\ x # ".." /\ ~IsDir(d, 0)
  BY Basics DEF IsDir
<1>1. \A m : IsDir(e, m) <=> IsDir(d, m)
  BY DEF IsDir
<1>b. \A m \in Inums, a \in Names : ~(m = D /\ a = x) => Ent(e, m, a) = Ent(d, m, a)
  BY Basics
<1>c. Ent(e, D, x) = 0
  BY Basics
<1>d. \A m \in Inums : Ent(e, m, ".") = Ent(d, m, ".") /\ Ent(e, m, "..") = Ent(d, m, "..")
  BY <1>a, Basics
<1>e. n # D
  <2>1. CASE IsDir(d, n)
    BY <1>0, <2>1 DEF NamesOk
  <2>2. CASE ~IsDir(d, n)
    BY <2>2 DEF IsDir
  <2> QED BY <2>1, <2>2
<1>f. NoRmdir => d.ino[n].type # "dir"
  <2>1. IsDir(d, n) => Makes(x)
    BY <1>0 DEF NamesOk
  <2> QED BY <2>1 DEF NoRmdir, IsDir
<1>g. \A m \in Inums : m # n => NameSet(e, m) = NameSet(d, m)
  <2>1. ASSUME NEW m \in Inums, m # n, NEW l \in Inums, NEW a \in Names PROVE Ent(e, l, a) = m <=> Ent(d, l, a) = m
    <3>1. CASE l = D /\ a = x
      BY <1>c, <2>1, <3>1, Basics
    <3>2. CASE ~(l = D /\ a = x)
      BY <1>b, <3>2
    <3> QED BY <3>1, <3>2
  <2> QED BY <2>1, SameNames
<1>h. \A m \in Inums : m # D => Kids(e, m) = Kids(d, m)
  BY <1>1, <1>b, SameKids
<1>3. FreeOk(e, R)
  BY <1>0 DEF FreeOk
<1>4. BlocksOk(e)
  <2>1. \A m \in Inums : e.ino[m].addr = d.ino[m].addr
    OBVIOUS
  <2> QED BY <1>0, <2>1 DEF BlocksOk
<1>5. DotsOk(e, R)
  <2>1. \A m \in Inums : e.ino[m].type = d.ino[m].type /\ e.ino[m].addr = d.ino[m].addr
    OBVIOUS
  <2> QED BY <1>0, <1>1, <1>d, <2>1, Basics DEF DotsOk
<1>6. NamesOk(e)
  <2> SUFFICES ASSUME NEW m \in Inums, NEW a \in Names, IsDir(e, Ent(e, m, a))
               PROVE  /\ Ent(e, m, a) # m /\ Ent(e, m, a) # ROOTINO /\ Makes(a)
                      /\ Ent(e, Ent(e, m, a), "..") = m
                      /\ \A l \in Inums, y \in Names : Ent(e, l, y) = Ent(e, m, a) => l = m /\ y = a
    BY DEF NamesOk
  <2>1. ~(m = D /\ a = x)
    BY <1>1, <1>a, <1>c
  <2>2. Ent(e, m, a) = Ent(d, m, a) /\ IsDir(d, Ent(d, m, a)) /\ Ent(d, m, a) \in Inums /\ Ent(d, m, a) # 0
    BY <1>1, <1>b, <2>1, Basics DEF IsDir
  <2>3. /\ Ent(d, m, a) # m /\ Ent(d, m, a) # ROOTINO /\ Makes(a)
        /\ Ent(d, Ent(d, m, a), "..") = m
        /\ \A l \in Inums, y \in Names : Ent(d, l, y) = Ent(d, m, a) => l = m /\ y = a
    BY <1>0, <2>2 DEF NamesOk
  <2>4. Ent(e, Ent(d, m, a), "..") = Ent(d, Ent(d, m, a), "..")
    BY <1>d, <2>2
  <2>5. \A l \in Inums, y \in Names : Ent(e, l, y) = Ent(d, l, y) \/ Ent(e, l, y) = 0
    BY <1>b, <1>c
  <2> QED BY <2>2, <2>3, <2>4, <2>5
<1>7. ASSUME NEW m \in Inums PROVE LinksAt(e, V, m)
  <2>1. CASE m = n
    <3>1. Cardinality(NameSet(e, n)) = Cardinality(NameSet(d, n)) - 1
      <4>1. /\ Ent(d, D, x) = n /\ Ent(e, D, x) # n
            /\ \A l \in Inums, a \in Names : l # D \/ a # x => (Ent(e, l, a) = n <=> Ent(d, l, a) = n)
        BY <1>a, <1>b, <1>c
      <4> QED BY <4>1, NameRemoved
    <3>2. Cardinality(Kids(e, n)) = Cardinality(Kids(d, n)) + 0
      BY <1>e, <1>h, FiniteNames
    <3>3. e.ino[n].nlink = d.ino[n].nlink + (-1) + 0 + 1 /\ e.ino[n].type = d.ino[n].type
      BY <1>0, <1>e, ImageFacts
    <3>4. Cardinality(NameSet(e, n)) = Cardinality(NameSet(d, n)) + (-1)
      BY <3>1, FiniteNames
    <3>5. LinksAt(e, V, n)
      BY <1>0, <3>2, <3>3, <3>4, LinksStep
    <3> QED BY <2>1, <3>5
  <2>2. CASE m = D /\ d.ino[n].type = "dir"
    <3>1. Cardinality(Kids(e, D)) = Cardinality(Kids(d, D)) - 1
      <4>1. /\ IsDir(d, Ent(d, D, x)) /\ ~IsDir(e, Ent(e, D, x))
            /\ \A a \in Names : a # x => (IsDir(e, Ent(e, D, a)) <=> IsDir(d, Ent(d, D, a)))
        BY <1>1, <1>a, <1>b, <1>c, <2>2 DEF IsDir
      <4> QED BY <4>1, KidRemoved
    <3>2. Cardinality(Kids(e, D)) = Cardinality(Kids(d, D)) + (-1)
      BY <3>1, FiniteNames
    <3>3. Cardinality(NameSet(e, D)) = Cardinality(NameSet(d, D)) + 0 /\ V[D] = W[D] + 0
      BY <1>e, <1>g, FiniteNames
    <3>4. e.ino[D].nlink = d.ino[D].nlink + 0 + (-1) + 0
      BY <1>0, <2>2, ImageFacts
    <3>5. LinksAt(e, V, D)
      BY <1>0, <3>2, <3>3, <3>4, LinksStep
    <3> QED BY <2>2, <3>5
  <2>3. CASE m = D /\ d.ino[n].type # "dir"
    <3>1. Kids(e, D) = Kids(d, D)
      <4>1. \A a \in Names : IsDir(e, Ent(e, D, a)) <=> IsDir(d, Ent(d, D, a))
        BY <1>1, <1>a, <1>b, <1>c, <2>3 DEF IsDir
      <4> QED BY <4>1, SameKids
    <3> QED BY <1>0, <1>e, <1>g, <2>3, <3>1, LinksKept
  <2>4. CASE m # n /\ m # D
    BY <1>0, <1>g, <1>h, <2>4, LinksKept
  <2> QED BY <2>1, <2>2, <2>3, <2>4
<1>8. TreeOk(e, R)
  <2>1. SUFFICES ASSUME NoRmdir, NEW m \in Inums, e.ino[m].type = "dir", m \notin R
                 PROVE  /\ m # ROOTINO => NameSet(e, m) # {}
                        /\ IsDir(e, Ent(e, m, "..")) /\ Ent(e, m, "..") \notin R
    BY DEF TreeOk
  <2>2. d.ino[m].type = "dir" /\ m # n
    BY <1>f, <2>1
  <2>3. /\ m # ROOTINO => NameSet(d, m) # {}
        /\ IsDir(d, Ent(d, m, "..")) /\ Ent(d, m, "..") \notin R
    BY <1>0, <2>1, <2>2 DEF TreeOk
  <2> QED BY <1>1, <1>d, <1>g, <2>2, <2>3
<1> QED BY <1>3, <1>4, <1>5, <1>6, <1>7, <1>8 DEF DiskInv, LinksOk

\* link() writes the entry for which ln_lock counted a link.
LEMMA NameMade ==
  ASSUME NEW R \in SUBSET Inums, NEW W \in [Inums -> Nat], NEW V \in [Inums -> Nat], NEW d, DiskInv(d, R, W),
         NEW e \in Images, NEW n \in Inums, d.ino[n].type = "file",
         NEW D \in Inums, NEW x \in AllNames, d.ino[D].type = "dir", D \notin R, Ent(d, D, x) = 0,
         \A m \in Inums : e.ino[m] = d.ino[m],
         e.used = d.used,
         V[n] = W[n] - 1, \A m \in Inums : m # n => V[m] = W[m],
         \A m \in Inums, a \in AllNames : Ent(e, m, a) = IF m = D /\ a = x THEN n ELSE Ent(d, m, a)
  PROVE  DiskInv(e, R, V)
<1>0. d \in Images /\ FreeOk(d, R) /\ BlocksOk(d) /\ DotsOk(d, R) /\ NamesOk(d) /\ LinksOk(d, W) /\ TreeOk(d, R)
  BY DEF DiskInv
<1>x. x \in Names
  BY <1>0, Basics DEF DotsOk
<1>a. n # 0 /\ x # "." /\ x # ".." /\ ~IsDir(d, 0) /\ ~IsDir(d, n)
  BY <1>x, Basics DEF IsDir
<1>1. \A m : IsDir(e, m) <=> IsDir(d, m)
  BY DEF IsDir
<1>b. \A m \in Inums, a \in Names : ~(m = D /\ a = x) => Ent(e, m, a) = Ent(d, m, a)
  BY Basics
<1>c. Ent(e, D, x) = n
  BY Basics
<1>d. \A m \in Inums : Ent(e, m, ".") = Ent(d, m, ".") /\ Ent(e, m, "..") = Ent(d, m, "..")
  BY <1>a, Basics
<1>g. \A m \in Inums : m # n => NameSet(e, m) = NameSet(d, m)
  <2>1. ASSUME NEW m \in Inums, m # n, NEW l \in Inums, NEW a \in Names PROVE Ent(e, l, a) = m <=> Ent(d, l, a) = m
    <3>1. CASE l = D /\ a = x
      BY <1>c, <2>1, <3>1, Basics
    <3>2. CASE ~(l = D /\ a = x)
      BY <1>b, <3>2
    <3> QED BY <3>1, <3>2
  <2> QED BY <2>1, SameNames
<1>h. \A m \in Inums : Kids(e, m) = Kids(d, m)
  BY <1>1, <1>a, <1>b, <1>c, SameKids
<1>3. FreeOk(e, R)
  BY <1>0 DEF FreeOk
<1>4. BlocksOk(e)
  BY <1>0 DEF BlocksOk
<1>5. DotsOk(e, R)
  BY <1>0, <1>1, <1>d, Basics DEF DotsOk
<1>6. NamesOk(e)
  <2> SUFFICES ASSUME NEW m \in Inums, NEW a \in Names, IsDir(e, Ent(e, m, a))
               PROVE  /\ Ent(e, m, a) # m /\ Ent(e, m, a) # ROOTINO /\ Makes(a)
                      /\ Ent(e, Ent(e, m, a), "..") = m
                      /\ \A l \in Inums, y \in Names : Ent(e, l, y) = Ent(e, m, a) => l = m /\ y = a
    BY DEF NamesOk
  <2>1. ~(m = D /\ a = x)
    BY <1>1, <1>a, <1>c
  <2>2. Ent(e, m, a) = Ent(d, m, a) /\ IsDir(d, Ent(d, m, a)) /\ Ent(d, m, a) \in Inums /\ Ent(d, m, a) # n
    BY <1>1, <1>a, <1>b, <2>1, Basics DEF IsDir
  <2>3. /\ Ent(d, m, a) # m /\ Ent(d, m, a) # ROOTINO /\ Makes(a)
        /\ Ent(d, Ent(d, m, a), "..") = m
        /\ \A l \in Inums, y \in Names : Ent(d, l, y) = Ent(d, m, a) => l = m /\ y = a
    BY <1>0, <2>2 DEF NamesOk
  <2>4. Ent(e, Ent(d, m, a), "..") = Ent(d, Ent(d, m, a), "..")
    BY <1>d, <2>2
  <2>5. \A l \in Inums, y \in Names : Ent(e, l, y) = Ent(d, l, y) \/ Ent(e, l, y) = n
    BY <1>b, <1>c
  <2> QED BY <2>2, <2>3, <2>4, <2>5
<1>7. ASSUME NEW m \in Inums PROVE LinksAt(e, V, m)
  <2>1. CASE m = n
    <3>1. Cardinality(NameSet(e, n)) = Cardinality(NameSet(d, n)) + 1
      <4>1. /\ Ent(d, D, x) # n /\ Ent(e, D, x) = n
            /\ \A l \in Inums, a \in Names : l # D \/ a # x => (Ent(e, l, a) = n <=> Ent(d, l, a) = n)
        BY <1>a, <1>b, <1>c
      <4> QED BY <1>x, <4>1, NameAdded
    <3>2. Cardinality(Kids(e, n)) = Cardinality(Kids(d, n)) + 0 /\ V[n] = W[n] + (-1)
      BY <1>h, FiniteNames
    <3>3. e.ino[n].nlink = d.ino[n].nlink + 1 + 0 + (-1) /\ e.ino[n].type = d.ino[n].type
      BY <1>0, ImageFacts
    <3>4. -1 \in Int /\ 1 \in Int /\ 0 \in Int
      OBVIOUS
    <3>5. LinksAt(e, V, n)
      BY ONLY <1>0, <3>1, <3>2, <3>3, <3>4, LinksStep, d \in Images, e \in Images, n \in Inums,
              W \in [Inums -> Nat], V \in [Inums -> Nat]
    <3> QED BY <2>1, <3>5
  <2>2. CASE m # n
    BY <1>0, <1>g, <1>h, <2>2, LinksKept
  <2> QED BY <2>1, <2>2
<1>8. TreeOk(e, R)
  <2>1. SUFFICES ASSUME NoRmdir, NEW m \in Inums, e.ino[m].type = "dir", m \notin R
                 PROVE  /\ m # ROOTINO => NameSet(e, m) # {}
                        /\ IsDir(e, Ent(e, m, "..")) /\ Ent(e, m, "..") \notin R
    BY DEF TreeOk
  <2>3. m # n /\ (m # ROOTINO => NameSet(d, m) # {})
        /\ IsDir(d, Ent(d, m, "..")) /\ Ent(d, m, "..") \notin R
    BY <1>0, <2>1 DEF TreeOk
  <2> QED BY <1>1, <1>d, <1>g, <2>3
<1> QED BY <1>3, <1>4, <1>5, <1>6, <1>7, <1>8 DEF DiskInv, LinksOk

\* What a lookup finds: an inode in use, with a link or the directory itself.
LEMMA Looked ==
  ASSUME NEW R \in SUBSET Inums, NEW W \in [Inums -> Nat], NEW d, DiskInv(d, R, W),
         NEW n \in Inums, d.ino[n].type = "dir", n \notin R,
         NEW a \in AllNames, Ent(d, n, a) # 0, a = ".." => d.ino[Ent(d, n, a)].nlink >= 1
  PROVE  /\ Ent(d, n, a) \in Inums /\ d.ino[Ent(d, n, a)].type # "none" /\ Ent(d, n, a) \notin R
         /\ d.ino[Ent(d, n, a)].nlink >= 1 \/ Ent(d, n, a) = n
<1>0. d \in Images /\ DotsOk(d, R) /\ TreeOk(d, R) /\ LinksOk(d, W)
  BY DEF DiskInv
<1>1. CASE a \in Names
  <2>1. Ent(d, n, a) \in Inums /\ d.ino[Ent(d, n, a)].nlink \in Int
    BY <1>0, <1>1, Named, ImageFacts
  <2>2. d.ino[Ent(d, n, a)].nlink > 0 /\ d.ino[Ent(d, n, a)].type # "none" /\ Ent(d, n, a) \notin R
    BY <1>1, Named
  <2>3. d.ino[Ent(d, n, a)].nlink >= 1
    BY <2>1, <2>2
  <2> QED BY <2>1, <2>2, <2>3
<1>2. CASE a = "."
  BY <1>0, <1>2, Basics DEF DotsOk
<1>3. CASE a = ".."
  <2>1. PICK m : m = Ent(d, n, a)
    OBVIOUS
  <2>2. m \in Inums /\ d.ino[m].nlink >= 1
    BY <1>0, <1>3, <2>1, ImageFacts
  <2>3. d.ino[m].type # "none" /\ m \notin R
    BY <2>2 DEF DiskInv, FreeOk, Free
  <2> QED BY <2>1, <2>2, <2>3
<1> QED BY <1>1, <1>2, <1>3, Basics

\* If no directory is removed, ".." is a directory with a link.
LEMMA UpHasLink ==
  ASSUME NoRmdir, NEW R \in SUBSET Inums, NEW W \in [Inums -> Nat], NEW d, DiskInv(d, R, W),
         NEW n \in Inums, d.ino[n].type = "dir", n \notin R
  PROVE  d.ino[Ent(d, n, "..")].nlink >= 1
<1>0. d \in Images /\ TreeOk(d, R) /\ LinksOk(d, W)
  BY DEF DiskInv
<1>1. PICK m : m = Ent(d, n, "..")
  OBVIOUS
<1>2. m \in Inums /\ d.ino[m].type = "dir" /\ m \notin R
  BY <1>0, <1>1 DEF TreeOk, IsDir
<1>3. m # ROOTINO => NameSet(d, m) # {}
  BY <1>0, <1>2 DEF TreeOk
<1>4. /\ IsFiniteSet(NameSet(d, m)) /\ Cardinality(NameSet(d, m)) \in Nat /\ Cardinality(Kids(d, m)) \in Nat
      /\ W[m] \in Nat /\ d.ino[m].nlink \in Int
  BY <1>0, <1>2, FiniteNames, ImageFacts
<1>5. NameSet(d, m) # {} => Cardinality(NameSet(d, m)) # 0
  BY <1>4, FS_EmptySet
<1>6. d.ino[m].nlink >= Links(d, W, m) /\ Links(d, W, m) \in Int /\ Links(d, W, m) >= 1
  BY <1>0, <1>2, <1>3, <1>4, <1>5 DEF LinksOk, LinksAt, Links
<1>7. d.ino[m].nlink >= 1
  BY <1>4, <1>6
<1> QED BY <1>1, <1>7
-----------------------------------------------------------------------------
(* Counting pointers and owed links. *)

\* The pointers of kinds K that record r has to entry s, and all of them.
Of(K, r, s) == {k \in K : r[k] = s}
One(u, v) == IF u = v THEN 1 ELSE 0
Count(r, s) == One(r.fd, s) + One(r.cwd, s) + One(r.dp, s) + One(r.ip, s) + One(r.old, s) + One(r.x, s)
PtrSet(pr, s) == {e \in Procs \X Kinds : pr[e[1]][e[2]] = s}

\* A kind more to look at.
LEMMA OfMore ==
  ASSUME NEW K, IsFiniteSet(K), NEW r, NEW s
  PROVE  \A k : k \notin K => Cardinality(Of(K \union {k}, r, s)) = Cardinality(Of(K, r, s)) + One(r[k], s)
<1> SUFFICES ASSUME NEW k, k \notin K
             PROVE  Cardinality(Of(K \union {k}, r, s)) = Cardinality(Of(K, r, s)) + One(r[k], s)
  OBVIOUS
<1>2. IsFiniteSet(Of(K, r, s))
  <2>1. Of(K, r, s) \in SUBSET K
    BY DEF Of
  <2> QED BY <2>1, FS_Subset
<1>3. Cardinality(Of(K, r, s)) \in Nat
  BY <1>2, FS_CardinalityType
<1>4. CASE r[k] = s
  <2>1. Of(K \union {k}, r, s) = Of(K, r, s) \cup {k}
    BY <1>4 DEF Of
  <2>2. k \notin Of(K, r, s)
    BY DEF Of
  <2>3. Cardinality(Of(K, r, s) \cup {k}) = Cardinality(Of(K, r, s)) + 1
    BY <1>2, <2>2, FS_AddElement
  <2> QED BY <1>3, <1>4, <2>1, <2>3 DEF One
<1>5. CASE r[k] # s
  <2>1. Of(K \union {k}, r, s) = Of(K, r, s)
    BY <1>5 DEF Of
  <2> QED BY <1>3, <1>5, <2>1 DEF One
<1> QED BY <1>4, <1>5

\* The six kinds, one by one.
LEMMA OfKinds ==
  ASSUME NEW r, NEW s
  PROVE  /\ IsFiniteSet(Kinds) /\ IsFiniteSet(Of(Kinds, r, s))
         /\ Cardinality(Of(Kinds, r, s)) = Count(r, s) /\ Count(r, s) \in Nat
<1> DEFINE K0 == {} K1 == K0 \union {"fd"} K2 == K1 \union {"cwd"} K3 == K2 \union {"dp"}
           K4 == K3 \union {"ip"} K5 == K4 \union {"old"} K6 == K5 \union {"x"}
<1>0. IsFiniteSet(K0) /\ Of(K0, r, s) = {} /\ Cardinality({}) = 0
  BY FS_EmptySet DEF Of
<1>a. /\ "fd" \notin K0 /\ "cwd" \notin K1 /\ "dp" \notin K2 /\ "ip" \notin K3 /\ "old" \notin K4 /\ "x" \notin K5
      /\ K6 = Kinds
  BY DEF Kinds
<1> HIDE DEF K0
<1>1. IsFiniteSet(K1) /\ Cardinality(Of(K1, r, s)) = Cardinality(Of(K0, r, s)) + One(r.fd, s)
  <2>1. \A k : k \notin K0 => Cardinality(Of(K0 \union {k}, r, s)) = Cardinality(Of(K0, r, s)) + One(r[k], s)
    BY <1>0, OfMore
  <2>2. \A k : k = "fd" => One(r[k], s) = One(r.fd, s)
    OBVIOUS
  <2>3. IsFiniteSet(K1)
    BY <1>0, FS_AddElement
  <2> QED BY <1>a, <2>1, <2>2, <2>3
<1> HIDE DEF K1
<1>2. IsFiniteSet(K2) /\ Cardinality(Of(K2, r, s)) = Cardinality(Of(K1, r, s)) + One(r.cwd, s)
  <2>1. \A k : k \notin K1 => Cardinality(Of(K1 \union {k}, r, s)) = Cardinality(Of(K1, r, s)) + One(r[k], s)
    BY <1>1, OfMore
  <2>2. \A k : k = "cwd" => One(r[k], s) = One(r.cwd, s)
    OBVIOUS
  <2>3. IsFiniteSet(K2)
    BY <1>1, FS_AddElement
  <2> QED BY <1>a, <2>1, <2>2, <2>3
<1> HIDE DEF K2
<1>3. IsFiniteSet(K3) /\ Cardinality(Of(K3, r, s)) = Cardinality(Of(K2, r, s)) + One(r.dp, s)
  <2>1. \A k : k \notin K2 => Cardinality(Of(K2 \union {k}, r, s)) = Cardinality(Of(K2, r, s)) + One(r[k], s)
    BY <1>2, OfMore
  <2>2. \A k : k = "dp" => One(r[k], s) = One(r.dp, s)
    OBVIOUS
  <2>3. IsFiniteSet(K3)
    BY <1>2, FS_AddElement
  <2> QED BY <1>a, <2>1, <2>2, <2>3
<1> HIDE DEF K3
<1>4. IsFiniteSet(K4) /\ Cardinality(Of(K4, r, s)) = Cardinality(Of(K3, r, s)) + One(r.ip, s)
  <2>1. \A k : k \notin K3 => Cardinality(Of(K3 \union {k}, r, s)) = Cardinality(Of(K3, r, s)) + One(r[k], s)
    BY <1>3, OfMore
  <2>2. \A k : k = "ip" => One(r[k], s) = One(r.ip, s)
    OBVIOUS
  <2>3. IsFiniteSet(K4)
    BY <1>3, FS_AddElement
  <2> QED BY <1>a, <2>1, <2>2, <2>3
<1> HIDE DEF K4
<1>5. IsFiniteSet(K5) /\ Cardinality(Of(K5, r, s)) = Cardinality(Of(K4, r, s)) + One(r.old, s)
  <2>1. \A k : k \notin K4 => Cardinality(Of(K4 \union {k}, r, s)) = Cardinality(Of(K4, r, s)) + One(r[k], s)
    BY <1>4, OfMore
  <2>2. \A k : k = "old" => One(r[k], s) = One(r.old, s)
    OBVIOUS
  <2>3. IsFiniteSet(K5)
    BY <1>4, FS_AddElement
  <2> QED BY <1>a, <2>1, <2>2, <2>3
<1> HIDE DEF K5
<1>6. IsFiniteSet(K6) /\ Cardinality(Of(K6, r, s)) = Cardinality(Of(K5, r, s)) + One(r.x, s)
  <2>1. \A k : k \notin K5 => Cardinality(Of(K5 \union {k}, r, s)) = Cardinality(Of(K5, r, s)) + One(r[k], s)
    BY <1>5, OfMore
  <2>2. \A k : k = "x" => One(r[k], s) = One(r.x, s)
    OBVIOUS
  <2>3. IsFiniteSet(K6)
    BY <1>5, FS_AddElement
  <2> QED BY <1>a, <2>1, <2>2, <2>3
<1> HIDE DEF K6
<1>b. Of(K6, r, s) \in SUBSET K6
  BY DEF Of
<1>c. IsFiniteSet(Of(K6, r, s))
  BY <1>6, <1>b, FS_Subset
<1>7. Cardinality(Of(K6, r, s)) = Count(r, s)
  BY <1>0, <1>1, <1>2, <1>3, <1>4, <1>5, <1>6 DEF Count, One
<1>8. Count(r, s) \in Nat
  BY DEF Count, One
<1> QED BY <1>6, <1>7, <1>8, <1>a, <1>c

\* A record whose pointers change changes the count of an entry by theirs.
LEMMA Counted ==
  ASSUME NEW pr, NEW qr, NEW p \in Procs, \A q \in Procs : q # p => qr[q] = pr[q], NEW s
  PROVE  /\ Cardinality(PtrSet(pr, s)) \in Nat /\ Cardinality(PtrSet(qr, s)) \in Nat
         /\ Cardinality(PtrSet(qr, s)) = Cardinality(PtrSet(pr, s)) + Count(qr[p], s) - Count(pr[p], s)
         /\ Cardinality(PtrSet(pr, s)) >= Count(pr[p], s)
<1> DEFINE Rest(v) == {e \in (Procs \ {p}) \X Kinds : v[e[1]][e[2]] = s}
           Mine(v) == {p} \X Of(Kinds, v[p], s)
<1>1. IsFiniteSet(Procs \X Kinds)
  BY Basics, OfKinds, FS_Product
<1>2. ASSUME NEW v
      PROVE  /\ IsFiniteSet(Rest(v)) /\ Cardinality(Rest(v)) \in Nat
             /\ Cardinality(PtrSet(v, s)) = Cardinality(Rest(v)) + Count(v[p], s)
  <2>1. Rest(v) \in SUBSET (Procs \X Kinds) /\ Mine(v) \in SUBSET (Procs \X Kinds)
    BY DEF Of
  <2>2. IsFiniteSet(Rest(v)) /\ IsFiniteSet(Mine(v))
    BY <1>1, <2>1, FS_Subset
  <2>3. PtrSet(v, s) = Rest(v) \cup Mine(v)
    <3>1. \A e : e \in PtrSet(v, s) <=> e \in Rest(v) \cup Mine(v)
      BY DEF PtrSet, Of
    <3> QED BY <3>1
  <2>4. Rest(v) \cap Mine(v) = {}
    BY DEF Of
  <2>5. IsFiniteSet({p}) /\ Cardinality({p}) = 1
    BY FS_Singleton
  <2>6. Cardinality(Mine(v)) = 1 * Cardinality(Of(Kinds, v[p], s))
    BY <2>5, OfKinds, FS_Product
  <2>7. Cardinality(Mine(v)) = Count(v[p], s) /\ Count(v[p], s) \in Nat
    BY <2>6, OfKinds
  <2> HIDE DEF Rest, Mine
  <2>8. IsFiniteSet(Rest(v) \cap Mine(v)) /\ Cardinality(Rest(v) \cap Mine(v)) = 0
    BY <2>4, FS_EmptySet
  <2>9. Cardinality(Rest(v)) \in Nat
    BY <2>2, FS_CardinalityType
  <2>10. Cardinality(Rest(v) \cup Mine(v)) = Cardinality(Rest(v)) + Cardinality(Mine(v)) - Cardinality(Rest(v) \cap Mine(v))
    BY <2>2, FS_Union
  <2> QED BY <2>2, <2>3, <2>7, <2>8, <2>9, <2>10
<1>3. Rest(qr) = Rest(pr)
  <2>1. \A e : e \in Rest(qr) <=> e \in Rest(pr)
    OBVIOUS
  <2> QED BY <2>1
<1>4. /\ Cardinality(Rest(pr)) \in Nat
      /\ Cardinality(PtrSet(pr, s)) = Cardinality(Rest(pr)) + Count(pr[p], s)
      /\ Cardinality(PtrSet(qr, s)) = Cardinality(Rest(pr)) + Count(qr[p], s)
  BY <1>2, <1>3
<1>5. Count(pr[p], s) \in Nat /\ Count(qr[p], s) \in Nat
  BY OfKinds
<1> QED BY <1>4, <1>5

\* An entry with two pointers of different processes has that many.
LEMMA OthersCounted ==
  ASSUME NEW pr, NEW p \in Procs, NEW q \in Procs, q # p, NEW k \in Kinds, NEW s, pr[q][k] = s
  PROVE  Cardinality(PtrSet(pr, s)) > Count(pr[p], s)
<1>1. /\ Cardinality(PtrSet(pr, s)) \in Nat /\ Cardinality(PtrSet(pr, s)) >= Count(pr[p], s) /\ Count(pr[p], s) \in Nat
  BY Counted, OfKinds
<1>2. SUFFICES ASSUME Cardinality(PtrSet(pr, s)) = Count(pr[p], s) PROVE FALSE
  BY <1>1
<1>3. PtrSet(pr, s) # {p} \X Of(Kinds, pr[p], s)
  <2>1. <<q, k>> \in PtrSet(pr, s)
    BY DEF PtrSet
  <2> QED BY <2>1
<1>4. {p} \X Of(Kinds, pr[p], s) \in SUBSET PtrSet(pr, s)
  BY DEF PtrSet, Of
<1>5. IsFiniteSet(PtrSet(pr, s))
  <2>1. PtrSet(pr, s) \in SUBSET (Procs \X Kinds)
    BY DEF PtrSet
  <2> QED BY <2>1, Basics, OfKinds, FS_Product, FS_Subset
<1>6. IsFiniteSet({p}) /\ Cardinality({p}) = 1
  BY FS_Singleton
<1>7. Cardinality({p} \X Of(Kinds, pr[p], s)) = 1 * Cardinality(Of(Kinds, pr[p], s))
  BY <1>6, OfKinds, FS_Product
<1>8. Cardinality({p} \X Of(Kinds, pr[p], s)) = Count(pr[p], s)
  BY <1>7, OfKinds
<1> QED BY <1>2, <1>3, <1>4, <1>5, <1>8, FS_Subset

\* A pointer is counted.
LEMMA PtrCounted ==
  ASSUME NEW r, NEW k \in Kinds, NEW s, r[k] = s
  PROVE  Count(r, s) >= 1
<1>1. One(r.fd, s) \in Nat /\ One(r.cwd, s) \in Nat /\ One(r.dp, s) \in Nat /\ One(r.ip, s) \in Nat
      /\ One(r.old, s) \in Nat /\ One(r.x, s) \in Nat
  BY DEF One
<1>2. One(r.fd, s) = 1 \/ One(r.cwd, s) = 1 \/ One(r.dp, s) = 1 \/ One(r.ip, s) = 1
      \/ One(r.old, s) = 1 \/ One(r.x, s) = 1
  BY DEF One, Kinds
<1> QED BY <1>1, <1>2 DEF Count

\* The processes that owe a link.
OwedSet(f, n) == {q \in Procs : f[q] = n}

\* One process' debt changes.
LEMMA OwedCounted ==
  ASSUME NEW f, NEW g, NEW p \in Procs, \A q \in Procs : q # p => g[q] = f[q], NEW n
  PROVE  /\ Cardinality(OwedSet(f, n)) \in Nat /\ Cardinality(OwedSet(g, n)) \in Nat
         /\ Cardinality(OwedSet(g, n)) = Cardinality(OwedSet(f, n)) + One(g[p], n) - One(f[p], n)
<1> DEFINE S(v) == {q \in Procs \ {p} : v[q] = n}
<1>1. ASSUME NEW v PROVE /\ IsFiniteSet(S(v)) /\ Cardinality(S(v)) \in Nat
                         /\ Cardinality(OwedSet(v, n)) = Cardinality(S(v)) + One(v[p], n)
  <2>1. S(v) \in SUBSET Procs
    OBVIOUS
  <2>2. IsFiniteSet(S(v)) /\ Cardinality(S(v)) \in Nat
    BY <2>1, Basics, FS_Subset, FS_CardinalityType
  <2>3. CASE v[p] = n
    <3>1. OwedSet(v, n) = S(v) \cup {p}
      BY <2>3 DEF OwedSet
    <3>2. p \notin S(v)
      OBVIOUS
    <3> HIDE DEF S
    <3>3. Cardinality(S(v) \cup {p}) = Cardinality(S(v)) + 1
      BY <2>2, <3>2, FS_AddElement
    <3> QED BY <2>2, <2>3, <3>1, <3>3 DEF One
  <2>4. CASE v[p] # n
    <3>1. OwedSet(v, n) = S(v)
      BY <2>4 DEF OwedSet
    <3> HIDE DEF S
    <3> QED BY <2>2, <2>4, <3>1 DEF One
  <2> QED BY <2>3, <2>4
<1>2. S(f) = S(g)
  OBVIOUS
<1>3. One(f[p], n) \in Nat /\ One(g[p], n) \in Nat
  BY DEF One
<1> HIDE DEF S
<1>4. /\ Cardinality(S(f)) \in Nat
      /\ Cardinality(OwedSet(f, n)) = Cardinality(S(f)) + One(f[p], n)
      /\ Cardinality(OwedSet(g, n)) = Cardinality(S(f)) + One(g[p], n)
  BY <1>1, <1>2
<1> QED BY <1>3, <1>4
-----------------------------------------------------------------------------
(* What holds of every process, and what a step of one leaves to the others. *)

\* A record by its pointers.
LEMMA RecordFacts ==
  ASSUME NEW r \in Records
  PROVE  /\ \A k \in Kinds : r[k] \in Ptrs /\ (r[k] # 0 => r[k] \in Slots)
         /\ \A s : Count(r, s) \in Nat
         /\ \A k \in Kinds : Count(r, r[k]) >= 1
         /\ Count(r, r.fd) >= 1 /\ Count(r, r.cwd) >= 1 /\ Count(r, r.dp) >= 1
         /\ Count(r, r.ip) >= 1 /\ Count(r, r.old) >= 1 /\ Count(r, r.x) >= 1
         /\ r.cwd \in Slots /\ r.cwd # 0
<1>1. \A k \in Kinds : r[k] \in Ptrs /\ (r[k] # 0 => r[k] \in Slots)
  BY DEF Records, Kinds, Ptrs
<1>2. \A s : Count(r, s) \in Nat
  BY OfKinds
<1>3. \A k \in Kinds : Count(r, r[k]) >= 1
  BY PtrCounted
<1>4. \A k \in Kinds : \A s : r[k] = s => Count(r, s) >= 1
  BY PtrCounted
<1>5. /\ Count(r, r.fd) >= 1 /\ Count(r, r.cwd) >= 1 /\ Count(r, r.dp) >= 1
      /\ Count(r, r.ip) >= 1 /\ Count(r, r.old) >= 1 /\ Count(r, r.x) >= 1
  BY <1>4 DEF Kinds
<1>6. r.cwd \in Slots /\ r.cwd # 0
  BY Basics DEF Records
<1> QED BY <1>1, <1>2, <1>3, <1>5, <1>6

\* What a process points to is in use, and others' pointers come on top.
LEMMA PtrFacts ==
  ASSUME InodeInv, NEW p \in Procs
  PROVE  /\ proc[p] \in Records
         /\ \A s \in Slots : icache[s].ref \in Nat /\ icache[s].ref >= Count(proc[p], s)
         /\ \A q \in Procs, k \in Kinds : q # p /\ proc[q][k] # 0 =>
              proc[q][k] \in Slots /\ icache[proc[q][k]].ref > Count(proc[p], proc[q][k])
<1>1. proc[p] \in Records /\ \A q \in Procs : proc[q] \in Records
  BY DEF InodeInv, TypeInv
<1>2. \A s \in Slots : icache[s].ref = Cardinality(PtrSet(proc, s)) /\ icache[s].ref \in Nat
  BY DEF InodeInv, TypeInv, RefInv, Pointers, PtrSet, Kinds, Entries
<1>3. \A s \in Slots : icache[s].ref >= Count(proc[p], s)
  BY <1>2, Counted
<1>4. \A q \in Procs, k \in Kinds : q # p /\ proc[q][k] # 0 =>
        proc[q][k] \in Slots /\ icache[proc[q][k]].ref > Count(proc[p], proc[q][k])
  BY <1>1, <1>2, RecordFacts, OthersCounted
<1> QED BY <1>1, <1>2, <1>3, <1>4

\* A lock is of a pointer.
LEMMA LocksPtr ==
  ASSUME NEW r, Shape(r), NEW s \in Slots, Locks(r, s)
  PROVE  \E k \in Kinds : r[k] = s /\ r[k] # 0
BY Basics DEF Locks, Kinds

\* The pointers of r and where they lead, in two caches that agree on them.
LEMMA SamePtrs ==
  ASSUME NEW r \in Records, Shape(r), NEW ic, NEW jc,
         \A k \in Kinds : r[k] # 0 => jc[r[k]].inum = ic[r[k]].inum
  PROVE  resv(r, jc) = resv(r, ic) /\ owed(r, jc) = owed(r, ic)
<1>1. /\ r.ip # 0 => jc[r.ip].inum = ic[r.ip].inum
      /\ r.old # 0 => jc[r.old].inum = ic[r.old].inum
      /\ r.dp # 0 => jc[r.dp].inum = ic[r.dp].inum
      /\ r.x # 0 => jc[r.x].inum = ic[r.x].inum
  BY DEF Kinds
<1>2. r.pc = "cr_fill" => r.ip # 0
  BY DEF Shape, at, Iputs, HasIp
<1>3. at(r) = "ul_drop" => r.ip # 0
  BY DEF Shape, HasIp
<1> QED BY <1>1, <1>2, <1>3 DEF resv, owed

\* The step of a process p that keeps the promises below keeps the invariant, but
\* for the disk: pointers are counted, an entry in use keeps its inode and a new one
\* is not there yet, locks are p's, what others have locked or reserved stays, an
\* inode others point to is not freed, and p does not come by what they reserved.
Careful(p, t0) ==
  /\ TypeInv'
  /\ \A q \in Procs : q # p => proc'[q] = proc[q]
  /\ \A s \in Slots : icache'[s].ref = icache[s].ref + Count(proc'[p], s) - Count(proc[p], s)
  /\ \A s \in Slots : icache[s].ref > 0 => icache'[s].inum = icache[s].inum
  /\ \A s \in Slots : icache[s].ref = 0 /\ icache'[s].ref > 0 =>
       s = t0 /\ \A t \in Slots : icache[t].ref > 0 => icache[t].inum # icache'[s].inum
  /\ \A s \in Slots : icache'[s].lock = p <=> Locks(proc'[p], s)
  /\ \A s \in Slots, q \in Procs : q # p => (icache'[s].lock = q <=> icache[s].lock = q)
  /\ \A s \in Slots, q \in Procs : q # p /\ icache[s].lock = q =>
       /\ icache'[s].valid = icache[s].valid
       /\ disk.ino[icache[s].inum].type # "none" =>
            /\ disk'.ino[icache[s].inum] = disk.ino[icache[s].inum]
            /\ \A a \in AllNames : Ent(disk', icache[s].inum, a) = Ent(disk, icache[s].inum, a)
  /\ \A s \in Slots : icache'[s].ref > 0 /\ icache'[s].valid =>
       \/ icache'[s].di = disk'.ino[icache'[s].inum] /\ icache'[s].di.type # "none"
       \/ \E q \in Procs : proc'[q].pc = "iput_valid" /\ proc'[q].x = s
  /\ \A s \in Slots : icache[s].ref > 0 /\ Count(proc'[p], s) > Count(proc[p], s) =>
       \/ Count(proc[p], s) > 0
       \/ disk.ino[icache[s].inum].nlink >= 1
       \/ icache[s].inum = resv(proc[p], icache)
  /\ \A s \in Slots : icache[s].ref > Count(proc[p], s) /\ disk.ino[icache[s].inum].type # "none" =>
       disk'.ino[icache[s].inum].type = disk.ino[icache[s].inum].type
  /\ \A q \in Procs : q # p /\ resv(proc[q], icache) # 0 =>
       disk'.ino[resv(proc[q], icache)] = disk.ino[resv(proc[q], icache)]
  /\ \/ resv(proc'[p], icache') = 0
     \/ resv(proc'[p], icache') = resv(proc[p], icache)
     \/ disk.ino[resv(proc'[p], icache')].type = "none"
  /\ \A k \in Kinds : proc'[p][k] # 0 /\ ~Dying(proc'[p], k) =>
       /\ \A q \in Procs : q # p => resv(proc[q], icache) # icache'[proc'[p][k]].inum
       /\ k # "ip" => resv(proc'[p], icache') # icache'[proc'[p][k]].inum
  /\ Local(proc'[p], icache', disk')

\* Such a step keeps the invariant but for the disk.
LEMMA StepOk ==
  ASSUME InodeInv, NEW p \in Procs, NEW t0, Careful(p, t0)
  PROVE  /\ \A q \in Procs : Local(proc'[q], icache', disk')
         /\ RefInv' /\ UniqInv' /\ LockInv' /\ AgreeInv' /\ ReserveInv'
         /\ \A q \in Procs : q # p =>
              resv(proc'[q], icache') = resv(proc[q], icache) /\ owed(proc'[q], icache') = owed(proc[q], icache)
<1> SUFFICES ASSUME TypeInv',
                  \A q \in Procs : q # p => proc'[q] = proc[q],
                  \A s \in Slots : icache'[s].ref = icache[s].ref + Count(proc'[p], s) - Count(proc[p], s),
                  \A s \in Slots : icache[s].ref > 0 => icache'[s].inum = icache[s].inum,
                  \A s \in Slots : icache[s].ref = 0 /\ icache'[s].ref > 0 =>
                    s = t0 /\ \A t \in Slots : icache[t].ref > 0 => icache[t].inum # icache'[s].inum,
                  \A s \in Slots : icache'[s].lock = p <=> Locks(proc'[p], s),
                  \A s \in Slots, q \in Procs : q # p => (icache'[s].lock = q <=> icache[s].lock = q),
                  \A s \in Slots, q \in Procs : q # p /\ icache[s].lock = q =>
                    /\ icache'[s].valid = icache[s].valid
                    /\ disk.ino[icache[s].inum].type # "none" =>
                         /\ disk'.ino[icache[s].inum] = disk.ino[icache[s].inum]
                         /\ \A a \in AllNames : Ent(disk', icache[s].inum, a) = Ent(disk, icache[s].inum, a),
                  \A s \in Slots : icache'[s].ref > 0 /\ icache'[s].valid =>
                    \/ icache'[s].di = disk'.ino[icache'[s].inum] /\ icache'[s].di.type # "none"
                    \/ \E q \in Procs : proc'[q].pc = "iput_valid" /\ proc'[q].x = s,
                  \A s \in Slots : icache[s].ref > 0 /\ Count(proc'[p], s) > Count(proc[p], s) =>
                    \/ Count(proc[p], s) > 0
                    \/ disk.ino[icache[s].inum].nlink >= 1
                    \/ icache[s].inum = resv(proc[p], icache),
                  \A s \in Slots : icache[s].ref > Count(proc[p], s) /\ disk.ino[icache[s].inum].type # "none" =>
                    disk'.ino[icache[s].inum].type = disk.ino[icache[s].inum].type,
                  \A q \in Procs : q # p /\ resv(proc[q], icache) # 0 =>
                    disk'.ino[resv(proc[q], icache)] = disk.ino[resv(proc[q], icache)],
                  \/ resv(proc'[p], icache') = 0
                  \/ resv(proc'[p], icache') = resv(proc[p], icache)
                  \/ disk.ino[resv(proc'[p], icache')].type = "none",
                  \A k \in Kinds : proc'[p][k] # 0 /\ ~Dying(proc'[p], k) =>
                    /\ \A q \in Procs : q # p => resv(proc[q], icache) # icache'[proc'[p][k]].inum
                    /\ k # "ip" => resv(proc'[p], icache') # icache'[proc'[p][k]].inum,
                  Local(proc'[p], icache', disk')
             PROVE  /\ \A q \in Procs : Local(proc'[q], icache', disk')
                    /\ RefInv' /\ UniqInv' /\ LockInv' /\ AgreeInv' /\ ReserveInv'
                    /\ \A q \in Procs : q # p =>
                         resv(proc'[q], icache') = resv(proc[q], icache) /\ owed(proc'[q], icache') = owed(proc[q], icache)
  BY DEF Careful
<1>0. /\ proc \in [Procs -> Records] /\ proc' \in [Procs -> Records]
      /\ icache \in [Slots -> Entries] /\ icache' \in [Slots -> Entries]
      /\ \A q \in Procs : Local(proc[q], icache, disk)
      /\ DiskInv(disk, Reserved, Owed)
  BY DEF InodeInv, TypeInv
<1>a. \A s \in Slots : icache[s].ref \in Nat /\ icache'[s].ref \in Nat /\ icache[s].inum \in Inums /\ icache'[s].inum \in Inums
  BY <1>0 DEF Entries
<1>b. \A q \in Procs : q # p => Shape(proc[q]) /\ proc[q] \in Records
  BY <1>0 DEF Local
<1>c. \A s \in Slots : Count(proc[p], s) \in Nat /\ Count(proc'[p], s) \in Nat /\ icache[s].ref >= Count(proc[p], s)
  BY PtrFacts, OfKinds
<1>d. \A q \in Procs, k \in Kinds : q # p /\ proc[q][k] # 0 =>
        /\ proc[q][k] \in Slots /\ icache[proc[q][k]].ref > Count(proc[p], proc[q][k])
        /\ icache[proc[q][k]].ref > 0 /\ icache'[proc[q][k]].ref > 0
        /\ icache'[proc[q][k]].inum = icache[proc[q][k]].inum
  <2> SUFFICES ASSUME NEW q \in Procs, NEW k \in Kinds, q # p, proc[q][k] # 0
               PROVE  /\ proc[q][k] \in Slots /\ icache[proc[q][k]].ref > Count(proc[p], proc[q][k])
                      /\ icache[proc[q][k]].ref > 0 /\ icache'[proc[q][k]].ref > 0
                      /\ icache'[proc[q][k]].inum = icache[proc[q][k]].inum
    OBVIOUS
  <2>1. proc[q][k] \in Slots /\ icache[proc[q][k]].ref > Count(proc[p], proc[q][k])
    BY PtrFacts
  <2> DEFINE s == proc[q][k]
  <2>2. s \in Slots /\ icache[s].ref > Count(proc[p], s)
    BY <2>1
  <2> HIDE DEF s
  <2>3. icache[s].ref > 0 /\ icache'[s].ref > 0
    BY <1>a, <1>c, <2>2
  <2>4. icache'[s].inum = icache[s].inum
    BY <2>2, <2>3
  <2> QED BY <2>2, <2>3, <2>4 DEF s
<1>e. \A q \in Procs : q # p =>
        resv(proc'[q], icache') = resv(proc[q], icache) /\ owed(proc'[q], icache') = owed(proc[q], icache)
  <2>1. ASSUME NEW q \in Procs, q # p
        PROVE  resv(proc[q], icache') = resv(proc[q], icache) /\ owed(proc[q], icache') = owed(proc[q], icache)
    <3>1. \A k \in Kinds : proc[q][k] # 0 => icache'[proc[q][k]].inum = icache[proc[q][k]].inum
      BY <1>d, <2>1
    <3>2. Shape(proc[q]) /\ proc[q] \in Records
      BY <1>b, <2>1
    <3> QED BY ONLY <3>1, <3>2, SamePtrs
  <2> QED BY <2>1
<1>1. RefInv'
  <2>1. ASSUME NEW s \in Slots PROVE icache'[s].ref = Cardinality(PtrSet(proc', s))
    <3>1. icache[s].ref = Cardinality(PtrSet(proc, s))
      BY DEF InodeInv, RefInv, Pointers, PtrSet, Kinds
    <3>2. Cardinality(PtrSet(proc', s)) = Cardinality(PtrSet(proc, s)) + Count(proc'[p], s) - Count(proc[p], s)
      BY Counted
    <3> QED BY <3>1, <3>2
  <2> QED BY <2>1 DEF RefInv, Pointers, PtrSet, Kinds
<1>2. UniqInv'
  <2> SUFFICES ASSUME NEW s \in Slots, NEW t \in Slots, icache'[s].ref > 0, icache'[t].ref > 0,
                      icache'[s].inum = icache'[t].inum
               PROVE  s = t
    BY DEF UniqInv
  <2>1. CASE icache[s].ref > 0 /\ icache[t].ref > 0
    BY <2>1 DEF InodeInv, UniqInv
  <2>2. CASE icache[s].ref > 0 /\ icache[t].ref = 0
    BY <2>2
  <2>3. CASE icache[s].ref = 0 /\ icache[t].ref > 0
    BY <2>3
  <2>4. CASE icache[s].ref = 0 /\ icache[t].ref = 0
    BY <2>4
  <2> QED BY <1>a, <2>1, <2>2, <2>3, <2>4
<1>3. LockInv'
  <2> SUFFICES ASSUME NEW s \in Slots, NEW q \in Procs PROVE icache'[s].lock = q <=> Locks(proc'[q], s)
    BY DEF LockInv
  <2>1. icache[s].lock = q <=> Locks(proc[q], s)
    BY DEF InodeInv, LockInv
  <2> QED BY <2>1
<1>4. AgreeInv'
  BY DEF AgreeInv
<1>5. ReserveInv'
  <2>1. ASSUME NEW o \in Procs, NEW q \in Procs, resv(proc'[o], icache') # 0,
               resv(proc'[o], icache') = resv(proc'[q], icache'), o # q
        PROVE  FALSE
    <3>1. CASE o # p /\ q # p
      BY <1>e, <2>1, <3>1 DEF InodeInv, ReserveInv
    <3>2. ASSUME NEW l \in Procs, l # p, resv(proc'[p], icache') = resv(proc[l], icache), resv(proc[l], icache) # 0 PROVE FALSE
      <4>1. CASE resv(proc'[p], icache') = resv(proc[p], icache)
        <5>1. \A i, j \in Procs : resv(proc[i], icache) # 0 /\ resv(proc[i], icache) = resv(proc[j], icache) => i = j
          BY DEF InodeInv, ReserveInv
        <5>2. resv(proc[p], icache) = resv(proc[l], icache) /\ resv(proc[p], icache) # 0
          BY <3>2, <4>1
        <5> QED BY ONLY <3>2, <5>1, <5>2, p \in Procs
      <4>2. CASE disk.ino[resv(proc'[p], icache')].type = "none"
        <5>1. Local(proc[l], icache, disk)
          BY <1>0
        <5>2. proc[l].pc \in {"cr_iget", "cr_fill"}
          BY <3>2, Zenon DEF resv
        <5>3. disk.ino[resv(proc[l], icache)] = Fresh(proc[l].call)
          BY <5>1, <5>2 DEF Local
        <5>4. Fresh(proc[l].call).type # "none"
          BY DEF Fresh, Free
        <5> QED BY <3>2, <4>2, <5>3, <5>4
      <4> QED BY <3>2, <4>1, <4>2
    <3> QED BY <1>e, <2>1, <3>1, <3>2
  <2>2. ASSUME NEW o \in Procs, NEW q \in Procs, NEW k \in Kinds, proc'[o][k] # 0,
               resv(proc'[q], icache') = icache'[proc'[o][k]].inum
        PROVE  Dying(proc'[o], k) \/ (o = q /\ k = "ip")
    <3>1. CASE o = p /\ q = p
      BY <2>2, <3>1
    <3>2. CASE o = p /\ q # p
      BY <1>e, <2>2, <3>2
    <3>3. CASE o # p /\ q # p
      BY <1>d, <1>e, <2>2, <3>3 DEF InodeInv, ReserveInv
    <3>4. CASE o # p /\ q = p
      <4>0. proc'[o] = proc[o] /\ proc[o][k] \in Slots /\ icache'[proc[o][k]].inum = icache[proc[o][k]].inum
            /\ icache[proc[o][k]].inum \in Inums /\ icache[proc[o][k]].inum # 0
        BY <1>a, <1>d, <2>2, <3>4, Basics
      <4>1. CASE resv(proc'[p], icache') = resv(proc[p], icache)
        BY <2>2, <3>4, <4>0, <4>1 DEF InodeInv, ReserveInv
      <4>2. CASE disk.ino[resv(proc'[p], icache')].type = "none"
        <5>1. Local(proc[o], icache, disk)
          BY <1>0
        <5>2. disk.ino[icache[proc[o][k]].inum].type = "none"
          BY <2>2, <3>4, <4>0, <4>2
        <5>3. Dying(proc[o], k)
          <6>1. \A j \in Kinds : proc[o][j] # 0 /\ ~Dying(proc[o], j) => disk.ino[icache[proc[o][j]].inum].type # "none"
            BY <5>1 DEF Local
          <6>2. proc[o][k] # 0
            BY <2>2, <4>0
          <6> QED BY <5>2, <6>1, <6>2
        <5> QED BY <4>0, <5>3
      <4>3. CASE resv(proc'[p], icache') = 0
        BY <2>2, <3>4, <4>0, <4>3
      <4> QED BY <4>1, <4>2, <4>3
    <3> QED BY <3>1, <3>2, <3>3, <3>4
  <2> QED BY <2>1, <2>2 DEF ReserveInv
<1>6. ASSUME NEW q \in Procs, q # p PROVE Local(proc[q], icache', disk')
  <2> DEFINE r == proc[q]
  <2>0. Local(r, icache, disk) /\ r \in Records /\ Shape(r) /\ PathOk(r)
    BY <1>0 DEF Local
  <2>a. \A k \in Kinds : r[k] # 0 =>
          /\ r[k] \in Slots /\ icache[r[k]].ref > Count(proc[p], r[k])
          /\ icache[r[k]].ref > 0 /\ icache'[r[k]].ref > 0
          /\ icache'[r[k]].inum = icache[r[k]].inum
    BY <1>6, <1>d
  <2>b. \A s \in Slots : Locks(r, s) => icache[s].lock = q
    BY DEF InodeInv, LockInv
  <2>c. \A s \in Slots : Locks(r, s) =>
           /\ icache'[s].valid = icache[s].valid
           /\ disk.ino[icache[s].inum].type # "none" =>
                /\ disk'.ino[icache[s].inum] = disk.ino[icache[s].inum]
                /\ \A a \in AllNames : Ent(disk', icache[s].inum, a) = Ent(disk, icache[s].inum, a)
    BY <1>6, <2>b
  <2>d. resv(r, icache') = resv(r, icache)
    BY <1>6, <1>e
  <2>e. \A k \in Kinds : r[k] # 0 /\ disk.ino[icache[r[k]].inum].type # "none" =>
           disk'.ino[icache[r[k]].inum].type = disk.ino[icache[r[k]].inum].type
    BY <2>a
  <2>f. r.pc = "iput_free" => icache'[r.x].ref = 1
    <3> SUFFICES ASSUME r.pc = "iput_free" PROVE icache'[r.x].ref = 1
      OBVIOUS
    <3>1. r.x # 0
      BY <2>0 DEF Shape, Iputs
    <3>2. \A k \in Kinds : k = "x" => r[k] # 0
      BY <3>1
    <3>3. \A k \in Kinds : k = "x" =>
           /\ r[k] \in Slots /\ icache[r[k]].ref > Count(proc[p], r[k]) /\ icache[r[k]].ref > 0
      BY <2>a, <3>2
    <3>4. r.x \in Slots /\ icache[r.x].ref > Count(proc[p], r.x) /\ icache[r.x].ref > 0
      BY <3>3 DEF Kinds
    <3>5. icache[r.x].ref = 1 /\ disk.ino[icache[r.x].inum].nlink = 0
      BY <2>0 DEF Local
    <3>6. \A k \in Kinds : k = "x" => Dying(r, k) = FALSE
      BY DEF Dying
    <3>7. resv(proc[p], icache) # icache[r.x].inum
      <4>1. \A k \in Kinds : k = "x" => resv(proc[p], icache) # icache[r[k]].inum
        BY <1>6, <3>2, <3>6 DEF InodeInv, ReserveInv
      <4> QED BY <4>1 DEF Kinds
    <3> DEFINE s == r.x
    <3>8. s \in Slots /\ icache[s].ref = 1 /\ Count(proc[p], s) = 0 /\ disk.ino[icache[s].inum].nlink = 0
          /\ icache[s].inum # resv(proc[p], icache)
      BY <1>c, <3>4, <3>5, <3>7
    <3> HIDE DEF s, r
    <3>9. ~(Count(proc'[p], s) > Count(proc[p], s))
      BY <3>8
    <3>10. Count(proc'[p], s) = 0
      BY <1>c, <3>8, <3>9
    <3>11. icache'[s].ref = 1
      BY <3>8, <3>10
    <3> QED BY <3>11 DEF s
  <2>g. \A k \in Kinds : r[k] # 0 /\ ~Dying(r, k) => disk'.ino[icache'[r[k]].inum].type # "none"
    <3>1. \A k \in Kinds : r[k] # 0 /\ ~Dying(r, k) => disk.ino[icache[r[k]].inum].type # "none"
      BY <2>0 DEF Local
    <3> HIDE DEF r
    <3> QED BY <2>a, <2>e, <3>1
  <2>h. \A s \in Slots : Locks(r, s) => icache'[s].valid
    BY <2>0, <2>c DEF Local
  <2>i. /\ r.dp # 0 => /\ r.dp \in Slots /\ icache'[r.dp].inum = icache[r.dp].inum
                       /\ disk.ino[icache[r.dp].inum].type # "none" =>
                            disk'.ino[icache[r.dp].inum].type = disk.ino[icache[r.dp].inum].type
        /\ r.ip # 0 => /\ r.ip \in Slots /\ icache'[r.ip].inum = icache[r.ip].inum
        /\ r.old # 0 => /\ icache'[r.old].inum = icache[r.old].inum
                        /\ disk.ino[icache[r.old].inum].type # "none" =>
                             disk'.ino[icache[r.old].inum].type = disk.ino[icache[r.old].inum].type
        /\ r.x # 0 => r.x \in Slots /\ icache'[r.x].inum = icache[r.x].inum
    <3> HIDE DEF r
    <3> QED BY <2>a, <2>e DEF Kinds
  <2>j. r.dp # 0 => disk'.ino[icache'[r.dp].inum].type = "dir"
    BY <2>0, <2>i, Zenon DEF Local
  <2>k. r.old # 0 => disk'.ino[icache'[r.old].inum].type = "file"
    BY <2>0, <2>i, Zenon DEF Local
  <2>l. r.pc \in {"cr_ialloc", "cr_iget", "cr_fill", "ul_entry"} =>
          /\ r.dp # 0 /\ Locks(r, r.dp) /\ Head(r.path) \in AllNames
          /\ r.pc = "ul_entry" => r.ip # 0
    <3>1. r.pc \in {"cr_ialloc", "cr_iget", "cr_fill", "ul_entry"} => r.dp # 0 /\ at(r) = r.pc
      BY <2>0 DEF Shape, HasDp, at, Iputs
    <3>2. r.dp # 0 => Head(r.path) \in AllNames
      BY <2>0 DEF Shape, Records
    <3>3. r.pc = "ul_entry" => r.ip # 0
      BY <2>0, <3>1 DEF Shape, HasIp
    <3> QED BY <3>1, <3>2, <3>3 DEF Locks, HoldsDp
  <2>m. r.pc \in {"cr_ialloc", "cr_iget", "cr_fill", "ul_entry"} =>
          Ent(disk', icache'[r.dp].inum, Head(r.path)) = Ent(disk, icache[r.dp].inum, Head(r.path))
    <3> HIDE DEF r
    <3> SUFFICES ASSUME r.pc \in {"cr_ialloc", "cr_iget", "cr_fill", "ul_entry"}
                 PROVE  Ent(disk', icache'[r.dp].inum, Head(r.path)) = Ent(disk, icache[r.dp].inum, Head(r.path))
      OBVIOUS
    <3>1. r.dp \in Slots /\ Locks(r, r.dp) /\ Head(r.path) \in AllNames /\ icache'[r.dp].inum = icache[r.dp].inum
      BY <2>i, <2>l
    <3>3. disk.ino[icache[r.dp].inum].type = "dir"
      BY <2>0, <2>l DEF Local
    <3>2. \A a \in AllNames : Ent(disk', icache[r.dp].inum, a) = Ent(disk, icache[r.dp].inum, a)
      BY <2>c, <3>1, <3>3
    <3> QED BY <3>1, <3>2
  <2>n. r.pc = "iput_free" => disk'.ino[icache'[r.x].inum].nlink = 0
    <3>1. r.pc = "iput_free" => r.x # 0 /\ Locks(r, r.x)
      BY <2>0 DEF Shape, Iputs, Locks
    <3>2. r.pc = "iput_free" => disk.ino[icache[r.x].inum].nlink = 0
      BY <2>0 DEF Local
    <3>3. r.pc = "iput_free" => disk.ino[icache[r.x].inum].type # "none"
      <4>1. \A k \in Kinds : r[k] # 0 /\ ~Dying(r, k) => disk.ino[icache[r[k]].inum].type # "none"
        BY <2>0 DEF Local
      <4>2. r.pc = "iput_free" => ~Dying(r, "x")
        BY DEF Dying
      <4> HIDE DEF r
      <4> QED BY <3>1, <4>1, <4>2 DEF Kinds
    <3> HIDE DEF r
    <3> QED BY <2>c, <2>i, <3>1, <3>2, <3>3
  <2>o. r.pc \in {"cr_iget", "cr_fill"} => disk'.ino[resv(r, icache')] = Fresh(r.call)
    <3>1. r.pc = "cr_iget" => r.ino \in Inums
      BY <2>0 DEF Shape, Records
    <3>2. r.pc = "cr_fill" => r.ip # 0
      BY <2>0 DEF Shape, at, Iputs, HasIp
    <3>3. r.pc \in {"cr_iget", "cr_fill"} => resv(r, icache) # 0
      BY <1>a, <2>i, <3>1, <3>2, Basics, Zenon DEF resv
    <3>4. r.pc \in {"cr_iget", "cr_fill"} => disk.ino[resv(r, icache)] = Fresh(r.call)
      BY <2>0 DEF Local
    <3>5. resv(r, icache) # 0 => disk'.ino[resv(r, icache)] = disk.ino[resv(r, icache)]
      BY <1>6
    <3> HIDE DEF r
    <3> QED BY <2>d, <3>3, <3>4, <3>5
  <2>p. /\ r.pc \in {"cr_ialloc", "cr_iget", "cr_fill"} => Ent(disk', icache'[r.dp].inum, Head(r.path)) = 0
        /\ r.pc = "ul_entry" => /\ Ent(disk', icache'[r.dp].inum, Head(r.path)) = icache'[r.ip].inum
                                /\ Head(r.path) \in Names
    BY <2>0, <2>i, <2>l, <2>m DEF Local
  <2> QED BY <2>0, <2>f, <2>g, <2>h, <2>j, <2>k, <2>n, <2>o, <2>p, Zenon DEF Local
<1> QED BY <1>1, <1>2, <1>3, <1>4, <1>5, <1>6, <1>e

\* The reserved inodes and the owed links change with those of the process.
LEMMA Debts ==
  ASSUME NEW p \in Procs,
         \A q \in Procs : q # p =>
           resv(proc'[q], icache') = resv(proc[q], icache) /\ owed(proc'[q], icache') = owed(proc[q], icache)
  PROVE  /\ Reserved \in SUBSET Inums /\ Reserved' \in SUBSET Inums
         /\ Owed \in [Inums -> Nat] /\ Owed' \in [Inums -> Nat]
         /\ \A n \in Inums : Owed'[n] = Owed[n] + One(owed(proc'[p], icache'), n) - One(owed(proc[p], icache), n)
         /\ resv(proc'[p], icache') = resv(proc[p], icache) => Reserved' = Reserved
         /\ owed(proc'[p], icache') = owed(proc[p], icache) => Owed' = Owed
<1>1. Reserved \in SUBSET Inums /\ Reserved' \in SUBSET Inums
  BY DEF Reserved
<1> DEFINE f == [q \in Procs |-> owed(proc[q], icache)]
           g == [q \in Procs |-> owed(proc'[q], icache')]
<1>2. \A n \in Inums : Owed[n] = Cardinality(OwedSet(f, n))
  <2> SUFFICES ASSUME NEW n \in Inums PROVE Owed[n] = Cardinality(OwedSet(f, n))
    OBVIOUS
  <2>1. {q \in Procs : owed(proc[q], icache) = n} = OwedSet(f, n)
    BY DEF OwedSet
  <2> QED BY <2>1 DEF Owed
<1>3. \A n \in Inums : Owed'[n] = Cardinality(OwedSet(g, n))
  <2> SUFFICES ASSUME NEW n \in Inums PROVE Owed'[n] = Cardinality(OwedSet(g, n))
    OBVIOUS
  <2>1. {q \in Procs : owed(proc'[q], icache') = n} = OwedSet(g, n)
    BY DEF OwedSet
  <2> QED BY <2>1 DEF Owed
<1>4. \A q \in Procs : q # p => g[q] = f[q]
  OBVIOUS
<1>5. f[p] = owed(proc[p], icache) /\ g[p] = owed(proc'[p], icache')
  OBVIOUS
<1>d. DOMAIN Owed = Inums /\ DOMAIN Owed' = Inums /\ Owed = [n \in Inums |-> Owed[n]] /\ Owed' = [n \in Inums |-> Owed'[n]]
  BY DEF Owed
<1> HIDE DEF f, g
<1>6. \A n \in Inums : /\ Cardinality(OwedSet(f, n)) \in Nat /\ Cardinality(OwedSet(g, n)) \in Nat
                       /\ Cardinality(OwedSet(g, n)) = Cardinality(OwedSet(f, n)) + One(g[p], n) - One(f[p], n)
  BY <1>4, OwedCounted
<1>7. /\ \A n \in Inums : Owed[n] \in Nat /\ Owed'[n] \in Nat
      /\ \A n \in Inums : Owed'[n] = Owed[n] + One(owed(proc'[p], icache'), n) - One(owed(proc[p], icache), n)
  BY <1>2, <1>3, <1>5, <1>6
<1>8. Owed \in [Inums -> Nat] /\ Owed' \in [Inums -> Nat]
  BY <1>7, <1>d
<1>9. ASSUME resv(proc'[p], icache') = resv(proc[p], icache) PROVE Reserved' = Reserved
  <2>1. \A q \in Procs : resv(proc'[q], icache') = resv(proc[q], icache)
    BY <1>9
  <2> QED BY <2>1 DEF Reserved
<1>10. ASSUME owed(proc'[p], icache') = owed(proc[p], icache) PROVE Owed' = Owed
  <2>1. \A q \in Procs : owed(proc'[q], icache') = owed(proc[q], icache)
    BY <1>10
  <2> QED BY <2>1 DEF Owed
<1> QED BY <1>1, <1>7, <1>8, <1>9, <1>10

\* The pointers of r that keep their inode, ip apart.
Sees(r) == {r.fd, r.cwd, r.dp, r.old} \union IF r.pc \in {"iput_valid", "iput_ref"} THEN {} ELSE {r.x}

\* The pointers of record m are those of r, or to entry t if c is not cache i; one to
\* what r's ip was may be elsewhere only if nothing is reserved.
Stays(r, m, c, i, t, none) ==
  /\ \A s \in Sees(m) : s # 0 => s \in Sees(r) \/ (none = 0 /\ (s = r.ip \/ (c # i /\ s = t)))
  /\ m.ip # 0 => m.ip \in Sees(r) \/ m.ip = r.ip \/ (c # i /\ m.ip = t)

\* The same, by the kinds of the pointers.
LEMMA Sources ==
  ASSUME NEW r, NEW m, NEW c, NEW i, NEW t, NEW none, Stays(r, m, c, i, t, none)
  PROVE  \A k \in Kinds : m[k] # 0 /\ ~Dying(m, k) =>
           \/ \E j \in Kinds : /\ r[j] = m[k] /\ ~Dying(r, j)
                               /\ k # "ip" => j # "ip" \/ none = 0
           \/ c # i /\ m[k] = t /\ (k # "ip" => none = 0)
<1>0. /\ \A s \in Sees(m) : s # 0 => s \in Sees(r) \/ (none = 0 /\ (s = r.ip \/ (c # i /\ s = t)))
      /\ m.ip # 0 => m.ip \in Sees(r) \/ m.ip = r.ip \/ (c # i /\ m.ip = t)
  BY DEF Stays
<1>1. \A s : s \in Sees(r) => \E j \in Kinds : r[j] = s /\ ~Dying(r, j) /\ j # "ip"
  <2> SUFFICES ASSUME NEW s, s \in Sees(r) PROVE \E j \in Kinds : r[j] = s /\ ~Dying(r, j) /\ j # "ip"
    OBVIOUS
  <2>0. "fd" \in Kinds /\ "cwd" \in Kinds /\ "dp" \in Kinds /\ "old" \in Kinds /\ "x" \in Kinds
    BY DEF Kinds
  <2>1. CASE s = r.fd
    BY <2>0, <2>1 DEF Dying
  <2>2. CASE s = r.cwd
    BY <2>0, <2>2 DEF Dying
  <2>3. CASE s = r.dp
    BY <2>0, <2>3 DEF Dying
  <2>4. CASE s = r.old
    BY <2>0, <2>4 DEF Dying
  <2>5. CASE s = r.x /\ r.pc \notin {"iput_valid", "iput_ref"}
    BY <2>0, <2>5 DEF Dying
  <2> QED BY <2>1, <2>2, <2>3, <2>4, <2>5 DEF Sees
<1>2. \E j \in Kinds : r[j] = r.ip /\ ~Dying(r, j)
  <2>0. "ip" \in Kinds
    BY DEF Kinds
  <2> QED BY <2>0 DEF Dying
<1>3. ASSUME NEW k \in Kinds, ~Dying(m, k), k # "ip" PROVE m[k] \in Sees(m)
  BY <1>3 DEF Kinds, Sees, Dying
<1>4. \A k \in Kinds : k = "ip" => m[k] = m.ip
  OBVIOUS
<1> SUFFICES ASSUME NEW k \in Kinds, m[k] # 0, ~Dying(m, k)
             PROVE  \/ \E j \in Kinds : /\ r[j] = m[k] /\ ~Dying(r, j)
                                        /\ k # "ip" => j # "ip" \/ none = 0
                    \/ c # i /\ m[k] = t /\ (k # "ip" => none = 0)
  OBVIOUS
<1>5. CASE k = "ip"
  <2>1. m[k] \in Sees(r) \/ m[k] = r.ip \/ (c # i /\ m[k] = t)
    BY <1>0, <1>4, <1>5
  <2> QED BY ONLY <1>1, <1>2, <1>5, <2>1
<1>6. CASE k # "ip"
  <2>1. m[k] \in Sees(r) \/ (none = 0 /\ (m[k] = r.ip \/ (c # i /\ m[k] = t)))
    BY <1>0, <1>3, <1>6
  <2> QED BY ONLY <1>1, <1>2, <1>6, <2>1
<1> QED BY <1>5, <1>6

\* Cache c is icache[] with a reference more to entry t, which has inode n: iget()
\* or idup().
Took(c, t, n) ==
  /\ t \in Slots /\ \A s \in Slots : s # t => c[s] = icache[s]
  /\ c[t].inum = n /\ c[t].ref = icache[t].ref + 1 /\ c[t].lock = icache[t].lock
  /\ \/ icache[t].ref > 0 /\ icache[t].inum = n /\ c[t].valid = icache[t].valid /\ c[t].di = icache[t].di
     \/ /\ icache[t].ref = 0 /\ c[t].valid = FALSE
        /\ \A s \in Slots : icache[s].ref > 0 => icache[s].inum # n

\* A step that does not change the disk: the pointers of p move, one may be to an
\* entry taken for inode n, and entries p points to and nobody else has locked may
\* be locked, unlocked, read or invalidated.
Moves(p, c, t, n) ==
  /\ TypeInv' /\ disk' = disk
  /\ DiskInv(durable', {}, NoneOwed)
  /\ \A q \in Procs : q # p => proc'[q] = proc[q]
  /\ \/ c = icache /\ \A s \in Slots : Count(proc'[p], s) = Count(proc[p], s)
     \/ /\ Took(c, t, n) /\ \A s \in Slots : Count(proc'[p], s) = Count(proc[p], s) + One(s, t)
        /\ n \in Inums /\ disk.ino[n].type # "none"
        /\ Count(proc[p], t) > 0 \/ disk.ino[n].nlink >= 1 \/ n = resv(proc[p], icache)
        /\ \A q \in Procs : q # p => resv(proc[q], icache) # n
  /\ \A s \in Slots : icache'[s].inum = c[s].inum /\ icache'[s].ref = c[s].ref
  /\ \A s \in Slots : \/ icache'[s].lock = c[s].lock /\ icache'[s].valid = c[s].valid
                      \/ Count(proc[p], s) > 0 /\ icache[s].lock \in {p, Nobody} /\ icache'[s].lock \in {p, Nobody}
  /\ \A s \in Slots : icache'[s].lock = p <=> Locks(proc'[p], s)
  /\ \A s \in Slots : icache'[s].ref > 0 /\ icache'[s].valid =>
       \/ /\ c[s].valid /\ icache'[s].di = c[s].di
          /\ ~(proc[p].pc = "iput_valid" /\ proc[p].x = s)
       \/ icache'[s].di = disk.ino[icache'[s].inum] /\ icache'[s].di.type # "none"
  /\ resv(proc'[p], icache') = resv(proc[p], icache)
  /\ owed(proc'[p], icache') = owed(proc[p], icache)
  /\ Stays(proc[p], proc'[p], c, icache, t, resv(proc'[p], icache'))
  /\ Shape(proc'[p]) /\ PathOk(proc'[p])
  /\ \A s \in Slots : Locks(proc'[p], s) => icache'[s].valid
  /\ proc'[p].dp # 0 => disk.ino[icache'[proc'[p].dp].inum].type = "dir"
  /\ proc'[p].old # 0 => disk.ino[icache'[proc'[p].old].inum].type = "file"
  /\ proc'[p].pc \in {"cr_ialloc", "cr_iget", "cr_fill"} =>
       Ent(disk, icache'[proc'[p].dp].inum, Head(proc'[p].path)) = 0
  /\ proc'[p].pc = "ul_entry" =>
       /\ Ent(disk, icache'[proc'[p].dp].inum, Head(proc'[p].path)) = icache'[proc'[p].ip].inum
       /\ Head(proc'[p].path) \in Names
  /\ proc'[p].pc = "iput_free" =>
       icache'[proc'[p].x].ref = 1 /\ disk.ino[icache'[proc'[p].x].inum].nlink = 0
  /\ proc'[p].pc \in {"cr_iget", "cr_fill"} =>
       disk.ino[resv(proc'[p], icache')] = Fresh(proc'[p].call)

\* Such a step keeps the invariant.
LEMMA MoveOk ==
  ASSUME InodeInv, NEW p \in Procs, NEW c, NEW t, NEW n, Moves(p, c, t, n)
  PROVE  InodeInv'
<1> USE DEF Moves
<1>00. Stays(proc[p], proc'[p], c, icache, t, resv(proc'[p], icache')) /\ disk' = disk /\ p \in Procs
       /\ resv(proc'[p], icache') = resv(proc[p], icache)
  OBVIOUS
<1>0. /\ proc \in [Procs -> Records] /\ icache \in [Slots -> Entries] /\ icache' \in [Slots -> Entries]
      /\ \A q \in Procs : Local(proc[q], icache, disk)
      /\ DiskInv(disk, Reserved, Owed) /\ proc' \in [Procs -> Records]
  BY DEF InodeInv, TypeInv
<1>9. \A k \in Kinds : proc'[p][k] # 0 /\ ~Dying(proc'[p], k) =>
        \/ \E j \in Kinds : /\ proc[p][j] = proc'[p][k] /\ ~Dying(proc[p], j)
                            /\ k # "ip" => j # "ip" \/ resv(proc'[p], icache') = 0
        \/ /\ c # icache /\ proc'[p][k] = t
           /\ k # "ip" => resv(proc'[p], icache') = 0
  BY <1>00, Sources
<1>a. \A s \in Slots : icache[s].ref \in Nat /\ icache'[s].ref \in Nat /\ icache[s].inum \in Inums /\ icache'[s].inum \in Inums
  BY <1>0 DEF Entries
<1>b. \A s \in Slots : Count(proc[p], s) \in Nat /\ Count(proc'[p], s) \in Nat /\ icache[s].ref >= Count(proc[p], s)
  BY PtrFacts, OfKinds
<1>c. /\ \A s \in Slots : icache'[s].ref = icache[s].ref + Count(proc'[p], s) - Count(proc[p], s)
      /\ \A s \in Slots : icache[s].ref > 0 => icache'[s].inum = icache[s].inum
      /\ \A s \in Slots : icache[s].ref = 0 /\ icache'[s].ref > 0 =>
           s = t /\ \A u \in Slots : icache[u].ref > 0 => icache[u].inum # icache'[s].inum
      /\ \A s \in Slots : icache[s].ref > 0 /\ Count(proc'[p], s) > Count(proc[p], s) =>
           \/ Count(proc[p], s) > 0
           \/ disk.ino[icache[s].inum].nlink >= 1
           \/ icache[s].inum = resv(proc[p], icache)
      /\ \A s \in Slots : c[s].lock = icache[s].lock
      /\ \A s \in Slots : icache[s].ref > 0 => c[s].valid = icache[s].valid /\ c[s].di = icache[s].di
  <2>1. CASE c = icache /\ \A s \in Slots : Count(proc'[p], s) = Count(proc[p], s)
    BY <1>a, <1>b, <2>1
  <2>2. CASE /\ Took(c, t, n) /\ \A s \in Slots : Count(proc'[p], s) = Count(proc[p], s) + One(s, t)
             /\ Count(proc[p], t) > 0 \/ disk.ino[n].nlink >= 1 \/ n = resv(proc[p], icache)
    <3>1. \A s \in Slots : s # t => c[s] = icache[s] /\ Count(proc'[p], s) = Count(proc[p], s)
      BY <1>b, <2>2 DEF One, Took
    <3>2. t \in Slots /\ Count(proc'[p], t) = Count(proc[p], t) + 1 /\ c[t].ref = icache[t].ref + 1 /\ c[t].inum = n
          /\ c[t].lock = icache[t].lock
      BY <2>2 DEF One, Took
    <3>3. ASSUME NEW s \in Slots
          PROVE  /\ icache'[s].ref = icache[s].ref + Count(proc'[p], s) - Count(proc[p], s)
                 /\ icache[s].ref > 0 => icache'[s].inum = icache[s].inum
                 /\ icache[s].ref = 0 /\ icache'[s].ref > 0 =>
                      s = t /\ \A u \in Slots : icache[u].ref > 0 => icache[u].inum # icache'[s].inum
                 /\ icache[s].ref > 0 /\ Count(proc'[p], s) > Count(proc[p], s) =>
                      \/ Count(proc[p], s) > 0
                      \/ disk.ino[icache[s].inum].nlink >= 1
                      \/ icache[s].inum = resv(proc[p], icache)
                 /\ c[s].lock = icache[s].lock
                 /\ icache[s].ref > 0 => c[s].valid = icache[s].valid /\ c[s].di = icache[s].di
      <4>0. /\ icache[s].ref \in Nat /\ Count(proc[p], s) \in Nat /\ Count(proc'[p], s) \in Nat
            /\ icache'[s].inum = c[s].inum /\ icache'[s].ref = c[s].ref
        BY <1>a, <1>b
      <4>1. CASE s # t
        BY ONLY <3>1, <4>0, <4>1, s \in Slots
      <4>2. CASE /\ s = t /\ icache[t].ref > 0 /\ icache[t].inum = n
                 /\ c[t].valid = icache[t].valid /\ c[t].di = icache[t].di
        BY ONLY <2>2, <3>2, <4>0, <4>2
      <4>3. CASE /\ s = t /\ icache[t].ref = 0
                 /\ \A u \in Slots : icache[u].ref > 0 => icache[u].inum # n
        BY ONLY <2>2, <3>2, <4>0, <4>3
      <4> QED BY <2>2, <4>1, <4>2, <4>3 DEF Took
    <3> QED BY <3>3
  <2> QED BY <2>1, <2>2
<1>d. Nobody \notin Procs
  BY InodeAssumption
<1>e. /\ \A s \in Slots, q \in Procs : q # p => (icache'[s].lock = q <=> icache[s].lock = q)
      /\ \A s \in Slots, q \in Procs : q # p /\ icache[s].lock = q => icache'[s].valid = icache[s].valid
  <2>1. \A s \in Slots, q \in Procs : icache[s].lock = q => icache[s].ref > 0
    <3> SUFFICES ASSUME NEW s \in Slots, NEW q \in Procs, icache[s].lock = q PROVE icache[s].ref > 0
      OBVIOUS
    <3>1. Locks(proc[q], s) /\ Shape(proc[q])
      BY <1>0, Zenon DEF InodeInv, LockInv, Local
    <3>2. PICK k \in Kinds : proc[q][k] = s /\ proc[q][k] # 0
      BY <3>1, LocksPtr
    <3>3. Count(proc[q], s) >= 1 /\ Count(proc[q], s) \in Nat
      BY <3>2, PtrCounted, OfKinds
    <3> QED BY <1>a, <3>3, PtrFacts
  <2> QED BY <1>c, <1>d, <2>1
<1>f. \A s \in Slots : icache'[s].ref > 0 /\ icache'[s].valid =>
           \/ icache'[s].di = disk'.ino[icache'[s].inum] /\ icache'[s].di.type # "none"
           \/ \E q \in Procs : proc'[q].pc = "iput_valid" /\ proc'[q].x = s
  <2> SUFFICES ASSUME NEW s \in Slots, icache'[s].ref > 0, icache'[s].valid,
                      c[s].valid, icache'[s].di = c[s].di, ~(proc[p].pc = "iput_valid" /\ proc[p].x = s)
               PROVE  \/ icache'[s].di = disk'.ino[icache'[s].inum] /\ icache'[s].di.type # "none"
                      \/ \E q \in Procs : proc'[q].pc = "iput_valid" /\ proc'[q].x = s
    OBVIOUS
  <2>1. icache[s].ref > 0 /\ icache[s].valid
    <3>1. CASE c = icache /\ \A u \in Slots : Count(proc'[p], u) = Count(proc[p], u)
      BY <1>a, <1>b, <1>c, <3>1
    <3>2. CASE Took(c, t, n)
      <4>1. s # t => c[s] = icache[s] /\ icache[s].ref > 0
        BY <3>2 DEF Took
      <4>2. s = t => icache[t].ref > 0
        BY <3>2 DEF Took
      <4> QED BY <1>c, <4>1, <4>2
    <3> QED BY <3>1, <3>2
  <2>2. c[s].di = icache[s].di /\ icache'[s].inum = icache[s].inum
    BY <1>c, <2>1
  <2>3. \/ icache[s].di = disk.ino[icache[s].inum] /\ icache[s].di.type # "none"
        \/ \E q \in Procs : proc[q].pc = "iput_valid" /\ proc[q].x = s
    BY <2>1 DEF InodeInv, AgreeInv
  <2> QED BY <2>2, <2>3
<1>g. \A k \in Kinds : proc'[p][k] # 0 /\ ~Dying(proc'[p], k) =>
           /\ disk'.ino[icache'[proc'[p][k]].inum].type # "none"
           /\ \A q \in Procs : q # p => resv(proc[q], icache) # icache'[proc'[p][k]].inum
           /\ k # "ip" => resv(proc'[p], icache') # icache'[proc'[p][k]].inum
  <2> SUFFICES ASSUME NEW k \in Kinds, proc'[p][k] # 0, ~Dying(proc'[p], k)
               PROVE  /\ disk'.ino[icache'[proc'[p][k]].inum].type # "none"
                      /\ \A q \in Procs : q # p => resv(proc[q], icache) # icache'[proc'[p][k]].inum
                      /\ k # "ip" => resv(proc'[p], icache') # icache'[proc'[p][k]].inum
    OBVIOUS
  <2>a. \/ \E j \in Kinds : /\ proc[p][j] = proc'[p][k] /\ ~Dying(proc[p], j)
                            /\ k # "ip" => j # "ip" \/ resv(proc'[p], icache') = 0
        \/ /\ c # icache /\ proc'[p][k] = t
           /\ k # "ip" => resv(proc'[p], icache') = 0
    BY ONLY <1>9, k \in Kinds, proc'[p][k] # 0, ~Dying(proc'[p], k)
  <2>0. \A s \in Slots : icache'[s].inum # 0
    BY <1>a, Basics
  <2>1. ASSUME NEW j \in Kinds, proc[p][j] = proc'[p][k], ~Dying(proc[p], j),
               k # "ip" => j # "ip" \/ resv(proc'[p], icache') = 0
        PROVE  /\ disk'.ino[icache'[proc'[p][k]].inum].type # "none"
               /\ \A q \in Procs : q # p => resv(proc[q], icache) # icache'[proc'[p][k]].inum
               /\ k # "ip" => resv(proc'[p], icache') # icache'[proc'[p][k]].inum
    <3>1. proc[p][j] # 0 /\ proc[p][j] \in Slots /\ Count(proc[p], proc[p][j]) >= 1
      BY <1>0, <2>1, RecordFacts
    <3>2. icache[proc[p][j]].ref > 0
      BY <1>a, <1>b, <3>1
    <3>3. icache'[proc'[p][k]].inum = icache[proc[p][j]].inum
      BY <1>c, <2>1, <3>1, <3>2
    <3>4. disk.ino[icache[proc[p][j]].inum].type # "none"
      <4>1. Local(proc[p], icache, disk)
        BY <1>0
      <4>2. \A i \in Kinds : proc[p][i] # 0 /\ ~Dying(proc[p], i) => disk.ino[icache[proc[p][i]].inum].type # "none"
        BY <4>1 DEF Local
      <4> QED BY <2>1, <3>1, <4>2
    <3>5. \A q \in Procs : resv(proc[q], icache) = icache[proc[p][j]].inum => p = q /\ j = "ip"
      BY <2>1, <3>1 DEF InodeInv, ReserveInv
    <3>6. disk'.ino[icache'[proc'[p][k]].inum].type # "none"
      BY ONLY <3>3, <3>4, <1>00
    <3>7. \A q \in Procs : q # p => resv(proc[q], icache) # icache'[proc'[p][k]].inum
      BY ONLY <3>3, <3>5
    <3>8. icache'[proc'[p][k]].inum # 0
      BY ONLY <2>0, <2>1, <3>1
    <3>9. k # "ip" => resv(proc'[p], icache') # icache'[proc'[p][k]].inum
      BY ONLY <2>1, <3>3, <3>5, <3>8, <1>00
    <3> QED BY <3>6, <3>7, <3>9
  <2>2. ASSUME c # icache, proc'[p][k] = t, k # "ip" => resv(proc'[p], icache') = 0
        PROVE  /\ disk'.ino[icache'[proc'[p][k]].inum].type # "none"
               /\ \A q \in Procs : q # p => resv(proc[q], icache) # icache'[proc'[p][k]].inum
               /\ k # "ip" => resv(proc'[p], icache') # icache'[proc'[p][k]].inum
    <3>1. t \in Slots /\ icache'[t].inum = n
      BY <2>2 DEF Took
    <3>2. /\ disk.ino[n].type # "none" /\ \A q \in Procs : q # p => resv(proc[q], icache) # n
      BY <2>2
    <3> QED BY ONLY <2>0, <2>2, <3>1, <3>2, <1>00
  <2> QED BY ONLY <2>1, <2>2, <2>a
<1>h. Local(proc'[p], icache', disk')
  BY <1>g DEF Local
<1>j. /\ \A s \in Slots, q \in Procs : q # p /\ icache[s].lock = q =>
           /\ icache'[s].valid = icache[s].valid
           /\ disk.ino[icache[s].inum].type # "none" =>
                /\ disk'.ino[icache[s].inum] = disk.ino[icache[s].inum]
                /\ \A a \in AllNames : Ent(disk', icache[s].inum, a) = Ent(disk, icache[s].inum, a)
  BY ONLY <1>e, <1>00
<1>m. /\ \A s \in Slots : icache[s].ref > Count(proc[p], s) /\ disk.ino[icache[s].inum].type # "none" =>
           disk'.ino[icache[s].inum].type = disk.ino[icache[s].inum].type
      /\ \A q \in Procs : q # p /\ resv(proc[q], icache) # 0 =>
           disk'.ino[resv(proc[q], icache)] = disk.ino[resv(proc[q], icache)]
  BY ONLY <1>00
<1>n. /\ \A k \in Kinds : proc'[p][k] # 0 /\ ~Dying(proc'[p], k) =>
           /\ \A q \in Procs : q # p => resv(proc[q], icache) # icache'[proc'[p][k]].inum
           /\ k # "ip" => resv(proc'[p], icache') # icache'[proc'[p][k]].inum
  BY ONLY <1>g
<1>o. \A q \in Procs : q # p => proc'[q] = proc[q]
  OBVIOUS
<1>p. \A s \in Slots : icache'[s].lock = p <=> Locks(proc'[p], s)
  OBVIOUS
<1>q. /\ InodeInv /\ TypeInv' /\ resv(proc'[p], icache') = resv(proc[p], icache) /\ p \in Procs
  OBVIOUS
<1>r. Careful(p, t)
  BY ONLY <1>c, <1>e, <1>f, <1>h, <1>j, <1>m, <1>n, <1>o, <1>p, <1>q DEF Careful
<1>k. /\ \A q \in Procs : Local(proc'[q], icache', disk')
      /\ RefInv' /\ UniqInv' /\ LockInv' /\ AgreeInv' /\ ReserveInv'
      /\ \A q \in Procs : q # p =>
           resv(proc'[q], icache') = resv(proc[q], icache) /\ owed(proc'[q], icache') = owed(proc[q], icache)
  BY ONLY <1>q, <1>r, StepOk
<1>l. Reserved' = Reserved /\ Owed' = Owed
  BY <1>k, Debts
<1> QED BY <1>0, <1>k, <1>l DEF InodeInv

\* The same for a process that creates nothing.
MovesPlainly(p, c, t, n) ==
  /\ icache' \in [Slots -> Entries] /\ proc' \in [Procs -> Records] /\ panicked' \in {"no", "full"}
  /\ disk' = disk /\ durable' = durable
  /\ \A q \in Procs : q # p => proc'[q] = proc[q]
  /\ proc[p].pc \notin {"cr_iget", "cr_fill"} /\ proc'[p].pc \notin {"cr_iget", "cr_fill"}
  /\ \/ c = icache /\ \A s \in Slots : Count(proc'[p], s) = Count(proc[p], s)
     \/ /\ Took(c, t, n) /\ c # icache /\ \A s \in Slots : Count(proc'[p], s) = Count(proc[p], s) + One(s, t)
        /\ n \in Inums /\ disk.ino[n].type # "none" /\ n \notin Reserved
        /\ Count(proc[p], t) > 0 \/ disk.ino[n].nlink >= 1
  /\ \A s \in Slots :
       \/ icache'[s] = c[s] /\ (Locks(proc'[p], s) <=> Locks(proc[p], s)) /\ ~(proc[p].pc = "iput_valid" /\ proc[p].x = s)
       \/ /\ Count(proc[p], s) > 0 /\ icache'[s].inum = c[s].inum /\ icache'[s].ref = c[s].ref
          /\ icache[s].lock \in {p, Nobody} /\ icache'[s].lock \in {p, Nobody}
          /\ icache'[s].lock = p <=> Locks(proc'[p], s)
          /\ icache'[s].valid => icache'[s].di = disk.ino[icache[s].inum] /\ icache'[s].di.type # "none"
          /\ Locks(proc'[p], s) => icache'[s].valid
  /\ owed(proc'[p], icache') = owed(proc[p], icache)
  /\ Stays(proc[p], proc'[p], c, icache, t, 0)
  /\ Shape(proc'[p]) /\ PathOk(proc'[p])
  /\ proc'[p].dp # 0 => proc'[p].dp = proc[p].dp \/ (proc'[p].dp = proc[p].ip /\ disk.ino[icache[proc[p].ip].inum].type = "dir")
  /\ proc'[p].old # 0 => proc'[p].old = proc[p].old
  /\ proc'[p].pc = "cr_ialloc" => Ent(disk, icache[proc'[p].dp].inum, Head(proc'[p].path)) = 0
  /\ proc'[p].pc = "ul_entry" =>
       /\ Ent(disk, icache[proc'[p].dp].inum, Head(proc'[p].path)) = icache'[proc'[p].ip].inum
       /\ Head(proc'[p].path) \in Names
  /\ proc'[p].pc = "iput_free" =>
       icache'[proc'[p].x].ref = 1 /\ disk.ino[icache'[proc'[p].x].inum].nlink = 0

\* Such a step keeps the invariant.
LEMMA PlainMove ==
  ASSUME InodeInv, NEW p \in Procs, NEW c, NEW t, NEW n, MovesPlainly(p, c, t, n)
  PROVE  InodeInv'
<1> USE DEF MovesPlainly
<1>0. /\ proc \in [Procs -> Records] /\ icache \in [Slots -> Entries] /\ Local(proc[p], icache, disk) /\ proc[p] \in Records
      /\ DiskInv(durable, {}, NoneOwed)
  BY DEF InodeInv, TypeInv
<1>a. \A s \in Slots : icache[s].ref \in Nat /\ Count(proc[p], s) \in Nat /\ icache[s].ref >= Count(proc[p], s)
  BY PtrFacts, OfKinds
<1>b. \A s \in Slots : icache'[s].inum = c[s].inum /\ icache'[s].ref = c[s].ref
  OBVIOUS
<1>c. \A s \in Slots : c[s].lock = icache[s].lock
  BY DEF Took
<1>d. \A s \in Slots : Count(proc[p], s) > 0 => c[s].inum = icache[s].inum /\ icache[s].ref > 0
  <2>1. CASE c = icache
    BY <1>a, <2>1
  <2>2. CASE Took(c, t, n)
    BY <1>a, <2>2 DEF Took
  <2> QED BY <2>1, <2>2
<1>e. \A s \in Slots : icache[s].lock = p <=> Locks(proc[p], s)
  BY DEF InodeInv, LockInv
<1>f. resv(proc[p], icache) = 0 /\ resv(proc'[p], icache') = 0
  BY DEF resv
<1>g. \A q \in Procs : resv(proc[q], icache) # 0 => resv(proc[q], icache) \in Inums
  <2> SUFFICES ASSUME NEW q \in Procs, resv(proc[q], icache) # 0 PROVE resv(proc[q], icache) \in Inums
    OBVIOUS
  <2>1. proc[q] \in Records /\ Shape(proc[q])
    BY DEF InodeInv, TypeInv, Local
  <2>2. proc[q].pc = "cr_fill" => proc[q].ip # 0
    BY <2>1 DEF Shape, at, Iputs, HasIp
  <2>3. proc[q].ip # 0 => icache[proc[q].ip].inum \in Inums
    BY <1>0, <2>1 DEF Records, Entries, Ptrs
  <2> QED BY <2>1, <2>2, <2>3 DEF resv, Records
<1>h. /\ proc[p].dp # 0 => proc[p].dp \in Slots /\ disk.ino[icache[proc[p].dp].inum].type = "dir"
      /\ proc[p].old # 0 => proc[p].old \in Slots /\ disk.ino[icache[proc[p].old].inum].type = "file"
      /\ proc[p].ip # 0 => proc[p].ip \in Slots
  BY <1>0 DEF Local, Records, Ptrs
<1>i. Count(proc[p], proc[p].dp) > 0 /\ Count(proc[p], proc[p].ip) > 0 /\ Count(proc[p], proc[p].old) > 0
  BY <1>0, RecordFacts
<1>j. /\ proc[p].dp # 0 => icache'[proc[p].dp].inum = icache[proc[p].dp].inum
      /\ proc[p].old # 0 => icache'[proc[p].old].inum = icache[proc[p].old].inum
      /\ proc[p].ip # 0 => icache'[proc[p].ip].inum = icache[proc[p].ip].inum
  BY ONLY <1>b, <1>d, <1>h, <1>i
<1>1. TypeInv'
  BY DEF TypeInv
<1>2. \/ c = icache /\ \A s \in Slots : Count(proc'[p], s) = Count(proc[p], s)
      \/ /\ Took(c, t, n) /\ \A s \in Slots : Count(proc'[p], s) = Count(proc[p], s) + One(s, t)
         /\ n \in Inums /\ disk.ino[n].type # "none"
         /\ Count(proc[p], t) > 0 \/ disk.ino[n].nlink >= 1 \/ n = resv(proc[p], icache)
         /\ \A q \in Procs : q # p => resv(proc[q], icache) # n
  BY DEF Reserved
<1>3. \A s \in Slots : \/ icache'[s].lock = c[s].lock /\ icache'[s].valid = c[s].valid
                       \/ Count(proc[p], s) > 0 /\ icache[s].lock \in {p, Nobody} /\ icache'[s].lock \in {p, Nobody}
  OBVIOUS
<1>4. \A s \in Slots : icache'[s].lock = p <=> Locks(proc'[p], s)
  BY <1>c, <1>e
<1>5. \A s \in Slots : icache'[s].ref > 0 /\ icache'[s].valid =>
           \/ /\ c[s].valid /\ icache'[s].di = c[s].di
              /\ ~(proc[p].pc = "iput_valid" /\ proc[p].x = s)
           \/ icache'[s].di = disk.ino[icache'[s].inum] /\ icache'[s].di.type # "none"
  BY <1>d
<1>6. \A s \in Slots : Locks(proc'[p], s) => icache'[s].valid
  <2> SUFFICES ASSUME NEW s \in Slots, Locks(proc'[p], s), icache'[s] = c[s], Locks(proc[p], s) PROVE icache'[s].valid
    OBVIOUS
  <2>1. icache[s].valid /\ Shape(proc[p])
    BY <1>0 DEF Local
  <2>2. PICK k \in Kinds : proc[p][k] = s /\ proc[p][k] # 0
    BY <2>1, LocksPtr
  <2>3. Count(proc[p], s) >= 1
    BY <2>2, PtrCounted
  <2>4. icache[s].ref > 0
    BY <1>a, <2>3
  <2> QED BY <2>1, <2>4 DEF Took
<1>7. proc'[p].dp # 0 => disk.ino[icache'[proc'[p].dp].inum].type = "dir" /\ icache'[proc'[p].dp].inum = icache[proc'[p].dp].inum
  <2>1. proc'[p].dp # 0 =>
          proc'[p].dp = proc[p].dp \/ (proc'[p].dp = proc[p].ip /\ disk.ino[icache[proc[p].ip].inum].type = "dir")
    OBVIOUS
  <2> QED BY ONLY <1>h, <1>j, <2>1
<1>8. proc'[p].old # 0 => disk.ino[icache'[proc'[p].old].inum].type = "file"
  <2>1. proc'[p].old # 0 => proc'[p].old = proc[p].old
    OBVIOUS
  <2> QED BY ONLY <1>h, <1>j, <2>1
<1>9. proc'[p].pc \in {"cr_ialloc", "ul_entry"} => proc'[p].dp # 0
  BY DEF Shape, at, Iputs, HasDp
<1>10. /\ proc'[p].pc \in {"cr_ialloc", "cr_iget", "cr_fill"} =>
            Ent(disk, icache'[proc'[p].dp].inum, Head(proc'[p].path)) = 0
       /\ proc'[p].pc = "ul_entry" =>
            /\ Ent(disk, icache'[proc'[p].dp].inum, Head(proc'[p].path)) = icache'[proc'[p].ip].inum
            /\ Head(proc'[p].path) \in Names
  BY <1>7, <1>9
<1>11. DiskInv(durable', {}, NoneOwed)
  BY <1>0
<1>12. /\ Stays(proc[p], proc'[p], c, icache, t, resv(proc'[p], icache'))
       /\ resv(proc'[p], icache') = resv(proc[p], icache)
       /\ proc'[p].pc \in {"cr_iget", "cr_fill"} => disk.ino[resv(proc'[p], icache')] = Fresh(proc'[p].call)
  BY <1>f
<1>13. /\ Shape(proc'[p]) /\ PathOk(proc'[p])
       /\ proc'[p].pc = "iput_free" =>
            icache'[proc'[p].x].ref = 1 /\ disk.ino[icache'[proc'[p].x].inum].nlink = 0
       /\ owed(proc'[p], icache') = owed(proc[p], icache) /\ disk' = disk
       /\ \A q \in Procs : q # p => proc'[q] = proc[q]
  OBVIOUS
<1>14. Moves(p, c, t, n)
  BY ONLY <1>1, <1>2, <1>3, <1>4, <1>5, <1>6, <1>7, <1>8, <1>10, <1>11, <1>12, <1>13, <1>b DEF Moves
<1> QED BY <1>14, MoveOk

\* The entries a process points to.
LEMMA Mine ==
  ASSUME InodeInv, NEW p \in Procs
  PROVE  LET r == proc[p] IN
         /\ r \in Records /\ Local(r, icache, disk) /\ Shape(r) /\ PathOk(r)
         /\ icache \in [Slots -> Entries] /\ proc \in [Procs -> Records] /\ disk \in Images
         /\ \A s \in Slots : s # 0 /\ icache[s] \in Entries /\ icache[s].inum \in Inums /\ icache[s].inum # 0
                             /\ icache[s].ref \in Nat /\ icache[s].lock \in Procs \union {Nobody}
         /\ \A s \in Slots : icache[s].lock = p <=> Locks(r, s)
         /\ \A s \in {r.fd, r.cwd, r.dp, r.ip, r.old} : s # 0 =>
              s \in Slots /\ icache[s].ref > 0 /\ Count(r, s) > 0 /\ disk.ino[icache[s].inum].type # "none"
         /\ r.x # 0 => r.x \in Slots /\ icache[r.x].ref > 0 /\ Count(r, r.x) > 0
         /\ r.x # 0 /\ r.pc \notin {"iput_valid", "iput_ref"} => disk.ino[icache[r.x].inum].type # "none"
<1> DEFINE r == proc[p]
<1>1. /\ r \in Records /\ Local(r, icache, disk) /\ icache \in [Slots -> Entries]
      /\ proc \in [Procs -> Records] /\ disk \in Images
  BY DEF InodeInv, TypeInv, DiskInv
<1>2. Shape(r) /\ PathOk(r)
  BY <1>1 DEF Local
<1>3. \A s \in Slots : s # 0 /\ icache[s] \in Entries /\ icache[s].inum \in Inums /\ icache[s].inum # 0
                             /\ icache[s].ref \in Nat /\ icache[s].lock \in Procs \union {Nobody}
  BY <1>1, Basics DEF Entries
<1>4. \A s \in Slots : icache[s].lock = p <=> Locks(r, s)
  BY DEF InodeInv, LockInv
<1>5. \A s : s \in Slots /\ Count(r, s) >= 1 => icache[s].ref > 0 /\ Count(r, s) > 0
  BY <1>3, PtrFacts, OfKinds
<1>6. \A k \in Kinds : r[k] # 0 => r[k] \in Slots /\ icache[r[k]].ref > 0 /\ Count(r, r[k]) > 0
  <2> HIDE DEF r
  <2> QED BY <1>1, <1>5, RecordFacts
<1>7. \A k \in Kinds : r[k] # 0 /\ ~Dying(r, k) => disk.ino[icache[r[k]].inum].type # "none"
  BY <1>1 DEF Local
<1>8. \A s \in {r.fd, r.cwd, r.dp, r.ip, r.old, r.x} : s # 0 => s \in Slots /\ icache[s].ref > 0 /\ Count(r, s) > 0
  <2> HIDE DEF r
  <2> QED BY <1>6 DEF Kinds
<1>9. \A k \in Kinds : k # "x" \/ r.pc \notin {"iput_valid", "iput_ref"} => ~Dying(r, k)
  BY DEF Dying
<1>10. /\ \A s \in {r.fd, r.cwd, r.dp, r.ip, r.old} : s # 0 => disk.ino[icache[s].inum].type # "none"
       /\ r.x # 0 /\ r.pc \notin {"iput_valid", "iput_ref"} => disk.ino[icache[r.x].inum].type # "none"
  <2> HIDE DEF r
  <2> QED BY <1>7, <1>9 DEF Kinds
<1> QED BY <1>1, <1>2, <1>3, <1>4, <1>8, <1>10

\* No pointer but a creator's ip is to an inode that is being created.
LEMMA NotReserved ==
  ASSUME InodeInv, NEW p \in Procs
  PROVE  LET r == proc[p] IN
         /\ \A s \in Sees(r) : s # 0 => icache[s].inum \notin Reserved
         /\ r.ip # 0 => \A q \in Procs : q # p => resv(proc[q], icache) # icache[r.ip].inum
         /\ r.ip # 0 /\ r.pc # "cr_fill" => icache[r.ip].inum \notin Reserved
<1> DEFINE r == proc[p]
<1>1. \A q \in Procs, k \in Kinds : r[k] # 0 /\ resv(proc[q], icache) = icache[r[k]].inum => Dying(r, k) \/ (p = q /\ k = "ip")
  BY DEF InodeInv, ReserveInv
<1>2. \A k \in Kinds : k # "x" \/ r.pc \notin {"iput_valid", "iput_ref"} => ~Dying(r, k)
  BY DEF Dying
<1>3. \A k \in Kinds, q \in Procs : r[k] # 0 /\ k # "ip" /\ (k # "x" \/ r.pc \notin {"iput_valid", "iput_ref"}) =>
        resv(proc[q], icache) # icache[r[k]].inum
  BY <1>1, <1>2
<1>4. \A s \in Sees(r) : s # 0 => \A q \in Procs : resv(proc[q], icache) # icache[s].inum
  <2> HIDE DEF r
  <2> QED BY <1>3 DEF Kinds, Sees
<1>5. r.ip # 0 => \A q \in Procs : q # p => resv(proc[q], icache) # icache[r.ip].inum
  <2>1. \A k \in Kinds, q \in Procs : r[k] # 0 /\ k = "ip" /\ q # p => resv(proc[q], icache) # icache[r[k]].inum
    BY <1>1, <1>2
  <2> HIDE DEF r
  <2> QED BY <2>1 DEF Kinds
<1>6. r.ip # 0 /\ r.pc # "cr_fill" => resv(r, icache) # icache[r.ip].inum
  <2>1. r.ip # 0 => r.pc # "cr_iget" /\ icache[r.ip].inum # 0
    BY Mine DEF Shape, HasIp, at, Iputs
  <2> QED BY <2>1 DEF resv
<1> QED BY <1>4, <1>5, <1>6 DEF Reserved

\* What ilock() finds, or a process that has the lock has in memory, is on the disk.
LEMMA Read ==
  ASSUME InodeInv, NEW s \in Slots, icache[s].ref > 0
  PROVE  /\ Unlocked(s) => inode(s) = disk.ino[icache[s].inum]
         /\ \A p \in Procs : Locks(proc[p], s) /\ proc[p].pc # "iput_valid" =>
              icache[s].valid /\ icache[s].di = disk.ino[icache[s].inum] /\ icache[s].di.type # "none"
<1>1. \A q \in Procs : icache[s].lock = q <=> Locks(proc[q], s)
  BY DEF InodeInv, LockInv
<1>2. ASSUME NEW q \in Procs, proc[q].pc = "iput_valid", proc[q].x = s PROVE icache[s].lock = q
  BY <1>1, <1>2 DEF Locks
<1>3. Nobody \notin Procs
  BY InodeAssumption
<1>4. icache[s].valid =>
        \/ icache[s].di = disk.ino[icache[s].inum] /\ icache[s].di.type # "none"
        \/ \E q \in Procs : proc[q].pc = "iput_valid" /\ proc[q].x = s
  BY DEF InodeInv, AgreeInv
<1>5. Unlocked(s) => inode(s) = disk.ino[icache[s].inum]
  BY <1>2, <1>3, <1>4 DEF Unlocked, inode
<1>6. ASSUME NEW p \in Procs, Locks(proc[p], s), proc[p].pc # "iput_valid"
      PROVE  icache[s].valid /\ icache[s].di = disk.ino[icache[s].inum] /\ icache[s].di.type # "none"
  <2>1. icache[s].valid
    BY <1>6 DEF InodeInv, Local
  <2> QED BY <1>1, <1>2, <1>4, <1>6, <2>1
<1> QED BY <1>5, <1>6

\* idup()
LEMMA TookIdup ==
  ASSUME InodeInv, NEW s \in Slots, icache[s].ref > 0
  PROVE  Took(idup(s), s, icache[s].inum) /\ idup(s) \in [Slots -> Entries] /\ idup(s) # icache
<1>0. icache \in [Slots -> Entries] /\ \A u \in Slots : icache[u] \in Entries /\ icache[u].ref \in Nat
  BY DEF InodeInv, TypeInv, Entries
<1>1. idup(s)[s] = [icache[s] EXCEPT !.ref = icache[s].ref + 1] /\ \A u \in Slots : u # s => idup(s)[u] = icache[u]
  BY <1>0 DEF idup
<1>2. /\ idup(s)[s].ref = icache[s].ref + 1 /\ idup(s)[s].inum = icache[s].inum /\ idup(s)[s].valid = icache[s].valid
      /\ idup(s)[s].di = icache[s].di /\ idup(s)[s].lock = icache[s].lock /\ idup(s)[s] \in Entries
  BY <1>0, <1>1 DEF Entries
<1>3. idup(s) \in [Slots -> Entries]
  BY <1>0, <1>2 DEF idup
<1>4. idup(s) # icache
  BY <1>0, <1>2
<1> QED BY <1>1, <1>2, <1>3, <1>4 DEF Took

\* iget(): the inode's entry, or the first free one.
LEMMA TookIget ==
  ASSUME InodeInv, NEW n \in Inums, ~NoEntry(n)
  PROVE  Took(iget(n), slot_of(n), n) /\ iget(n) \in [Slots -> Entries] /\ iget(n) # icache
<1>0. icache \in [Slots -> Entries] /\ \A s \in Slots : icache[s] \in Entries /\ icache[s].ref \in Nat
  BY DEF InodeInv, TypeInv, Entries
<1>1. /\ slot_of(n) \in Slots
      /\ hit(n) # {} => icache[slot_of(n)].ref > 0 /\ icache[slot_of(n)].inum = n
      /\ hit(n) = {} => icache[slot_of(n)].ref = 0
  <2>1. CASE hit(n) # {}
    <3>1. slot_of(n) = CHOOSE s \in hit(n) : TRUE
      BY <2>1 DEF slot_of
    <3>2. slot_of(n) \in hit(n)
      BY <2>1, <3>1
    <3> QED BY <2>1, <3>2 DEF hit
  <2>2. CASE hit(n) = {}
    <3>1. slot_of(n) = Min(empty) /\ empty # {}
      BY <2>2 DEF slot_of, NoEntry
    <3>2. empty \in SUBSET Nat
      BY Basics DEF empty
    <3>3. Min(empty) \in empty
      BY <3>1, <3>2, MinFacts
    <3> QED BY <2>2, <3>1, <3>3 DEF empty
  <2> QED BY <2>1, <2>2
<1>2. PICK t \in Slots : t = slot_of(n)
  BY <1>1
<1>4. hit(n) = {} => \A s \in Slots : icache[s].ref > 0 => icache[s].inum # n
  BY DEF hit
<1>5. CASE hit(n) # {}
  <2>1. iget(n) = idup(t)
    BY <1>2, <1>5 DEF iget
  <2>2. icache[t].ref > 0 /\ icache[t].inum = n
    BY <1>1, <1>2, <1>5
  <2>3. Took(idup(t), t, n) /\ idup(t) \in [Slots -> Entries] /\ idup(t) # icache
    BY <2>2, TookIdup
  <2> QED BY <1>2, <2>1, <2>3
<1>6. CASE hit(n) = {}
  <2>0. iget(n) = [icache EXCEPT ![t] = [icache[t] EXCEPT !.inum = n, !.ref = 1, !.valid = FALSE]]
    BY <1>2, <1>6 DEF iget, recycled
  <2>1. iget(n)[t] = [icache[t] EXCEPT !.inum = n, !.ref = 1, !.valid = FALSE] /\ \A s \in Slots : s # t => iget(n)[s] = icache[s]
    BY <1>0, <2>0
  <2>a. icache[t].ref = 0
    BY <1>1, <1>2, <1>6
  <2>2. /\ iget(n)[t].ref = 1 /\ iget(n)[t].inum = n /\ iget(n)[t].valid = FALSE
        /\ iget(n)[t].lock = icache[t].lock /\ iget(n)[t] \in Entries
    <3>1. PICK e \in Entries : e = icache[t]
      BY <1>0
    <3>2. /\ [e EXCEPT !.inum = n, !.ref = 1, !.valid = FALSE] \in Entries
          /\ [e EXCEPT !.inum = n, !.ref = 1, !.valid = FALSE].ref = 1
          /\ [e EXCEPT !.inum = n, !.ref = 1, !.valid = FALSE].inum = n
          /\ [e EXCEPT !.inum = n, !.ref = 1, !.valid = FALSE].valid = FALSE
          /\ [e EXCEPT !.inum = n, !.ref = 1, !.valid = FALSE].lock = e.lock
      BY ONLY <3>1, n \in Inums DEF Entries
    <3> QED BY ONLY <2>1, <3>1, <3>2
  <2>3. iget(n) \in [Slots -> Entries]
    BY <1>0, <2>0, <2>1, <2>2
  <2>4. iget(n) # icache
    BY <1>0, <2>2, <2>a
  <2> QED BY <1>2, <1>4, <1>6, <2>1, <2>2, <2>3, <2>4, <2>a DEF Took
<1> QED BY <1>5, <1>6

\* An entry locked, and one written and unlocked.
LEMMA Held ==
  ASSUME NEW c \in [Slots -> Entries], NEW s \in Slots, NEW l \in Procs \union {Nobody}
  PROVE  /\ held(c, s, l) \in [Slots -> Entries] /\ \A u \in Slots : u # s => held(c, s, l)[u] = c[u]
         /\ held(c, s, l)[s].inum = c[s].inum /\ held(c, s, l)[s].ref = c[s].ref
         /\ held(c, s, l)[s].valid = c[s].valid /\ held(c, s, l)[s].di = c[s].di /\ held(c, s, l)[s].lock = l
BY DEF held, Entries

\* ilock() or a change in memory, and iunlock().
LEMMA Written ==
  ASSUME NEW c \in [Slots -> Entries], NEW s \in Slots, NEW i \in Inodes
  PROVE  /\ written(c, s, i) \in [Slots -> Entries] /\ \A u \in Slots : u # s => written(c, s, i)[u] = c[u]
         /\ written(c, s, i)[s].inum = c[s].inum /\ written(c, s, i)[s].ref = c[s].ref
         /\ written(c, s, i)[s].valid = TRUE /\ written(c, s, i)[s].di = i /\ written(c, s, i)[s].lock = Nobody
BY DEF written, Entries
-----------------------------------------------------------------------------
(* The steps that do not change the disk. *)

\* p goes on and the others stay where they are.
Framed(p) ==
  /\ proc' \in [Procs -> Records] /\ \A q \in Procs : q # p => proc'[q] = proc[q]
  /\ panicked' \in {"no", "full"} /\ durable' = durable

\* Process p is at label, with the local variables of m.
Enters(p, m, label) == /\ proc' = [proc EXCEPT ![p] = [m EXCEPT !.pc = label]]
                       /\ panicked' = panicked /\ durable' = durable

\* Its record, then.
LEMMA EnterFacts ==
  ASSUME InodeInv, NEW p \in Procs, NEW m \in Records, NEW label \in Pcs, Enters(p, m, label)
  PROVE  LET N == proc'[p] IN
         /\ Framed(p) /\ N \in Records /\ N.pc = label
         /\ N.fd = m.fd /\ N.cwd = m.cwd /\ N.call = m.call /\ N.path = m.path /\ N.new = m.new /\ N.dp = m.dp
         /\ N.ip = m.ip /\ N.old = m.old /\ N.x = m.x /\ N.ret = m.ret /\ N.ino = m.ino
<1>1. proc \in [Procs -> Records] /\ panicked \in {"no", "full"}
  BY DEF InodeInv, TypeInv
<1>2. [m EXCEPT !.pc = label] \in Records
  BY DEF Records
<1>3. Framed(p) /\ proc'[p] = [m EXCEPT !.pc = label]
  BY <1>1, <1>2 DEF Enters, Framed
<1> QED BY <1>2, <1>3 DEF Records

\* The same of a call that goes on.
LEMMA GotoFacts ==
  ASSUME InodeInv, NEW p \in Procs, NEW m \in Records, NEW label \in Pcs, Goto(p, m, label)
  PROVE  LET N == proc'[p] IN
         /\ Framed(p) /\ N \in Records /\ N.pc = label
         /\ N.fd = m.fd /\ N.cwd = m.cwd /\ N.call = m.call /\ N.path = m.path /\ N.new = m.new /\ N.dp = m.dp
         /\ N.ip = m.ip /\ N.old = m.old /\ N.x = m.x /\ N.ret = m.ret /\ N.ino = m.ino
<1>1. Enters(p, m, label)
  BY DEF Enters, Goto, Calm
<1> QED BY <1>1, EnterFacts

\* The same at iput(s), which is to return to label.
LEMMA IputFacts ==
  ASSUME InodeInv, NEW p \in Procs, NEW m \in Records, NEW s \in Ptrs, NEW label \in Pcs, IputThen(p, m, s, label)
  PROVE  LET N == proc'[p] IN
         /\ Framed(p) /\ N \in Records /\ N.pc = "iput" /\ N.x = s /\ N.ret = label
         /\ N.fd = m.fd /\ N.cwd = m.cwd /\ N.call = m.call /\ N.path = m.path /\ N.new = m.new /\ N.dp = m.dp
         /\ N.ip = m.ip /\ N.old = m.old /\ N.ino = m.ino
<1> DEFINE w == [m EXCEPT !.x = s, !.ret = label]
<1>1. /\ w \in Records /\ w.x = s /\ w.ret = label
      /\ w.fd = m.fd /\ w.cwd = m.cwd /\ w.call = m.call /\ w.path = m.path /\ w.new = m.new /\ w.dp = m.dp
      /\ w.ip = m.ip /\ w.old = m.old /\ w.ino = m.ino
  BY DEF Records
<1>2. Goto(p, w, "iput") /\ "iput" \in Pcs
  BY DEF IputThen, Pcs
<1> HIDE DEF w
<1> QED BY <1>1, <1>2, GotoFacts

\* Entry s of cache c, which p points to and nobody else has locked, is read, locked or
\* unlocked; no entry if s is 0.
Touched(p, c, s) ==
  /\ icache' \in [Slots -> Entries] /\ \A u \in Slots : u # s => icache'[u] = c[u]
  /\ s # 0 => /\ s \in Slots /\ Count(proc[p], s) > 0
              /\ icache'[s].inum = c[s].inum /\ icache'[s].ref = c[s].ref
              /\ icache[s].lock \in {p, Nobody} /\ icache'[s].lock \in {p, Nobody}
              /\ icache'[s].valid => icache'[s].di = disk.ino[icache[s].inum] /\ icache'[s].di.type # "none"

\* The new record of p, N, has the debts of the old one, r.
Owes(r, N) ==
  /\ at(N) = "ul_drop" <=> at(r) = "ul_drop"
  /\ at(r) = "ul_drop" => r.ip # 0 /\ N.ip = r.ip
  /\ r.old # 0 /\ at(r) # "ln_put" => N.old = r.old /\ at(N) # "ln_put"
  /\ r.old = 0 \/ at(r) = "ln_put" => N.old = 0 \/ at(N) = "ln_put"

\* A step of a process that creates nothing, which touches entry s.
Proceeds(p, c, t, n, s) ==
  LET r == proc[p]
      N == proc'[p]
  IN
  /\ Framed(p) /\ disk' = disk /\ Touched(p, c, s)
  /\ r.pc \notin {"cr_iget", "cr_fill", "iput_valid"} /\ N.pc \notin {"cr_iget", "cr_fill"}
  /\ \/ c = icache /\ \A u \in Slots : Count(N, u) = Count(r, u)
     \/ /\ Took(c, t, n) /\ c # icache /\ \A u \in Slots : Count(N, u) = Count(r, u) + One(u, t)
        /\ n \in Inums /\ disk.ino[n].type # "none" /\ n \notin Reserved
        /\ Count(r, t) > 0 \/ disk.ino[n].nlink >= 1
  /\ \A u \in Slots : u # s => (Locks(N, u) <=> Locks(r, u))
  /\ s # 0 => (icache'[s].lock = p <=> Locks(N, s)) /\ (Locks(N, s) => icache'[s].valid)
  /\ Owes(r, N) /\ Stays(r, N, c, icache, t, 0) /\ Shape(N) /\ PathOk(N)
  /\ N.dp # 0 => N.dp = r.dp \/ (N.dp = r.ip /\ disk.ino[icache[r.ip].inum].type = "dir")
  /\ N.old # 0 => N.old = r.old
  /\ N.pc = "cr_ialloc" => Ent(disk, icache[N.dp].inum, Head(N.path)) = 0
  /\ N.pc = "ul_entry" =>
       Ent(disk, icache[N.dp].inum, Head(N.path)) = icache'[N.ip].inum /\ Head(N.path) \in Names
  /\ N.pc = "iput_free" => icache'[N.x].ref = 1 /\ disk.ino[icache'[N.x].inum].nlink = 0

\* Such a step keeps the invariant.
LEMMA Proceed ==
  ASSUME InodeInv, NEW p \in Procs, NEW c, NEW t, NEW n, NEW s, Proceeds(p, c, t, n, s)
  PROVE  InodeInv'
<1> DEFINE r == proc[p]  N == proc'[p]
<1>0. /\ r \in Records /\ Shape(r) /\ icache \in [Slots -> Entries]
      /\ r.ip # 0 => r.ip \in Slots /\ icache[r.ip].ref > 0
      /\ r.old # 0 => r.old \in Slots /\ icache[r.old].ref > 0
  BY Mine
<1>1. Framed(p) /\ disk' = disk /\ Touched(p, c, s)
  BY DEF Proceeds
<1>2. \A u \in Slots : icache'[u].inum = c[u].inum
  BY <1>1, Basics DEF Touched
<1>3. \A u \in Slots : icache[u].ref > 0 => c[u].inum = icache[u].inum
  BY DEF Proceeds, Took
<1>4. owed(N, icache') = owed(r, icache)
  <2>1. Owes(r, N)
    BY DEF Proceeds
  <2>2. /\ r.ip # 0 => icache'[r.ip].inum = icache[r.ip].inum
        /\ r.old # 0 => icache'[r.old].inum = icache[r.old].inum
    BY <1>0, <1>2, <1>3
  <2>3. at(N) = "ln_put" => at(N) # "ul_drop"
    OBVIOUS
  <2> HIDE DEF r, N
  <2> QED BY ONLY <2>1, <2>2, <2>3 DEF owed, Owes
<1>5. \A u \in Slots :
       \/ icache'[u] = c[u] /\ (Locks(N, u) <=> Locks(r, u)) /\ ~(r.pc = "iput_valid" /\ r.x = u)
       \/ /\ Count(r, u) > 0 /\ icache'[u].inum = c[u].inum /\ icache'[u].ref = c[u].ref
          /\ icache[u].lock \in {p, Nobody} /\ icache'[u].lock \in {p, Nobody}
          /\ icache'[u].lock = p <=> Locks(N, u)
          /\ icache'[u].valid => icache'[u].di = disk.ino[icache[u].inum] /\ icache'[u].di.type # "none"
          /\ Locks(N, u) => icache'[u].valid
  <2> SUFFICES ASSUME NEW u \in Slots
               PROVE  \/ icache'[u] = c[u] /\ (Locks(N, u) <=> Locks(r, u)) /\ ~(r.pc = "iput_valid" /\ r.x = u)
                      \/ /\ Count(r, u) > 0 /\ icache'[u].inum = c[u].inum /\ icache'[u].ref = c[u].ref
                         /\ icache[u].lock \in {p, Nobody} /\ icache'[u].lock \in {p, Nobody}
                         /\ icache'[u].lock = p <=> Locks(N, u)
                         /\ icache'[u].valid => icache'[u].di = disk.ino[icache[u].inum] /\ icache'[u].di.type # "none"
                         /\ Locks(N, u) => icache'[u].valid
    OBVIOUS
  <2>1. CASE u # s
    BY <1>1, <2>1 DEF Proceeds, Touched
  <2>2. CASE u = s
    <3>1. u # 0
      BY Basics
    <3> QED BY <1>1, <2>2, <3>1 DEF Proceeds, Touched
  <2> QED BY <2>1, <2>2
<1>6. icache' \in [Slots -> Entries] /\ proc' \in [Procs -> Records] /\ panicked' \in {"no", "full"} /\ durable' = durable
      /\ \A q \in Procs : q # p => proc'[q] = proc[q]
  BY <1>1 DEF Touched, Framed
<1>7. MovesPlainly(p, c, t, n)
  BY ONLY <1>1, <1>4, <1>5, <1>6, Proceeds(p, c, t, n, s) DEF MovesPlainly, Proceeds, r, N
<1> QED BY <1>7, PlainMove

\* ilock(s) and iunlock(s); or ilock(s) alone.
LEMMA CacheRead ==
  ASSUME InodeInv, NEW p \in Procs, NEW s \in Slots, Count(proc[p], s) > 0, icache[s].ref > 0, Unlocked(s),
         disk.ino[icache[s].inum].type # "none",
         NEW c \in [Slots -> Entries], c[s].lock = icache[s].lock
  PROVE  /\ icache' = read(c, s) => Touched(p, c, s) /\ icache'[s].lock = Nobody
         /\ icache' = held(read(c, s), s, p) => Touched(p, c, s) /\ icache'[s].lock = p /\ icache'[s].valid
<1>1. inode(s) = disk.ino[icache[s].inum] /\ icache[s].lock = Nobody /\ inode(s) \in Inodes
  <2>1. disk \in Images /\ icache[s].inum \in Inums
    BY Mine, Zenon
  <2> QED BY <2>1, Read, ImageFacts DEF Unlocked
<1> DEFINE w == read(c, s)
<1>a. PICK i \in Inodes : i = inode(s)
  BY <1>1
<1>2. /\ w \in [Slots -> Entries] /\ \A u \in Slots : u # s => w[u] = c[u]
      /\ w[s].inum = c[s].inum /\ w[s].ref = c[s].ref
      /\ w[s].valid = TRUE /\ w[s].di = inode(s) /\ w[s].lock = Nobody
  <2>1. w = written(c, s, i)
    BY <1>a DEF read
  <2> HIDE DEF w
  <2>2. c \in [Slots -> Entries] /\ s \in Slots /\ i \in Inodes
    BY <1>a
  <2>3. /\ written(c, s, i) \in [Slots -> Entries] /\ \A u \in Slots : u # s => written(c, s, i)[u] = c[u]
        /\ written(c, s, i)[s].inum = c[s].inum /\ written(c, s, i)[s].ref = c[s].ref
        /\ written(c, s, i)[s].valid = TRUE /\ written(c, s, i)[s].di = i /\ written(c, s, i)[s].lock = Nobody
    BY <2>2 DEF written, Entries
  <2> QED BY ONLY <1>a, <2>1, <2>3
<1>3. icache' = w => Touched(p, c, s) /\ icache'[s].lock = Nobody
  <2> HIDE DEF w
  <2> QED BY <1>1, <1>2 DEF Touched
<1> DEFINE v == held(w, s, p)
<1>4. /\ v \in [Slots -> Entries] /\ \A u \in Slots : u # s => v[u] = w[u]
      /\ v[s].inum = w[s].inum /\ v[s].ref = w[s].ref
      /\ v[s].valid = w[s].valid /\ v[s].di = w[s].di /\ v[s].lock = p
  <2> HIDE DEF w
  <2> QED BY <1>2, Held
<1>5. icache' = v => Touched(p, c, s) /\ icache'[s].lock = p /\ icache'[s].valid
  <2> HIDE DEF w, v
  <2> QED BY <1>1, <1>2, <1>4 DEF Touched
<1> QED BY <1>3, <1>5

\* iunlock(s)
LEMMA CacheReleased ==
  ASSUME InodeInv, NEW p \in Procs, NEW s \in Slots, Count(proc[p], s) > 0, icache[s].ref > 0,
         Locks(proc[p], s), proc[p].pc # "iput_valid", icache' = held(icache, s, Nobody)
  PROVE  Touched(p, icache, s) /\ icache'[s].lock = Nobody
<1>1. icache[s].di = disk.ino[icache[s].inum] /\ icache[s].di.type # "none" /\ icache[s].lock = p
  BY Read, Mine
<1>2. icache \in [Slots -> Entries] /\ Nobody \in Procs \union {Nobody}
  BY Mine
<1> DEFINE v == held(icache, s, Nobody)
<1>3. /\ v \in [Slots -> Entries] /\ \A u \in Slots : u # s => v[u] = icache[u]
      /\ v[s].inum = icache[s].inum /\ v[s].ref = icache[s].ref
      /\ v[s].valid = icache[s].valid /\ v[s].di = icache[s].di /\ v[s].lock = Nobody
  BY <1>2, Held
<1>4. icache' = v
  OBVIOUS
<1> HIDE DEF v
<1> QED BY <1>1, <1>3, <1>4 DEF Touched

\* The cache does not change.
LEMMA CacheKept ==
  ASSUME InodeInv, icache' = icache, NEW p
  PROVE  Touched(p, icache, 0)
BY DEF Touched, InodeInv, TypeInv

\* Nothing changes, or panic() is called for want of room.
LEMMA NothingKeeps ==
  ASSUME InodeInv, UNCHANGED <<disk, durable, icache, proc>>, panicked' = panicked \/ panicked' = "full"
  PROVE  InodeInv'
<1>1. disk' = disk /\ durable' = durable /\ icache' = icache /\ proc' = proc
  OBVIOUS
<1>2. TypeInv'
  BY <1>1 DEF InodeInv, TypeInv
<1>3. Reserved' = Reserved /\ Owed' = Owed
  BY <1>1 DEF Reserved, Owed
<1>4. (RefInv /\ UniqInv /\ LockInv /\ AgreeInv /\ ReserveInv)'
  BY <1>1 DEF InodeInv, RefInv, Pointers, UniqInv, LockInv, AgreeInv, ReserveInv
<1> QED BY <1>1, <1>2, <1>3, <1>4 DEF InodeInv

\* panic() for want of room leaves everything as it is.
LEMMA StopKeeps == ASSUME InodeInv, Stop("full") PROVE InodeInv'
BY NothingKeeps DEF Stop

\* A directory that p points to and nobody has locked is looked up: the inode found is
\* in use, nobody's to create, and has a link or is the directory itself.
LEMMA Lookup ==
  ASSUME InodeInv, NEW p \in Procs, NEW s \in Slots, Count(proc[p], s) > 0, icache[s].ref > 0, Unlocked(s),
         disk.ino[icache[s].inum].type = "dir", icache[s].inum \notin Reserved,
         NEW a \in AllNames, a = ".." /\ dirlookup(s, a) # 0 => disk.ino[dirlookup(s, a)].nlink >= 1
  PROVE  LET n == dirlookup(s, a) IN
         /\ n = Ent(disk, icache[s].inum, a)
         /\ n # 0 => n \in Inums
         /\ n # 0 /\ ~NoEntry(n) =>
              /\ n \in Inums /\ disk.ino[n].type # "none" /\ n \notin Reserved
              /\ Took(iget(n), slot_of(n), n) /\ iget(n) \in [Slots -> Entries] /\ iget(n) # icache
              /\ slot_of(n) \in Slots /\ iget(n)[slot_of(n)].inum = n
              /\ \A u \in Slots : iget(n)[u].lock = icache[u].lock
              /\ Count(proc[p], slot_of(n)) > 0 \/ disk.ino[n].nlink >= 1
<1> DEFINE n == dirlookup(s, a)  D == icache[s].inum
<1>0. D \in Inums /\ DiskInv(disk, Reserved, Owed)
  BY Mine DEF InodeInv
<1>1. inode(s) = disk.ino[D]
  BY Read
<1>2. n = Ent(disk, D, a)
  BY <1>1 DEF dirlookup, Ent
<1>3. Reserved \in SUBSET Inums /\ Owed \in [Inums -> Nat]
  <2>1. \A m \in Inums : Cardinality({q \in Procs : owed(proc[q], icache) = m}) \in Nat
    BY Basics, FS_Subset, FS_CardinalityType
  <2> QED BY <2>1 DEF Reserved, Owed
<1>4. n # 0 => n \in Inums /\ disk.ino[n].type # "none" /\ n \notin Reserved /\ (disk.ino[n].nlink >= 1 \/ n = D)
  <2>2. a = ".." /\ n # 0 => disk.ino[n].nlink >= 1
    OBVIOUS
  <2> HIDE DEF n, D
  <2>1. disk.ino[D].type = "dir" /\ D \notin Reserved
    BY DEF D
  <2> QED BY <1>0, <1>2, <1>3, <2>1, <2>2, Looked
<1> HIDE DEF n
<1>5. ASSUME n # 0, ~NoEntry(n)
      PROVE  /\ Took(iget(n), slot_of(n), n) /\ iget(n) \in [Slots -> Entries] /\ iget(n) # icache
             /\ slot_of(n) \in Slots /\ iget(n)[slot_of(n)].inum = n
             /\ \A u \in Slots : iget(n)[u].lock = icache[u].lock
             /\ Count(proc[p], slot_of(n)) > 0 \/ disk.ino[n].nlink >= 1
  <2>1. Took(iget(n), slot_of(n), n) /\ iget(n) \in [Slots -> Entries] /\ iget(n) # icache
    BY <1>4, <1>5, TookIget
  <2>2. /\ slot_of(n) \in Slots /\ iget(n)[slot_of(n)].inum = n
        /\ \A u \in Slots : iget(n)[u].lock = icache[u].lock
    BY <2>1 DEF Took
  <2>3. n = D => slot_of(n) = s
    <3> SUFFICES ASSUME n = D PROVE slot_of(n) = s
      OBVIOUS
    <3>1. icache[slot_of(n)].ref > 0 /\ icache[slot_of(n)].inum = n
      BY <2>1 DEF Took
    <3> QED BY <2>2, <3>1 DEF InodeInv, UniqInv
  <2> QED BY <1>4, <1>5, <2>1, <2>2, <2>3
<1> QED BY <1>2, <1>4, <1>5 DEF n

\* The first element of what is left of a path.
LEMMA HeadFacts ==
  ASSUME NEW r \in Records, PathOk(r), r.path # <<>>
  PROVE  /\ Head(r.path) \in AllNames /\ (NoDotDot => Head(r.path) # "..")
         /\ Tail(r.path) \in Seq(AllNames)
         /\ Len(r.path) = 1 => Head(r.path) = r.path[Len(r.path)]
<1>1. r.path \in Seq(AllNames)
  BY DEF Records
<1>2. Len(r.path) \in Nat /\ Len(r.path) >= 1 /\ Head(r.path) = r.path[1] /\ r.path[1] \in AllNames /\ Tail(r.path) \in Seq(AllNames)
  BY <1>1
<1>3. NoDotDot => Head(r.path) # ".."
  BY <1>2 DEF PathOk
<1> QED BY <1>2, <1>3

\* A path has one element or more.
LEMMA PathLength == ASSUME NEW e \in Seq(AllNames), e # <<>> PROVE Len(e) = 1 \/ Len(e) > 1
<1>1. PICK k \in Nat : k = Len(e) /\ k >= 1
  OBVIOUS
<1>2. k = 1 \/ k > 1
  BY <1>1
<1> QED BY <1>1, <1>2

\* What is left after it.
LEMMA TailPath ==
  ASSUME NEW r \in Records, PathOk(r), r.path # <<>>, NEW m, m.path = Tail(r.path), m.new = r.new, m.call = r.call
  PROVE  PathOk(m)
<1>1. r.path \in Seq(AllNames)
  BY DEF Records
<1> DEFINE t == Tail(r.path)
<1>2. /\ Len(r.path) \in Nat /\ Len(t) = Len(r.path) - 1 /\ \A i \in 1 .. Len(t) : t[i] = r.path[i + 1]
  BY <1>1
<1>3. /\ Len(t) \in Nat /\ t \in Seq(AllNames)
  BY <1>1
<1>4. t # <<>> => t[Len(t)] = r.path[Len(r.path)]
  <2>1. t # <<>> => Len(t) >= 1
    BY <1>3
  <2> QED BY <1>2, <1>3, <2>1
<1> HIDE DEF t
<1>5. NoDotDot => \A i \in 1 .. Len(t) : t[i] # ".."
  BY <1>2, <1>3 DEF PathOk
<1>6. m.path = t
  BY DEF t
<1>7. r.path # <<>>
  OBVIOUS
<1> QED BY <1>4, <1>5, <1>6, <1>7 DEF PathOk
-----------------------------------------------------------------------------
(* The steps that change the disk. *)

\* p takes no reference and changes the entries of T, which it points to and nobody
\* else has locked, and their inodes on the disk; an inode that nobody else points to
\* may be freed when its entry is being put, and a free one may be taken.
Alters(p, T) ==
  LET r == proc[p]
      N == proc'[p]
  IN
  /\ Framed(p) /\ icache' \in [Slots -> Entries] /\ r.pc # "iput_valid"
  /\ \A s \in Slots : /\ icache'[s].inum = icache[s].inum /\ Count(N, s) <= Count(r, s)
                      /\ icache'[s].ref = icache[s].ref + Count(N, s) - Count(r, s)
  /\ \A s \in Slots : s \notin T =>
       /\ icache'[s].lock = icache[s].lock /\ icache'[s].valid = icache[s].valid /\ icache'[s].di = icache[s].di
       /\ Locks(N, s) <=> Locks(r, s)
  /\ \A s \in T :
       /\ s \in Slots /\ s \in Sees(r) \union {r.ip}
       /\ icache[s].lock \in {p, Nobody} /\ icache'[s].lock \in {p, Nobody}
       /\ icache'[s].lock = p <=> Locks(N, s)
       /\ Locks(N, s) => icache'[s].valid
       /\ icache'[s].valid =>
            \/ icache'[s].di = disk'.ino[icache[s].inum] /\ icache'[s].di.type # "none"
            \/ N.pc = "iput_valid" /\ N.x = s
       /\ \/ disk'.ino[icache[s].inum].type = disk.ino[icache[s].inum].type
          \/ icache[s].ref = Count(r, s) /\ \A k \in Kinds : N[k] = s => Dying(N, k)
  /\ \A n \in Inums : disk.ino[n].type # "none" /\ (\A s \in T : icache[s].inum # n) =>
       disk'.ino[n] = disk.ino[n] /\ \A a \in AllNames : Ent(disk', n, a) = Ent(disk, n, a)
  /\ \/ resv(N, icache') = 0
     \/ resv(N, icache') = resv(r, icache)
     \/ disk.ino[resv(N, icache')].type = "none"
  /\ Stays(r, N, icache, icache, 0, resv(N, icache')) /\ Shape(N) /\ PathOk(N)
  /\ N.dp # 0 => N.dp = r.dp
  /\ N.old # 0 => N.old = r.old \/ (N.old = r.ip /\ disk.ino[icache[r.ip].inum].type = "file")
  /\ N.pc \notin {"ul_entry", "iput_free"}
  /\ N.pc \in {"cr_ialloc", "cr_iget", "cr_fill"} => Ent(disk', icache[N.dp].inum, Head(N.path)) = 0
  /\ N.pc \in {"cr_iget", "cr_fill"} => disk'.ino[resv(N, icache')] = Fresh(N.call)

\* Such a step keeps the invariant if the disk is sound after it.
LEMMA AlterOk ==
  ASSUME InodeInv, NEW p \in Procs, NEW T, Alters(p, T)
  PROVE  /\ \A q \in Procs : q # p =>
              resv(proc'[q], icache') = resv(proc[q], icache) /\ owed(proc'[q], icache') = owed(proc[q], icache)
         /\ DiskInv(disk', Reserved', Owed') => InodeInv'
<1> DEFINE r == proc[p]  N == proc'[p]
<1>0. /\ r \in Records /\ Local(r, icache, disk) /\ icache \in [Slots -> Entries] /\ proc \in [Procs -> Records]
      /\ \A s \in Slots : /\ s # 0 /\ icache[s].inum \in Inums /\ icache[s].inum # 0 /\ icache[s].ref \in Nat
                          /\ icache[s].lock = p <=> Locks(r, s)
      /\ r.ip # 0 => r.ip \in Slots
      /\ r.old # 0 => r.old \in Slots
      /\ r.dp # 0 => r.dp \in Slots
  BY Mine
<1>1. /\ Framed(p) /\ icache' \in [Slots -> Entries] /\ r.pc # "iput_valid"
      /\ \A s \in Slots : /\ icache'[s].inum = icache[s].inum /\ Count(N, s) <= Count(r, s)
                          /\ icache'[s].ref = icache[s].ref + Count(N, s) - Count(r, s)
  BY DEF Alters
<1>2. \A s \in Slots : s \notin T =>
        /\ icache'[s].lock = icache[s].lock /\ icache'[s].valid = icache[s].valid /\ icache'[s].di = icache[s].di
        /\ Locks(N, s) <=> Locks(r, s)
  BY DEF Alters
<1>3. \A s \in T :
       /\ s \in Slots /\ s \in Sees(r) \union {r.ip}
       /\ icache[s].lock \in {p, Nobody} /\ icache'[s].lock \in {p, Nobody}
       /\ icache'[s].lock = p <=> Locks(N, s)
       /\ Locks(N, s) => icache'[s].valid
       /\ icache'[s].valid =>
            \/ icache'[s].di = disk'.ino[icache[s].inum] /\ icache'[s].di.type # "none"
            \/ N.pc = "iput_valid" /\ N.x = s
       /\ \/ disk'.ino[icache[s].inum].type = disk.ino[icache[s].inum].type
          \/ icache[s].ref = Count(r, s) /\ \A k \in Kinds : N[k] = s => Dying(N, k)
  BY DEF Alters
<1>4. \A n \in Inums : disk.ino[n].type # "none" /\ (\A s \in T : icache[s].inum # n) =>
       disk'.ino[n] = disk.ino[n] /\ \A a \in AllNames : Ent(disk', n, a) = Ent(disk, n, a)
  BY DEF Alters
<1>5. /\ \/ resv(N, icache') = 0
         \/ resv(N, icache') = resv(r, icache)
         \/ disk.ino[resv(N, icache')].type = "none"
      /\ Stays(r, N, icache, icache, 0, resv(N, icache')) /\ Shape(N) /\ PathOk(N)
      /\ N.dp # 0 => N.dp = r.dp
      /\ N.old # 0 => N.old = r.old \/ (N.old = r.ip /\ disk.ino[icache[r.ip].inum].type = "file")
      /\ N.pc \notin {"ul_entry", "iput_free"}
      /\ N.pc \in {"cr_ialloc", "cr_iget", "cr_fill"} => Ent(disk', icache[N.dp].inum, Head(N.path)) = 0
      /\ N.pc \in {"cr_iget", "cr_fill"} => disk'.ino[resv(N, icache')] = Fresh(N.call)
  BY DEF Alters
<1>6. proc' \in [Procs -> Records] /\ (\A q \in Procs : q # p => proc'[q] = proc[q]) /\ durable' = durable /\ TypeInv'
  BY <1>1 DEF Framed, TypeInv
<1>7. \A s \in Slots : Count(r, s) \in Nat /\ Count(N, s) \in Nat /\ icache[s].ref >= Count(r, s)
                       /\ icache'[s].ref \in Nat
  BY <1>1, PtrFacts, OfKinds DEF Entries
<1>8. \A s \in T : s # 0 /\ icache[s].ref > 0 /\ \A q \in Procs : q # p => resv(proc[q], icache) # icache[s].inum
  <2> SUFFICES ASSUME NEW s \in T
               PROVE  s # 0 /\ icache[s].ref > 0 /\ \A q \in Procs : q # p => resv(proc[q], icache) # icache[s].inum
    OBVIOUS
  <2>1. s \in Slots /\ s # 0 /\ (s \in Sees(r) \/ s = r.ip)
    BY <1>0, <1>3
  <2>2. icache[s].ref > 0
    BY <2>1, Mine DEF Sees
  <2>3. icache[s].inum \in Inums
    BY <1>0, <2>1
  <2>4. s \in Sees(r) => icache[s].inum \notin Reserved
    BY <2>1, NotReserved
  <2>5. s = r.ip => \A q \in Procs : q # p => resv(proc[q], icache) # icache[r.ip].inum
    BY <2>1, NotReserved
  <2> QED BY <2>1, <2>2, <2>3, <2>4, <2>5 DEF Reserved
<1>9. \A s \in Slots : s \notin T /\ icache[s].ref > 0 => \A t \in T : icache[t].inum # icache[s].inum
  BY <1>3, <1>8 DEF InodeInv, UniqInv
<1>10. \A s \in Slots : s \notin T /\ icache[s].ref > 0 /\ disk.ino[icache[s].inum].type # "none" =>
         /\ disk'.ino[icache[s].inum] = disk.ino[icache[s].inum]
         /\ \A a \in AllNames : Ent(disk', icache[s].inum, a) = Ent(disk, icache[s].inum, a)
  BY <1>0, <1>4, <1>9
<1>b. Nobody \notin Procs
  BY InodeAssumption
<1> HIDE DEF r, N
<1>11. \A s \in Slots : icache'[s].lock = p <=> Locks(N, s)
  BY <1>0, <1>2, <1>3
<1>12. \A s \in Slots, q \in Procs : q # p => (icache'[s].lock = q <=> icache[s].lock = q)
  BY <1>2, <1>3, <1>b
<1>13. \A s \in Slots, q \in Procs : q # p /\ icache[s].lock = q =>
         /\ icache'[s].valid = icache[s].valid
         /\ disk.ino[icache[s].inum].type # "none" =>
              /\ disk'.ino[icache[s].inum] = disk.ino[icache[s].inum]
              /\ \A a \in AllNames : Ent(disk', icache[s].inum, a) = Ent(disk, icache[s].inum, a)
  <2> SUFFICES ASSUME NEW s \in Slots, NEW q \in Procs, q # p, icache[s].lock = q
               PROVE  s \notin T /\ icache[s].ref > 0
    BY <1>2, <1>10
  <2>1. s \notin T
    BY <1>3, <1>b
  <2>2. Locks(proc[q], s) /\ Shape(proc[q])
    BY DEF InodeInv, LockInv, Local
  <2>3. PICK k \in Kinds : proc[q][k] = s /\ proc[q][k] # 0
    BY <2>2, LocksPtr
  <2>4. Count(proc[q], s) >= 1 /\ Count(proc[q], s) \in Nat /\ icache[s].ref >= Count(proc[q], s)
    BY <2>3, PtrCounted, OfKinds, PtrFacts
  <2> QED BY <1>0, <2>1, <2>4
<1>14. \A s \in Slots : icache'[s].ref > 0 /\ icache'[s].valid =>
         \/ icache'[s].di = disk'.ino[icache'[s].inum] /\ icache'[s].di.type # "none"
         \/ \E q \in Procs : proc'[q].pc = "iput_valid" /\ proc'[q].x = s
  <2> SUFFICES ASSUME NEW s \in Slots, icache'[s].ref > 0, icache'[s].valid
               PROVE  \/ icache'[s].di = disk'.ino[icache'[s].inum] /\ icache'[s].di.type # "none"
                      \/ \E q \in Procs : proc'[q].pc = "iput_valid" /\ proc'[q].x = s
    OBVIOUS
  <2>1. CASE s \in T
    BY <1>1, <1>3, <2>1 DEF N
  <2>2. CASE s \notin T
    <3>1. icache[s].ref > 0 /\ icache[s].valid /\ icache'[s].di = icache[s].di /\ icache'[s].inum = icache[s].inum
      BY <1>0, <1>1, <1>2, <1>7, <2>2
    <3>2. \/ icache[s].di = disk.ino[icache[s].inum] /\ icache[s].di.type # "none"
          \/ \E q \in Procs : proc[q].pc = "iput_valid" /\ proc[q].x = s
      BY <3>1 DEF InodeInv, AgreeInv
    <3>3. CASE icache[s].di = disk.ino[icache[s].inum] /\ icache[s].di.type # "none"
      BY <1>10, <2>2, <3>1, <3>3
    <3>4. ASSUME NEW q \in Procs, proc[q].pc = "iput_valid", proc[q].x = s
          PROVE  proc'[q].pc = "iput_valid" /\ proc'[q].x = s
      BY <1>1, <1>6, <3>4 DEF r
    <3> QED BY <3>2, <3>3, <3>4
  <2> QED BY <2>1, <2>2
<1>15. \A s \in Slots : icache[s].ref > Count(r, s) /\ disk.ino[icache[s].inum].type # "none" =>
         disk'.ino[icache[s].inum].type = disk.ino[icache[s].inum].type
  <2> SUFFICES ASSUME NEW s \in Slots, icache[s].ref > Count(r, s), disk.ino[icache[s].inum].type # "none"
               PROVE  disk'.ino[icache[s].inum].type = disk.ino[icache[s].inum].type
    OBVIOUS
  <2>1. CASE s \in T
    BY <1>0, <1>3, <1>7, <2>1
  <2>2. CASE s \notin T
    <3>1. icache[s].ref > 0
      BY <1>0, <1>7
    <3> QED BY <1>10, <2>2, <3>1
  <2> QED BY <2>1, <2>2
<1>16. \A q \in Procs : q # p /\ resv(proc[q], icache) # 0 =>
         disk'.ino[resv(proc[q], icache)] = disk.ino[resv(proc[q], icache)]
  <2> SUFFICES ASSUME NEW q \in Procs, q # p, resv(proc[q], icache) # 0
               PROVE  disk'.ino[resv(proc[q], icache)] = disk.ino[resv(proc[q], icache)]
    OBVIOUS
  <2>1. proc[q] \in Records /\ Local(proc[q], icache, disk) /\ Shape(proc[q])
        /\ (proc[q].ip # 0 => proc[q].ip \in Slots)
    BY Mine
  <2>2. proc[q].pc \in {"cr_iget", "cr_fill"}
    BY DEF resv
  <2>3. disk.ino[resv(proc[q], icache)] = Fresh(proc[q].call) /\ Fresh(proc[q].call).type # "none"
    BY <2>1, <2>2 DEF Local, Fresh, Free
  <2>4. proc[q].pc = "cr_fill" => proc[q].ip # 0
    BY <2>1 DEF Shape, at, Iputs, HasIp
  <2>5. proc[q].ino \in Inums \union {0}
    BY <2>1 DEF Records
  <2>6. resv(proc[q], icache) \in Inums
    BY <1>0, <2>1, <2>2, <2>4, <2>5 DEF resv
  <2> QED BY <1>4, <1>8, <2>3, <2>6
<1>17. \A k \in Kinds : N[k] # 0 /\ ~Dying(N, k) =>
         \E j \in Kinds : /\ r[j] = N[k] /\ ~Dying(r, j)
                          /\ k # "ip" => j # "ip" \/ resv(N, icache') = 0
  <2>1. Stays(r, N, icache, icache, 0, resv(N, icache'))
    BY <1>5
  <2> QED BY ONLY <2>1, Sources
<1>18. \A j \in Kinds : r[j] # 0 /\ ~Dying(r, j) =>
         /\ r[j] \in Slots /\ icache[r[j]].ref > 0 /\ disk.ino[icache[r[j]].inum].type # "none"
         /\ \A q \in Procs : resv(proc[q], icache) = icache[r[j]].inum => p = q /\ j = "ip"
  <2> SUFFICES ASSUME NEW j \in Kinds, r[j] # 0, ~Dying(r, j)
               PROVE  /\ r[j] \in Slots /\ icache[r[j]].ref > 0 /\ disk.ino[icache[r[j]].inum].type # "none"
                      /\ \A q \in Procs : resv(proc[q], icache) = icache[r[j]].inum => p = q /\ j = "ip"
    OBVIOUS
  <2>1. r[j] \in Slots /\ Count(r, r[j]) >= 1
    BY <1>0, RecordFacts
  <2>2. icache[r[j]].ref > 0
    BY <1>0, <1>7, <2>1
  <2>3. disk.ino[icache[r[j]].inum].type # "none"
    BY <1>0 DEF Local
  <2>4. \A q \in Procs : resv(proc[q], icache) = icache[r[j]].inum => p = q /\ j = "ip"
    BY DEF r, InodeInv, ReserveInv
  <2> QED BY <2>1, <2>2, <2>3, <2>4
<1>19. \A k \in Kinds : N[k] # 0 /\ ~Dying(N, k) =>
         /\ N[k] \in Slots /\ disk'.ino[icache[N[k]].inum].type = disk.ino[icache[N[k]].inum].type
         /\ disk.ino[icache[N[k]].inum].type # "none"
         /\ \A q \in Procs : q # p => resv(proc[q], icache) # icache'[N[k]].inum
         /\ k # "ip" => resv(N, icache') # icache'[N[k]].inum
  <2> SUFFICES ASSUME NEW k \in Kinds, N[k] # 0, ~Dying(N, k)
               PROVE  /\ N[k] \in Slots /\ disk'.ino[icache[N[k]].inum].type = disk.ino[icache[N[k]].inum].type
                      /\ disk.ino[icache[N[k]].inum].type # "none"
                      /\ \A q \in Procs : q # p => resv(proc[q], icache) # icache'[N[k]].inum
                      /\ k # "ip" => resv(N, icache') # icache'[N[k]].inum
    OBVIOUS
  <2>1. PICK j \in Kinds : /\ r[j] = N[k] /\ ~Dying(r, j)
                           /\ k # "ip" => j # "ip" \/ resv(N, icache') = 0
    BY <1>17
  <2> DEFINE s == N[k]
  <2>2. /\ s \in Slots /\ icache[s].ref > 0 /\ disk.ino[icache[s].inum].type # "none"
        /\ \A q \in Procs : resv(proc[q], icache) = icache[s].inum => p = q /\ j = "ip"
    BY <1>18, <2>1
  <2>3. icache'[s].inum = icache[s].inum /\ icache[s].inum # 0
    BY <1>0, <1>1, <2>2
  <2>4. disk'.ino[icache[s].inum].type = disk.ino[icache[s].inum].type
    <3>1. s \in T => disk'.ino[icache[s].inum].type = disk.ino[icache[s].inum].type
      BY <1>3
    <3> HIDE DEF s
    <3> QED BY <1>10, <2>2, <3>1
  <2>5. k # "ip" => resv(N, icache') # icache[s].inum
    <3>1. resv(r, icache) = icache[s].inum => j = "ip"
      BY <2>2 DEF r
    <3> HIDE DEF s
    <3> QED BY <1>5, <2>1, <2>2, <2>3, <3>1
  <2> QED BY <2>2, <2>3, <2>4, <2>5
<1>20. Local(N, icache', disk')
  <2>1. \A k \in Kinds : N[k] # 0 /\ ~Dying(N, k) => disk'.ino[icache'[N[k]].inum].type # "none"
    BY <1>1, <1>19
  <2>2. \A s \in Slots : Locks(N, s) => icache'[s].valid
    BY <1>0, <1>2, <1>3 DEF Local
  <2>3. /\ N.dp # 0 => N.dp \in Slots /\ disk'.ino[icache[N.dp].inum].type = disk.ino[icache[N.dp].inum].type
        /\ N.old # 0 => N.old \in Slots /\ disk'.ino[icache[N.old].inum].type = disk.ino[icache[N.old].inum].type
    BY <1>19 DEF Kinds, Dying
  <2>4. N.dp # 0 => disk'.ino[icache'[N.dp].inum].type = "dir"
    BY <1>0, <1>1, <1>5, <2>3 DEF Local
  <2>5. N.old # 0 => disk'.ino[icache'[N.old].inum].type = "file"
    BY <1>0, <1>1, <1>5, <2>3 DEF Local
  <2>6. N.pc \in {"cr_ialloc", "cr_iget", "cr_fill"} => Ent(disk', icache'[N.dp].inum, Head(N.path)) = 0
    <3>1. N.pc \in {"cr_ialloc", "cr_iget", "cr_fill"} => N.dp # 0
      BY <1>5 DEF Shape, at, Iputs, HasDp
    <3> QED BY <1>1, <1>5, <2>3, <3>1
  <2> QED BY <1>5, <2>1, <2>2, <2>4, <2>5, <2>6 DEF Local
<1>21. /\ \A s \in Slots : icache[s].ref > 0 => icache'[s].inum = icache[s].inum
       /\ \A s \in Slots : ~(icache[s].ref = 0 /\ icache'[s].ref > 0)
       /\ \A s \in Slots : ~(Count(N, s) > Count(r, s))
  BY <1>0, <1>1, <1>7
<1>22. \A k \in Kinds : N[k] # 0 /\ ~Dying(N, k) =>
         /\ \A q \in Procs : q # p => resv(proc[q], icache) # icache'[N[k]].inum
         /\ k # "ip" => resv(N, icache') # icache'[N[k]].inum
  BY <1>19
<1>23. Careful(p, 0)
  BY ONLY <1>1, <1>5, <1>6, <1>11, <1>12, <1>13, <1>14, <1>15, <1>16, <1>20, <1>21, <1>22 DEF Careful, r, N
<1>24. /\ \A q \in Procs : Local(proc'[q], icache', disk')
       /\ RefInv' /\ UniqInv' /\ LockInv' /\ AgreeInv' /\ ReserveInv'
       /\ \A q \in Procs : q # p =>
            resv(proc'[q], icache') = resv(proc[q], icache) /\ owed(proc'[q], icache') = owed(proc[q], icache)
  BY ONLY <1>23, StepOk, InodeInv, p \in Procs
<1>25. DiskInv(durable', {}, NoneOwed)
  BY <1>6 DEF InodeInv
<1> QED BY <1>6, <1>24, <1>25 DEF InodeInv

\* iupdate() of inode n.
LEMMA Updated ==
  ASSUME NEW d \in Images, NEW n \in Inums, NEW i \in Inodes
  PROVE  LET e == iupdate(d, n, i) IN
         /\ e \in Images /\ e.ino[n] = i /\ \A m \in Inums : m # n => e.ino[m] = d.ino[m]
         /\ e.used = d.used /\ e.data = d.data
BY DEF iupdate, Images

\* The first free block.
LEMMA FirstFree ==
  ASSUME NEW d \in Images, d.used # Blocks
  PROVE  Min(Blocks \ d.used) \in Blocks /\ Min(Blocks \ d.used) \notin d.used
<1>1. Blocks \ d.used \in SUBSET Nat
  BY Basics
<1>2. Blocks \ d.used # {}
  BY DEF Images
<1> QED BY <1>1, <1>2, MinFacts

\* balloc() of block b.
LEMMA Balloced ==
  ASSUME NEW d \in Images, d.used # Blocks
  PROVE  LET e == balloc(d)
             b == Min(Blocks \ d.used)
         IN
         /\ e \in Images /\ e.ino = d.ino /\ e.used = d.used \union {b} /\ b \in Blocks /\ b \notin d.used
         /\ e.data[b] = Zeroed /\ \A c \in Blocks : c # b => e.data[c] = d.data[c]
<1> DEFINE b == Min(Blocks \ d.used)
<1>1. b \in Blocks /\ b \notin d.used
  BY FirstFree
<1>2. balloc(d) = [d EXCEPT !.used = d.used \union {b}, !.data = [d.data EXCEPT ![b] = Zeroed]]
  BY DEF balloc, Images
<1> HIDE DEF b
<1>3. Zeroed \in [AllNames -> Inums \union {0}]
  BY DEF Zeroed
<1>4. /\ balloc(d).ino = d.ino /\ balloc(d).used = d.used \union {b} /\ balloc(d) \in Images
      /\ balloc(d).data = [d.data EXCEPT ![b] = Zeroed]
  <2>1. d.used \union {b} \in SUBSET Blocks
    BY <1>1 DEF Images
  <2>2. [d.data EXCEPT ![b] = Zeroed] \in [Blocks -> [AllNames -> Inums \union {0}]]
    BY <1>1, <1>3 DEF Images
  <2> QED BY <1>2, <2>1, <2>2 DEF Images
<1>5. balloc(d).data[b] = Zeroed /\ \A c \in Blocks : c # b => balloc(d).data[c] = d.data[c]
  BY <1>1, <1>4 DEF Images
<1> QED BY <1>1, <1>4, <1>5 DEF b

\* writei() of an entry of a directory that has its block.
LEMMA Dirlinked ==
  ASSUME NEW d \in Images, NEW n \in Inums, NEW i \in Inodes, i.addr # 0, NEW a \in AllNames, NEW k \in Inums \union {0}
  PROVE  LET e == dirlink(d, n, i, a, k) IN
         /\ e \in Images /\ e.ino = d.ino /\ e.used = d.used
         /\ \A b \in Blocks, x \in AllNames : e.data[b][x] = IF b = i.addr /\ x = a THEN k ELSE d.data[b][x]
<1>1. i.addr \in Blocks
  BY DEF Inodes
<1>2. bmapped(d, i) = i /\ bmap(d, n, i) = d
  BY DEF bmapped, bmap
<1>3. dirlink(d, n, i, a, k) = [d EXCEPT !.data = [d.data EXCEPT ![i.addr] = [d.data[i.addr] EXCEPT ![a] = k]]]
  BY <1>1, <1>2 DEF dirlink, Images
<1> DEFINE e == dirlink(d, n, i, a, k)  w == [d.data[i.addr] EXCEPT ![a] = k]
<1>4. w \in [AllNames -> Inums \union {0}] /\ \A x \in AllNames : w[x] = IF x = a THEN k ELSE d.data[i.addr][x]
  BY <1>1 DEF Images
<1>5. e = [d EXCEPT !.data = [d.data EXCEPT ![i.addr] = w]]
  BY <1>3
<1> HIDE DEF w, e
<1>6. e \in Images /\ e.ino = d.ino /\ e.used = d.used /\ e.data = [d.data EXCEPT ![i.addr] = w]
  BY <1>1, <1>4, <1>5 DEF Images
<1>7. \A b \in Blocks, x \in AllNames : e.data[b][x] = IF b = i.addr /\ x = a THEN k ELSE d.data[b][x]
  BY <1>1, <1>4, <1>6 DEF Images
<1> QED BY <1>6, <1>7 DEF e

\* A directory with the same block, and the same there, has the same entries.
LEMMA SameEnt ==
  ASSUME NEW d \in Images, NEW e \in Images, NEW m \in Inums,
         e.ino[m].type = d.ino[m].type, e.ino[m].addr = d.ino[m].addr,
         \A a \in AllNames : d.ino[m].addr # 0 => e.data[d.ino[m].addr][a] = d.data[d.ino[m].addr][a]
  PROVE  \A a \in AllNames : Ent(e, m, a) = Ent(d, m, a)
<1>1. \A a \in AllNames :
        Ent(d, m, a) = IF d.ino[m].type = "dir" /\ d.ino[m].addr # 0 THEN d.data[d.ino[m].addr][a] ELSE 0
  BY ImageFacts
<1>2. \A a \in AllNames :
        Ent(e, m, a) = IF e.ino[m].type = "dir" /\ e.ino[m].addr # 0 THEN e.data[e.ino[m].addr][a] ELSE 0
  BY ImageFacts
<1> QED BY ONLY <1>1, <1>2, e.ino[m].type = d.ino[m].type, e.ino[m].addr = d.ino[m].addr,
           \A a \in AllNames : d.ino[m].addr # 0 => e.data[d.ino[m].addr][a] = d.data[d.ino[m].addr][a]

\* An inode without a block, or no directory, has no entries.
LEMMA NoEnt ==
  ASSUME NEW d \in Images, NEW m \in Inums, d.ino[m].type # "dir" \/ d.ino[m].addr = 0
  PROVE  \A a \in AllNames : Ent(d, m, a) = 0
BY ImageFacts

\* p adds k to the links of the inode of entry s, writes it through and unlocks it, and
\* owes k links more.
Recounts(p, s, i, k) ==
  LET r == proc[p]
      N == proc'[p]
      n == icache[s].inum
  IN
  /\ Framed(p) /\ icache' = written(icache, s, i) /\ disk' = iupdate(disk, n, i)
  /\ s \in Slots /\ s \in Sees(r) \union {r.ip} /\ icache[s].lock \in {p, Nobody}
  /\ k \in Int /\ i \in Inodes
  /\ i.type = disk.ino[n].type /\ i.addr = disk.ino[n].addr /\ i.nlink = disk.ino[n].nlink + k
  /\ r.pc \notin {"cr_iget", "cr_fill", "iput_valid"}
  /\ N.pc \notin {"cr_ialloc", "cr_iget", "cr_fill", "ul_entry", "iput_free", "iput_valid"}
  /\ \A u \in Slots : Count(N, u) = Count(r, u)
  /\ ~Locks(N, s) /\ \A u \in Slots : u # s => (Locks(N, u) <=> Locks(r, u))
  /\ \A m \in Inums : One(owed(N, icache'), m) - One(owed(r, icache), m) = IF m = n THEN k ELSE 0
  /\ Stays(r, N, icache, icache, 0, 0) /\ Shape(N) /\ PathOk(N)
  /\ N.dp # 0 => N.dp = r.dp
  /\ N.old # 0 => N.old = r.old \/ (N.old = r.ip /\ disk.ino[icache[r.ip].inum].type = "file")

\* Such a step keeps the invariant.
LEMMA RecountOk ==
  ASSUME InodeInv, NEW p \in Procs, NEW s, NEW i, NEW k, Recounts(p, s, i, k)
  PROVE  InodeInv'
<1> DEFINE r == proc[p]  N == proc'[p]  n == icache[s].inum
<1>0. /\ Framed(p) /\ icache' = written(icache, s, i) /\ disk' = iupdate(disk, n, i)
      /\ s \in Slots /\ s \in Sees(r) \union {r.ip} /\ icache[s].lock \in {p, Nobody} /\ k \in Int /\ i \in Inodes
      /\ i.type = disk.ino[n].type /\ i.addr = disk.ino[n].addr /\ i.nlink = disk.ino[n].nlink + k
  BY DEF Recounts
<1>1. /\ r.pc \notin {"cr_iget", "cr_fill", "iput_valid"}
      /\ N.pc \notin {"cr_ialloc", "cr_iget", "cr_fill", "ul_entry", "iput_free", "iput_valid"}
      /\ \A u \in Slots : Count(N, u) = Count(r, u)
      /\ ~Locks(N, s) /\ \A u \in Slots : u # s => (Locks(N, u) <=> Locks(r, u))
      /\ \A m \in Inums : One(owed(N, icache'), m) - One(owed(r, icache), m) = IF m = n THEN k ELSE 0
      /\ Stays(r, N, icache, icache, 0, 0) /\ Shape(N) /\ PathOk(N)
      /\ N.dp # 0 => N.dp = r.dp
      /\ N.old # 0 => N.old = r.old \/ (N.old = r.ip /\ disk.ino[icache[r.ip].inum].type = "file")
  BY DEF Recounts
<1>2. /\ icache \in [Slots -> Entries] /\ disk \in Images /\ s # 0 /\ n \in Inums
      /\ \A u \in Slots : icache[u].ref \in Nat
  BY <1>0, Mine, Zenon
<1>3. disk.ino[n].type # "none" /\ n \notin Reserved
  <2>1. s \in Sees(r) => disk.ino[n].type # "none" /\ n \notin Reserved
    BY <1>2, Mine, NotReserved DEF Sees
  <2>2. s = r.ip => disk.ino[n].type # "none" /\ n \notin Reserved
    BY <1>1, <1>2, Mine, NotReserved, Zenon
  <2> QED BY <1>0, <2>1, <2>2
<1>b. Nobody # p
  BY InodeAssumption
<1>4. /\ disk' \in Images /\ disk'.ino[n] = i /\ \A m \in Inums : m # n => disk'.ino[m] = disk.ino[m]
      /\ disk'.used = disk.used /\ disk'.data = disk.data
  BY <1>0, <1>2, Updated
<1>5. \A m \in Inums, a \in AllNames : Ent(disk', m, a) = Ent(disk, m, a)
  <2>1. \A m \in Inums : disk'.ino[m].type = disk.ino[m].type /\ disk'.ino[m].addr = disk.ino[m].addr
    BY <1>0, <1>4
  <2> QED BY <1>2, <1>4, <2>1, SameEnt
<1>6. /\ icache' \in [Slots -> Entries] /\ \A u \in Slots : u # s => icache'[u] = icache[u]
      /\ icache'[s].inum = n /\ icache'[s].ref = icache[s].ref /\ icache'[s].valid = TRUE
      /\ icache'[s].di = i /\ icache'[s].lock = Nobody
  <2>1. /\ written(icache, s, i) \in [Slots -> Entries] /\ \A u \in Slots : u # s => written(icache, s, i)[u] = icache[u]
        /\ written(icache, s, i)[s].inum = icache[s].inum /\ written(icache, s, i)[s].ref = icache[s].ref
        /\ written(icache, s, i)[s].valid = TRUE /\ written(icache, s, i)[s].di = i /\ written(icache, s, i)[s].lock = Nobody
    <3>1. icache \in [Slots -> Entries] /\ s \in Slots /\ i \in Inodes
      BY <1>0, <1>2
    <3> QED BY ONLY <3>1 DEF written, Entries
  <2> QED BY ONLY <1>0, <2>1
<1> HIDE DEF r, N
<1>7. \A u \in Slots : Count(N, u) \in Nat
  BY OfKinds
<1>8. resv(N, icache') = 0 /\ resv(r, icache) = 0
  BY <1>1 DEF resv
<1>9. Alters(p, {s})
  <2>1. \A u \in Slots : /\ icache'[u].inum = icache[u].inum /\ Count(N, u) <= Count(r, u)
                         /\ icache'[u].ref = icache[u].ref + Count(N, u) - Count(r, u)
    BY <1>1, <1>2, <1>6, <1>7
  <2>2. \A u \in Slots : u \notin {s} =>
          /\ icache'[u].lock = icache[u].lock /\ icache'[u].valid = icache[u].valid /\ icache'[u].di = icache[u].di
          /\ Locks(N, u) <=> Locks(r, u)
    BY <1>1, <1>6
  <2>3. /\ s \in Slots /\ s \in Sees(r) \union {r.ip}
        /\ icache[s].lock \in {p, Nobody} /\ icache'[s].lock \in {p, Nobody}
        /\ icache'[s].lock = p <=> Locks(N, s)
        /\ Locks(N, s) => icache'[s].valid
        /\ icache'[s].di = disk'.ino[icache[s].inum] /\ icache'[s].di.type # "none"
        /\ disk'.ino[icache[s].inum].type = disk.ino[icache[s].inum].type
    BY <1>0, <1>1, <1>3, <1>4, <1>6, <1>b
  <2>5. \A t \in {s} :
          /\ t \in Slots /\ t \in Sees(r) \union {r.ip}
          /\ icache[t].lock \in {p, Nobody} /\ icache'[t].lock \in {p, Nobody}
          /\ icache'[t].lock = p <=> Locks(N, t)
          /\ Locks(N, t) => icache'[t].valid
          /\ icache'[t].di = disk'.ino[icache[t].inum] /\ icache'[t].di.type # "none"
          /\ disk'.ino[icache[t].inum].type = disk.ino[icache[t].inum].type
    BY ONLY <2>3
  <2>4. \A m \in Inums : disk.ino[m].type # "none" /\ (\A t \in {s} : icache[t].inum # m) =>
          disk'.ino[m] = disk.ino[m] /\ \A a \in AllNames : Ent(disk', m, a) = Ent(disk, m, a)
    BY <1>4, <1>5
  <2> QED BY ONLY <1>0, <1>1, <1>6, <1>8, <2>1, <2>2, <2>4, <2>5 DEF Alters, r, N
<1>10. \A q \in Procs : q # p =>
         resv(proc'[q], icache') = resv(proc[q], icache) /\ owed(proc'[q], icache') = owed(proc[q], icache)
  BY ONLY <1>9, AlterOk, InodeInv, p \in Procs
<1>11. /\ Reserved' = Reserved /\ Reserved \in SUBSET Inums /\ Owed \in [Inums -> Nat] /\ Owed' \in [Inums -> Nat]
       /\ \A m \in Inums : Owed'[m] = Owed[m] + One(owed(N, icache'), m) - One(owed(r, icache), m)
  BY <1>8, <1>10, Debts DEF r, N
<1>12. \A m \in Inums : One(owed(N, icache'), m) \in Nat /\ One(owed(r, icache), m) \in Nat
  BY DEF One
<1>13. Owed'[n] = Owed[n] + k /\ \A m \in Inums : m # n => Owed'[m] = Owed[m]
  <2>1. \A m \in Inums : Owed'[m] = Owed[m] + IF m = n THEN k ELSE 0
    BY <1>1, <1>11, <1>12
  <2> QED BY <1>0, <1>2, <1>11, <2>1
<1>14. DiskInv(disk, Reserved, Owed)
  BY DEF InodeInv
<1>15. DiskInv(disk', Reserved, Owed')
  <2> HIDE DEF n
  <2>1. disk'.ino[n].type = disk.ino[n].type /\ disk'.ino[n].addr = disk.ino[n].addr
        /\ disk'.ino[n].nlink = disk.ino[n].nlink + k
    BY <1>0, <1>4
  <2> QED BY ONLY <1>0, <1>2, <1>3, <1>4, <1>5, <1>11, <1>13, <1>14, <2>1, NlinkChanged
<1>16. DiskInv(disk', Reserved', Owed')
  BY <1>11, <1>15
<1> QED BY ONLY <1>9, <1>16, AlterOk, InodeInv, p \in Procs
=============================================================================

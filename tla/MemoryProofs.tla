---------------------------- MODULE MemoryProofs -----------------------------
(***************************************************************************)
(* Proofs about physical and user memory (Memory): frames are neither      *)
(* lost, shared nor freed twice, and address spaces have the pages and the *)
(* contents they should, for every size of memory and number of processes  *)
(* and wherever memory runs out.                                           *)
(*                                                                         *)
(* The parts of the invariant about one process are operators on its       *)
(* record, so that they can be said of a state and of the next one.        *)
(***************************************************************************)
EXTENDS Memory, TLAPS, FiniteSetTheorems, WellFoundedInduction

\* Types.
Frames0 == Frames \cup {0}
Spaces == [dir : Frames0, ktab : Frames0, tab : [Tables -> Frames0],
           pte : [Pages -> Frames0], user : SUBSET Pages]
Memories == [free : SUBSET Frames, twice : BOOLEAN, holds : [Frames -> Int]]
CallSet == [k : {"none", "fork", "load", "stack", "grow"}, s : Spaces, a : Nat,
            from : Nat, to : Nat, child : Procs \cup {0}]
ProcSet == [st : {"unused", "embryo", "run", "fault", "zombie"}, kstack : Frames0,
            s : Spaces, sz : Nat, call : CallSet, own : SUBSET Procs]

TypeInv == ram \in Memories /\ proc \in [Procs -> ProcSet]

\* A page directory that freevm() can take apart: a page has a page table, and
\* what the user may touch is there.
Built(s) ==
  /\ s.dir # 0 /\ s.ktab # 0
  /\ \A i \in Pages : s.pte[i] # 0 => s.tab[i \div NPTENTRIES] # 0
  /\ \A i \in s.user : s.pte[i] # 0

\* No frame has two places in a space.
Once(s) ==
  /\ s.dir # 0 => s.ktab # s.dir
  /\ \A t \in Tables : s.tab[t] # 0 => s.tab[t] # s.dir /\ s.tab[t] # s.ktab
  /\ \A i \in Pages : s.pte[i] # 0 => s.pte[i] # s.dir /\ s.pte[i] # s.ktab
  /\ \A t, u \in Tables : s.tab[t] # 0 /\ s.tab[t] = s.tab[u] => t = u
  /\ \A i, j \in Pages : s.pte[i] # 0 /\ s.pte[i] = s.pte[j] => i = j
  /\ \A t \in Tables, i \in Pages : s.pte[i] # 0 => s.pte[i] # s.tab[t]

\* The frames of a space.
FramesOf(s) ==
  {f \in Frames : \/ f = s.dir \/ f = s.ktab
                  \/ \E t \in Tables : f = s.tab[t]
                  \/ \E i \in Pages : f = s.pte[i]}

\* A space whose frames are its own and not free in memory m.
Good(m, s) ==
  m \in Memories /\ s \in Spaces /\ Once(s) /\ \A f \in FramesOf(s) : f \notin m.free

\* The pages of a space are those below address n.
Mapped(s, n) == \A i \in Pages : s.pte[i] # 0 <=> i * PGSIZE < n

\* What is built in each state of a process P.
Shape(P) ==
  /\ P.st \in {"unused", "embryo"} => P.s = NoSpace
  /\ P.st = "unused" <=> P.kstack = 0
  /\ P.st \in {"run", "fault", "zombie"} => Built(P.s)
  /\ P.st # "run" => P.call.k = "none"
  /\ P.call.k \in {"none", "grow"} => P.call.s = NoSpace
  /\ P.call.k \in {"load", "stack"} => Built(P.call.s)
  /\ P.call.k = "fork" => P.call.s = NoSpace \/ Built(P.call.s)

\* Sizes and loop addresses of a process: what is mapped in it and in the space
\* its call is building.
Sized(P) ==
  /\ P.st = "run" => P.sz <= KERNBASE /\ Mapped(P.s, IF P.call.k = "grow" THEN P.call.a ELSE P.sz)
  /\ P.call.a % PGSIZE = 0
  /\ P.call.k = "grow" => /\ P.call.from = P.sz /\ P.sz <= P.call.a /\ P.sz < P.call.to
                          /\ P.call.to < KERNBASE /\ P.call.a < P.call.to + PGSIZE
  /\ P.call.k \in {"load", "stack"} => /\ P.call.a < P.call.to + PGSIZE /\ P.call.to <= KERNBASE
                                       /\ Mapped(P.call.s, P.call.a)
  /\ P.call.k = "fork" => P.call.a < P.sz + PGSIZE /\ Mapped(P.call.s, P.call.a)
  /\ P.call.k = "stack" => P.call.to % PGSIZE = 0

\* The pages of space s hold contents of A, h being what the frames hold.
Filled(s, A, h) == \A i \in Pages : s.pte[i] # 0 => h[s.pte[i]] \in A

\* What the pages of process p with record P hold: its own, those of a program
\* being loaded, and those fork() has copied.
Content(p, P, h) ==
  /\ P.st = "run" => p \in P.own /\ Filled(P.s, {ZERO, CODE} \cup P.own, h)
  /\ P.call.k \in {"load", "stack"} => Filled(P.call.s, {ZERO, CODE}, h)
  /\ P.call.k = "fork" =>
       \A i \in Pages : P.call.s.pte[i] # 0 =>
         h[P.call.s.pte[i]] = h[P.s.pte[i]] /\ (i \in P.call.s.user <=> i \in P.s.user)

\* A process and all that belongs to it.
Sound(p, P, h) ==
  Shape(P) /\ Sized(P) /\ Content(p, P, h) /\ Once(P.s) /\ Once(P.call.s)

\* The slot a fork() fills is its own.
ForkInv ==
  /\ \A p \in Procs : Calls(p, "fork") =>
       proc[p].call.child \in Procs /\ proc[proc[p].call.child].st = "embryo"
  /\ \A p, q \in Procs :
       Calls(p, "fork") /\ Calls(q, "fork") /\ proc[p].call.child = proc[q].call.child => p = q

\* Everything that can hold frames: the kernel stack, the space and the space of
\* the call under way of every process.  The frames a part of process P holds,
\* and those of a holder in process table T.
Kinds == {"kstack", "s", "call"}
Holders == Kinds \X Procs
Part(P, k) ==
  IF k = "kstack" THEN {f \in Frames : f = P.kstack}
  ELSE IF k = "s" THEN FramesOf(P.s)
  ELSE FramesOf(P.call.s)
Held(T, o) == Part(T[o[2]], o[1])

\* The free list of memory m and the holders of table T share the frames out.
Own(m, T) ==
  /\ ~m.twice
  /\ \A o, q \in Holders, f \in Frames : f \in Held(T, o) /\ f \in Held(T, q) => o = q
  /\ \A o \in Holders, f \in Frames : f \in Held(T, o) => f \notin m.free
  /\ \A f \in Frames : f \in m.free \/ \E o \in Holders : f \in Held(T, o)

\* The inductive invariant.
MemInv ==
  /\ TypeInv
  /\ \A p \in Procs : Sound(p, proc[p], ram.holds)
  /\ ForkInv
  /\ Own(ram, proc)
-----------------------------------------------------------------------------
(* Pages and sizes. *)

\* Division with remainder by a positive number.
LEMMA DivMod ==
  ASSUME NEW x \in Int, NEW P \in Nat \ {0}
  PROVE  /\ x \div P \in Int /\ x % P \in 0 .. P - 1
         /\ x = P * (x \div P) + (x % P)
OBVIOUS

\* The remainder is the only one.
LEMMA ModUnique ==
  ASSUME NEW P \in Nat \ {0}, NEW q \in Int, NEW r \in 0 .. P - 1
  PROVE  (P * q + r) % P = r
<1> DEFINE x == P * q + r
           s == x \div P
           t == x % P
<1>1. x \in Int /\ s \in Int /\ t \in 0 .. P - 1 /\ x = P * s + t
  BY DivMod
<1>2. P * (q - s) = t - r
  BY <1>1
<1>3. CASE q - s >= 1
  BY <1>1, <1>2, <1>3
<1>4. CASE s - q >= 1
  BY <1>1, <1>2, <1>4
<1> QED
  BY <1>1, <1>2, <1>3, <1>4

\* A block that holds P pages: a page number below P * D lies in a block below D.
LEMMA DivBelow ==
  ASSUME NEW P \in Nat \ {0}, NEW D \in Nat, NEW x \in Nat, x < D * P
  PROVE  x \div P \in 0 .. D - 1
<1> DEFINE q == x \div P
           r == x % P
<1>1. q \in Int /\ r \in 0 .. P - 1 /\ x = P * q + r
  BY DivMod
<1> HIDE DEF q, r
<1>2. q >= 0
  <2>1. ASSUME q <= -1 PROVE FALSE
    BY <1>1, <2>1
  <2> QED
    BY <1>1, <2>1
<1>3. q < D
  <2>1. ASSUME q >= D PROVE FALSE
    <3>1. P * (q - D) >= 0
      BY <1>1, <2>1
    <3> QED
      BY <1>1, <3>1
  <2> QED
    BY <1>1, <2>1
<1> QED
  BY <1>1, <1>2, <1>3 DEF q

\* A set of naturals has a least element.
LEMMA LeastNatural ==
  ASSUME NEW S \in SUBSET Nat, S # {}
  PROVE  \E s \in S : \A t \in S : s <= t
<1> DEFINE R == OpToRel(<, Nat)
<1>1. IsWellFoundedOn(R, Nat)
  BY NatLessThanWellFounded, Zenon
<1>2. R = {ss \in Nat \X Nat : ss[1] < ss[2]}
  BY Zenon DEF OpToRel
<1> HIDE DEF R
<1>3. \A s, t \in Nat : t < s => <<t, s>> \in R
  BY <1>2
<1>4. PICK s \in S : \A t \in S : ~(<<t, s>> \in R)
  BY <1>1, WFMin
<1>5. \A t \in S : ~(t < s)
  BY <1>3, <1>4
<1> QED
  BY <1>5

\* A multiple of the page size is the address of a page.
LEMMA PageNumber ==
  ASSUME NEW a \in Nat, a % PGSIZE = 0
  PROVE  a \div PGSIZE \in Nat /\ (a \div PGSIZE) * PGSIZE = a
<1> DEFINE q == a \div PGSIZE
<1>1. q \in Int /\ a = PGSIZE * q
  BY DivMod, MemorySizes
<1> HIDE DEF q
<1>2. q \in Nat
  <2> SUFFICES ASSUME q < 0 PROVE FALSE
    BY <1>1
  <2>1. PGSIZE * q < 0
    BY <1>1, MemorySizes
  <2> QED BY <1>1, <2>1
<1>3. PGSIZE * q = q * PGSIZE
  BY <1>1, MemorySizes
<1> QED BY <1>1, <1>2, <1>3 DEF q

\* User memory ends at the end of a page table.
LEMMA KernbaseFacts ==
  \E T \in Nat \ {0} :
    /\ KERNBASE = (T * NPTENTRIES) * PGSIZE
    /\ KERNBASE \div PGSIZE = T * NPTENTRIES
    /\ KERNBASE \div (PGSIZE * NPTENTRIES) = T
<1> DEFINE W == PGSIZE * NPTENTRIES
           T == KERNBASE \div W
<1>1. W \in Nat \ {0} /\ KERNBASE % W = 0 /\ KERNBASE \in Int
  BY MemorySizes
<1>2. T \in Int /\ KERNBASE = W * T
  <2> HIDE DEF W
  <2>1. T \in Int /\ KERNBASE = W * T + (KERNBASE % W)
    BY <1>1, DivMod
  <2>2. W * T \in Int
    BY <1>1, <2>1
  <2> QED BY <1>1, <2>1, <2>2
<1> HIDE DEF T
<1>3. T \in Nat \ {0}
  <2> SUFFICES ASSUME T <= 0 PROVE FALSE
    BY <1>2
  <2>1. W * T <= 0
    BY <1>1, <1>2
  <2> QED BY <1>2, <2>1, MemorySizes
<1>4. KERNBASE = (T * NPTENTRIES) * PGSIZE
  BY <1>2, <1>3, MemorySizes
<1>5. KERNBASE \div PGSIZE = T * NPTENTRIES
  <2> DEFINE q == KERNBASE \div PGSIZE
             r == KERNBASE % PGSIZE
             n == T * NPTENTRIES
  <2>1. q \in Int /\ r \in 0 .. PGSIZE - 1 /\ KERNBASE = PGSIZE * q + r
    BY DivMod, MemorySizes
  <2>2. n \in Nat /\ KERNBASE = n * PGSIZE
    BY <1>3, <1>4, MemorySizes
  <2> HIDE DEF q, r, n
  <2>3. PGSIZE * q + r = PGSIZE * n
    BY <2>1, <2>2, MemorySizes
  <2>4. ~(q < n)
    <3> SUFFICES ASSUME q < n PROVE FALSE
      OBVIOUS
    <3>1. PGSIZE * (q + 1) <= PGSIZE * n
      BY <2>1, <2>2, MemorySizes
    <3>2. PGSIZE * (q + 1) = PGSIZE * q + PGSIZE
      BY <2>1, MemorySizes
    <3> DEFINE x == PGSIZE * q
               y == PGSIZE * n
    <3>3. x \in Int /\ y \in Int
      BY <2>1, <2>2, MemorySizes
    <3> QED BY <2>1, <2>3, <3>1, <3>2, <3>3, MemorySizes
  <2>5. ~(n < q)
    <3> SUFFICES ASSUME n < q PROVE FALSE
      OBVIOUS
    <3>1. PGSIZE * (n + 1) <= PGSIZE * q
      BY <2>1, <2>2, MemorySizes
    <3>2. PGSIZE * (n + 1) = PGSIZE * n + PGSIZE
      BY <2>2, MemorySizes
    <3>3. PGSIZE * q \in Int /\ PGSIZE * n \in Int
      BY <2>1, <2>2, MemorySizes
    <3> QED BY <2>1, <2>3, <3>1, <3>2, <3>3, MemorySizes
  <2>6. q = n
    BY <2>1, <2>2, <2>4, <2>5
  <2> QED BY <2>6 DEF q, n
<1> QED BY <1>3, <1>4, <1>5 DEF T

\* Numbers and addresses of pages.
LEMMA PageFacts ==
  /\ \A i \in Pages : /\ i \in Nat /\ i \div NPTENTRIES \in Tables
                      /\ i * PGSIZE \in Nat /\ i * PGSIZE < KERNBASE
  /\ 0 \in Pages /\ 0 \in Tables
  /\ \A a \in Nat : a % PGSIZE = 0 /\ a < KERNBASE
       => a \div PGSIZE \in Pages /\ (a \div PGSIZE) * PGSIZE = a
<1>1. PICK T \in Nat \ {0} :
        /\ KERNBASE = (T * NPTENTRIES) * PGSIZE
        /\ KERNBASE \div PGSIZE = T * NPTENTRIES
        /\ KERNBASE \div (PGSIZE * NPTENTRIES) = T
  BY KernbaseFacts
<1>2. Pages = 0 .. T * NPTENTRIES - 1 /\ Tables = 0 .. T - 1
  BY <1>1 DEF Pages, Tables
<1> DEFINE n == T * NPTENTRIES
<1>3. n \in Nat \ {0} /\ KERNBASE = n * PGSIZE /\ Pages = 0 .. n - 1
  BY <1>1, <1>2, MemorySizes
<1>4. ASSUME NEW i \in Pages
      PROVE  /\ i \in Nat /\ i \div NPTENTRIES \in Tables
             /\ i * PGSIZE \in Nat /\ i * PGSIZE < KERNBASE
  <2>1. i \in Nat /\ i < T * NPTENTRIES
    BY <1>2, <1>3
  <2>2. i \div NPTENTRIES \in 0 .. T - 1
    BY <2>1, DivBelow, MemorySizes
  <2> HIDE DEF n
  <2>3. i \in Nat /\ i < n
    BY <1>3
  <2>4. i * PGSIZE \in Nat /\ i * PGSIZE < n * PGSIZE
    BY <1>3, <2>3, MemorySizes
  <2> QED BY <1>2, <1>3, <2>2, <2>3, <2>4
<1>5. ASSUME NEW a \in Nat, a % PGSIZE = 0, a < KERNBASE
      PROVE  a \div PGSIZE \in Pages /\ (a \div PGSIZE) * PGSIZE = a
  <2>1. a \div PGSIZE \in Nat /\ (a \div PGSIZE) * PGSIZE = a
    BY <1>5, PageNumber
  <2> HIDE DEF n
  <2>2. a < n * PGSIZE
    BY <1>3, <1>5
  <2>3. a \div PGSIZE \in 0 .. n - 1
    BY <1>3, <2>2, DivBelow, MemorySizes
  <2> QED BY <1>3, <2>1, <2>3
<1>6. 0 \in Pages /\ 0 \in Tables
  BY <1>1, <1>2, <1>3
<1> QED BY <1>4, <1>5, <1>6

\* Between two addresses of pages there is room for a page.
LEMMA PageApart ==
  ASSUME NEW i \in Pages, NEW a \in Nat, a % PGSIZE = 0
  PROVE  /\ i * PGSIZE < a => i * PGSIZE + PGSIZE <= a
         /\ a < i * PGSIZE => a + PGSIZE <= i * PGSIZE
         /\ i * PGSIZE = a => i = a \div PGSIZE
<1> DEFINE k == a \div PGSIZE
<1>1. k \in Nat /\ k * PGSIZE = a /\ i \in Nat
  BY PageNumber, PageFacts
<1> HIDE DEF k
<1>2. i < k => (i + 1) * PGSIZE <= k * PGSIZE
  BY <1>1, MemorySizes
<1>3. k < i => (k + 1) * PGSIZE <= i * PGSIZE
  BY <1>1, MemorySizes
<1>4. (i + 1) * PGSIZE = i * PGSIZE + PGSIZE /\ (k + 1) * PGSIZE = k * PGSIZE + PGSIZE
  BY <1>1, MemorySizes
<1>5. i * PGSIZE \in Nat /\ PGSIZE \in Nat \ {0}
  BY PageFacts, MemorySizes
<1>6. i < k \/ i = k \/ k < i
  BY <1>1
<1>7. i * PGSIZE = a => i = k
  BY <1>1, <1>2, <1>3, <1>4, <1>5, <1>6
<1>8. CASE i < k
  BY <1>8, <1>1, <1>2, <1>4, <1>5
<1>9. CASE k < i
  BY <1>9, <1>1, <1>3, <1>4, <1>5
<1>10. CASE i = k
  BY <1>10, <1>1, <1>5
<1> QED BY <1>6, <1>7, <1>8, <1>9, <1>10 DEF k

\* PGROUNDUP() is the next multiple of the page size.
LEMMA RoundUp ==
  ASSUME NEW n \in Nat
  PROVE  /\ PGROUNDUP(n) \in Nat /\ PGROUNDUP(n) % PGSIZE = 0
         /\ n <= PGROUNDUP(n) /\ PGROUNDUP(n) < n + PGSIZE
<1> DEFINE x == n + PGSIZE - 1
           q == x \div PGSIZE
           r == x % PGSIZE
<1>1. x \in Nat
  BY MemorySizes
<1>2. q \in Int /\ r \in 0 .. PGSIZE - 1 /\ x = PGSIZE * q + r
  BY <1>1, DivMod, MemorySizes
<1>3. PGROUNDUP(n) = q * PGSIZE
  BY DEF PGROUNDUP
<1>4. x = n + PGSIZE - 1
  OBVIOUS
<1> HIDE DEF x, q, r
<1>5. PGSIZE * q = q * PGSIZE /\ q * PGSIZE \in Int
  BY <1>2, MemorySizes
<1> DEFINE y == q * PGSIZE
<1>6. y \in Int /\ x = y + r
  BY <1>2, <1>5
<1> HIDE DEF y
<1>7. n <= y /\ y < n + PGSIZE /\ y \in Nat
  BY <1>2, <1>4, <1>6, MemorySizes
<1>8. (PGSIZE * q + 0) % PGSIZE = 0
  BY <1>2, ModUnique, MemorySizes
<1>9. PGSIZE * q + 0 = y
  BY <1>5 DEF y
<1> QED BY <1>3, <1>7, <1>8, <1>9 DEF y

\* A page below the rounded address is below the address.
LEMMA RoundUpPage ==
  ASSUME NEW n \in Nat, NEW i \in Pages
  PROVE  i * PGSIZE < PGROUNDUP(n) <=> i * PGSIZE < n
<1>1. PGROUNDUP(n) \in Nat /\ PGROUNDUP(n) % PGSIZE = 0
      /\ n <= PGROUNDUP(n) /\ PGROUNDUP(n) < n + PGSIZE
  BY RoundUp
<1>2. i * PGSIZE < PGROUNDUP(n) => i * PGSIZE + PGSIZE <= PGROUNDUP(n)
  BY <1>1, PageApart
<1>3. i * PGSIZE \in Nat /\ PGSIZE \in Nat
  BY PageFacts, MemorySizes
<1> QED BY <1>1, <1>2, <1>3

\* Nothing is below 0, and everything is from there on.
LEMMA RoundUpZero ==
  ASSUME NEW i \in Pages PROVE PGROUNDUP(0) <= i * PGSIZE
<1>1. ~(i * PGSIZE < PGROUNDUP(0))
  BY RoundUpPage, PageFacts
<1>2. PGROUNDUP(0) \in Nat /\ i * PGSIZE \in Nat
  BY RoundUp, PageFacts
<1> QED BY <1>1, <1>2
-----------------------------------------------------------------------------
(* kalloc(), kfree() and the operations on a page directory. *)

\* kalloc() takes a free frame if there is one.
LEMMA KallocFacts ==
  ASSUME NEW m \in Memories
  PROVE  IF m.free = {} THEN kalloc(m) = 0
         ELSE kalloc(m) \in m.free /\ kalloc(m) \in Frames /\ kalloc(m) # 0
<1>1. m.free \in SUBSET Frames
  BY DEF Memories
<1>2. CASE m.free = {}
  BY <1>2 DEF kalloc
<1>3. CASE m.free # {}
  <2>1. m.free \in SUBSET Nat
    BY <1>1, MemorySizes
  <2>2. \E x \in m.free : \A y \in m.free : x <= y
    BY <1>3, <2>1, LeastNatural
  <2>3. Min(m.free) \in m.free
    BY <2>2 DEF Min
  <2>4. kalloc(m) = Min(m.free)
    BY <1>3 DEF kalloc
  <2> QED BY <1>1, <1>3, <2>3, <2>4, MemorySizes
<1> QED BY <1>2, <1>3

\* Taking a frame off the free list and filling it.
LEMMA TakeFacts ==
  ASSUME NEW m \in Memories, NEW f \in Frames, NEW x \in Int
  PROVE  /\ Take(m, f, x) \in Memories
         /\ Take(m, f, x).free = m.free \ {f}
         /\ Take(m, f, x).twice = m.twice
         /\ \A g \in Frames : Take(m, f, x).holds[g] = IF g = f THEN x ELSE m.holds[g]
BY DEF Take, Memories

\* Giving frames back.
LEMMA KfreeFacts ==
  ASSUME NEW m \in Memories, NEW S \in SUBSET Frames
  PROVE  /\ kfree(m, S) \in Memories
         /\ kfree(m, S).free = m.free \cup S
         /\ kfree(m, S).twice = (m.twice \/ m.free \cap S # {})
         /\ \A g \in Frames : g \notin S => kfree(m, S).holds[g] = m.holds[g]
<1>1. JUNK \in Int
  BY DEF JUNK
<1> QED BY <1>1 DEF kfree, Memories

\* The empty space.
LEMMA NoSpaceFacts ==
  /\ NoSpace \in Spaces /\ Once(NoSpace) /\ FramesOf(NoSpace) = {}
  /\ NoSpace.dir = 0 /\ NoSpace.ktab = 0 /\ NoSpace.user = {}
  /\ \A i \in Pages : NoSpace.pte[i] = 0
  /\ \A t \in Tables : NoSpace.tab[t] = 0
<1>1. /\ NoSpace.dir = 0 /\ NoSpace.ktab = 0 /\ NoSpace.user = {}
      /\ \A i \in Pages : NoSpace.pte[i] = 0
      /\ \A t \in Tables : NoSpace.tab[t] = 0
  BY DEF NoSpace
<1>2. NoSpace \in Spaces
  BY DEF NoSpace, Spaces, Frames0
<1>3. Once(NoSpace)
  BY <1>1 DEF Once
<1>4. FramesOf(NoSpace) = {}
  BY <1>1, MemorySizes DEF FramesOf
<1> QED BY <1>1, <1>2, <1>3, <1>4

\* What the map of a space into memory m becomes when page i gets frame f and,
\* if need be, its page table gets frame g, both free before.
LEMMA PutPage ==
  ASSUME NEW m, NEW s, Good(m, s), NEW i \in Pages, s.pte[i] = 0,
         NEW f \in m.free, NEW u \in SUBSET Pages, NEW tab \in [Tables -> Frames0],
         NEW t \in Tables,
         \/ tab = s.tab
         \/ /\ s.tab[t] = 0 /\ tab[t] \in m.free /\ tab[t] # f
            /\ \A k \in Tables : k # t => tab[k] = s.tab[k],
         NEW n \in Spaces, n.dir = s.dir, n.ktab = s.ktab, n.tab = tab, n.user = u,
         \A j \in Pages : n.pte[j] = IF j = i THEN f ELSE s.pte[j]
  PROVE  /\ Once(n)
         /\ \A g \in Frames : g \in FramesOf(n) <=> \/ g \in FramesOf(s) \/ g = f
                                                    \/ g = tab[t]
<1>0. m.free \subseteq Frames /\ 0 \notin m.free /\ f # 0 /\ f \in Frames
  BY MemorySizes DEF Good, Memories
<1>1. \A g \in m.free : /\ g # s.dir /\ g # s.ktab
                        /\ \A k \in Tables : g # s.tab[k]
                        /\ \A j \in Pages : g # s.pte[j]
  BY <1>0 DEF Good, FramesOf
<1>2. Once(s)
  BY DEF Good
<1>3. CASE tab = s.tab
  <2>1. Once(n)
    BY <1>0, <1>1, <1>2, <1>3 DEF Once
  <2>2. \A g \in Frames : g \in FramesOf(n) <=> g \in FramesOf(s) \/ g = f
    BY <1>0, <1>3, MemorySizes DEF FramesOf
  <2>3. tab[t] \in Frames => tab[t] \in FramesOf(s)
    BY <1>3 DEF FramesOf
  <2> QED BY <2>1, <2>2, <2>3
<1>4. CASE /\ s.tab[t] = 0 /\ tab[t] \in m.free /\ tab[t] # f
           /\ \A k \in Tables : k # t => tab[k] = s.tab[k]
  <2>1. Once(n)
    <3>1. \A k \in Tables : n.tab[k] # 0 => n.tab[k] # n.dir /\ n.tab[k] # n.ktab
      BY <1>0, <1>1, <1>2, <1>4 DEF Once
    <3>2. \A j \in Pages : n.pte[j] # 0 => n.pte[j] # n.dir /\ n.pte[j] # n.ktab
      BY <1>0, <1>1, <1>2, <1>4 DEF Once
    <3>3. \A k, l \in Tables : n.tab[k] # 0 /\ n.tab[k] = n.tab[l] => k = l
      BY <1>0, <1>1, <1>2, <1>4 DEF Once
    <3>4. \A j, l \in Pages : n.pte[j] # 0 /\ n.pte[j] = n.pte[l] => j = l
      BY <1>0, <1>1, <1>2, <1>4 DEF Once
    <3>5. \A k \in Tables, j \in Pages : n.pte[j] # 0 => n.pte[j] # n.tab[k]
      BY <1>0, <1>1, <1>2, <1>4 DEF Once
    <3> QED BY <1>2, <3>1, <3>2, <3>3, <3>4, <3>5 DEF Once
  <2>2. ASSUME NEW g \in Frames
        PROVE  g \in FramesOf(n) <=> g \in FramesOf(s) \/ g = f \/ g = tab[t]
    <3>1. (\E k \in Tables : g = n.tab[k]) <=> (\E k \in Tables : g = s.tab[k]) \/ g = tab[t]
      BY <1>4, MemorySizes
    <3>2. (\E j \in Pages : g = n.pte[j]) <=> (\E j \in Pages : g = s.pte[j]) \/ g = f
      BY <1>0, MemorySizes
    <3> QED BY <3>1, <3>2 DEF FramesOf
  <2> QED BY <2>1, <2>2
<1> QED BY <1>3, <1>4

\* Going from memory m and space s to n and r, frames move between the space
\* and the free list only, and those in use before and after keep what they hold.
Conserves(m, s, n, r) ==
  /\ Good(n, r)
  /\ n.twice = m.twice
  /\ \A g \in Frames : g \in FramesOf(r) \/ g \in n.free <=> g \in FramesOf(s) \/ g \in m.free
  /\ \A g \in Frames : g \notin m.free /\ g \notin n.free => n.holds[g] = m.holds[g]

\* mappages() of a new frame with contents x for page i: the page, and the page
\* table if it is new, come from the free list.
LEMMA MapFresh ==
  ASSUME NEW m, NEW s, Good(m, s), NEW i \in Pages, s.pte[i] = 0, NEW x \in Int,
         NEW u \in BOOLEAN, kalloc(m) # 0
  PROVE  LET f == kalloc(m)
             v == mappages(Take(m, f, x), s, i, f, u)
         IN  /\ f \in m.free /\ f \in Frames
             /\ v.ok \in BOOLEAN
             /\ v.ok => /\ Conserves(m, s, v.m, v.s)
                        /\ \A j \in Pages : v.s.pte[j] = IF j = i THEN f ELSE s.pte[j]
                        /\ v.s.user = IF u THEN s.user \cup {i} ELSE s.user \ {i}
                        /\ v.m.holds[f] = x
                        /\ Built(s) => Built(v.s)
             /\ ~v.ok => v.m = Take(m, f, x) /\ v.s = s
<1> DEFINE f == kalloc(m)
           t == i \div NPTENTRIES
           m1 == Take(m, f, x)
           new == kalloc(m1)
           put == [s EXCEPT !.pte[i] = f, !.user = IF u THEN @ \cup {i} ELSE @ \ {i}]
           v == mappages(m1, s, i, f, u)
<1>0. m \in Memories /\ s \in Spaces /\ t \in Tables
  BY PageFacts DEF Good
<1>1. f \in m.free /\ f \in Frames /\ f # 0
  BY <1>0, KallocFacts
<1>2. /\ m1 \in Memories /\ m1.free = m.free \ {f} /\ m1.twice = m.twice
      /\ \A g \in Frames : m1.holds[g] = IF g = f THEN x ELSE m.holds[g]
  BY <1>0, <1>1, TakeFacts
<1>3. v = IF s.tab[t] # 0 THEN [ok |-> TRUE, m |-> m1, s |-> put]
          ELSE IF new = 0 THEN [ok |-> FALSE, m |-> m1, s |-> s]
          ELSE [ok |-> TRUE, m |-> Take(m1, new, ZERO), s |-> [put EXCEPT !.tab[t] = new]]
  BY DEF mappages
<1> HIDE DEF f, m1, new, v, t
<1>4. /\ put \in Spaces /\ put.dir = s.dir /\ put.ktab = s.ktab /\ put.tab = s.tab
      /\ put.user = IF u THEN s.user \cup {i} ELSE s.user \ {i}
      /\ \A j \in Pages : put.pte[j] = IF j = i THEN f ELSE s.pte[j]
  BY <1>0, <1>1 DEF Spaces, Frames0
<1> HIDE DEF put
<1>5. put.user \in SUBSET Pages /\ s.user \in SUBSET Pages
  BY <1>0, <1>4 DEF Spaces
<1>6. CASE s.tab[t] # 0
  <2>1. v.ok = TRUE /\ v.m = m1 /\ v.s = put
    BY <1>3, <1>6
  <2>2. s.tab \in [Tables -> Frames0]
    BY <1>0 DEF Spaces
  <2>3. /\ Once(put)
        /\ \A g \in Frames : g \in FramesOf(put) <=> g \in FramesOf(s) \/ g = f \/ g = s.tab[t]
    BY <1>0, <1>1, <1>4, <1>5, <2>2, PutPage
  <2>4. s.tab[t] \in Frames /\ s.tab[t] \in FramesOf(s)
    BY <1>0, <1>6, <2>2 DEF FramesOf, Frames0
  <2>5. \A g \in Frames : g \in FramesOf(s) => g \notin m.free
    BY DEF Good
  <2>6. Conserves(m, s, m1, put)
    <3>1. Good(m1, put)
      BY <1>2, <1>4, <2>3, <2>4, <2>5 DEF Good, FramesOf
    <3> QED BY <1>1, <1>2, <2>3, <2>4, <3>1 DEF Conserves
  <2>7. Built(s) => Built(put)
    <3> SUFFICES ASSUME Built(s) PROVE Built(put)
      OBVIOUS
    <3>1. \A j \in Pages : put.pte[j] # 0 => put.tab[j \div NPTENTRIES] # 0
      BY <1>4, <1>6 DEF Built, t
    <3>2. \A j \in put.user : put.pte[j] # 0
      BY <1>1, <1>4, <1>5 DEF Built
    <3> QED BY <1>4, <3>1, <3>2 DEF Built
  <2>8. m1.holds[f] = x
    BY <1>1, <1>2
  <2> QED BY <1>1, <1>4, <2>1, <2>6, <2>7, <2>8 DEF v, m1, f
<1>7. CASE s.tab[t] = 0 /\ new = 0
  <2>1. v.ok = FALSE /\ v.m = m1 /\ v.s = s
    BY <1>3, <1>7
  <2> QED BY <1>1, <2>1 DEF v, m1, f
<1>8. CASE s.tab[t] = 0 /\ new # 0
  <2> DEFINE m2 == Take(m1, new, ZERO)
             r == [put EXCEPT !.tab[t] = new]
  <2>1. v.ok = TRUE /\ v.m = m2 /\ v.s = r
    BY <1>3, <1>8
  <2>2. new \in m1.free /\ new \in Frames
    BY <1>2, <1>8, KallocFacts DEF new
  <2>3. ZERO \in Int
    BY DEF ZERO
  <2>4. /\ m2 \in Memories /\ m2.free = m1.free \ {new} /\ m2.twice = m1.twice
        /\ \A g \in Frames : m2.holds[g] = IF g = new THEN ZERO ELSE m1.holds[g]
    BY <1>2, <2>2, <2>3, TakeFacts
  <2>5. /\ r \in Spaces /\ r.dir = s.dir /\ r.ktab = s.ktab /\ r.user = put.user
        /\ r.tab \in [Tables -> Frames0] /\ r.tab[t] = new
        /\ \A k \in Tables : k # t => r.tab[k] = s.tab[k]
        /\ \A j \in Pages : r.pte[j] = IF j = i THEN f ELSE s.pte[j]
    BY <1>0, <1>4, <2>2 DEF Spaces, Frames0
  <2> HIDE DEF r, m2
  <2>6. /\ Once(r)
        /\ \A g \in Frames : g \in FramesOf(r) <=> g \in FramesOf(s) \/ g = f \/ g = r.tab[t]
    <3>1. r.tab[t] \in m.free /\ r.tab[t] # f
      BY <1>2, <2>2, <2>5
    <3> QED BY <1>0, <1>1, <1>5, <1>8, <2>5, <3>1, PutPage
  <2>7. \A g \in Frames : g \in FramesOf(s) => g \notin m.free
    BY DEF Good
  <2>8. Conserves(m, s, m2, r)
    <3>1. Good(m2, r)
      BY <1>2, <2>2, <2>4, <2>5, <2>6, <2>7 DEF Good, FramesOf
    <3>2. \A g \in Frames : g \in FramesOf(r) \/ g \in m2.free <=> g \in FramesOf(s) \/ g \in m.free
      BY <1>1, <1>2, <2>2, <2>4, <2>5, <2>6
    <3>3. \A g \in Frames : g \notin m.free /\ g \notin m2.free => m2.holds[g] = m.holds[g]
      BY <1>1, <1>2, <2>2, <2>4
    <3> QED BY <1>2, <2>4, <3>1, <3>2, <3>3 DEF Conserves
  <2>9. Built(s) => Built(r)
    <3> SUFFICES ASSUME Built(s) PROVE Built(r)
      OBVIOUS
    <3>1. new # 0
      BY <1>8
    <3>2. \A j \in Pages : j \div NPTENTRIES \in Tables
      BY PageFacts
    <3>3. \A j \in Pages : r.pte[j] # 0 => r.tab[j \div NPTENTRIES] # 0
      BY <2>5, <3>1, <3>2 DEF Built, t
    <3>4. \A j \in r.user : r.pte[j] # 0
      BY <1>1, <1>4, <1>5, <2>5 DEF Built
    <3> QED BY <2>5, <3>3, <3>4 DEF Built
  <2>10. m2.holds[f] = x
    BY <1>1, <1>2, <2>2, <2>4
  <2> QED BY <1>1, <1>4, <2>1, <2>5, <2>8, <2>9, <2>10 DEF v, m1, f
<1> QED BY <1>6, <1>7, <1>8

\* deallocuvm() gives the frames of some pages back.
LEMMA Dealloc ==
  ASSUME NEW m, NEW s, Good(m, s), NEW old, NEW new
  PROVE  LET D == dropped(s, old, new)
             v == deallocuvm(m, s, old, new)
         IN  /\ Conserves(m, s, v.m, v.s)
             /\ \A j \in Pages : v.s.pte[j] = IF j \in D THEN 0 ELSE s.pte[j]
             /\ v.s.dir = s.dir /\ v.s.ktab = s.ktab /\ v.s.tab = s.tab
             /\ v.s.user = s.user \ D
             /\ v.m.free = m.free \cup {s.pte[j] : j \in D}
             /\ Built(s) => Built(v.s)
<1> DEFINE D == dropped(s, old, new)
           S == {s.pte[j] : j \in D}
           v == deallocuvm(m, s, old, new)
<1>0. m \in Memories /\ s \in Spaces /\ Once(s) /\ \A f \in FramesOf(s) : f \notin m.free
  BY DEF Good
<1>1. D \subseteq Pages /\ \A j \in D : s.pte[j] # 0
  BY DEF dropped
<1>2. s.user \in SUBSET Pages /\ \A j \in Pages : s.pte[j] \in Frames0
  BY <1>0 DEF Spaces
<1>3. S \in SUBSET Frames /\ S \cap m.free = {}
  BY <1>0, <1>1, <1>2 DEF Frames0, FramesOf
<1>4. /\ v.m = kfree(m, S)
      /\ v.s = [s EXCEPT !.pte = [i \in Pages |-> IF i \in D THEN 0 ELSE @[i]], !.user = @ \ D]
  BY DEF deallocuvm
<1> HIDE DEF v, D
<1>5. /\ v.s \in Spaces /\ v.s.dir = s.dir /\ v.s.ktab = s.ktab /\ v.s.tab = s.tab
      /\ v.s.user = s.user \ D
      /\ \A j \in Pages : v.s.pte[j] = IF j \in D THEN 0 ELSE s.pte[j]
  <2> DEFINE P == [i \in Pages |-> IF i \in D THEN 0 ELSE s.pte[i]]
  <2>1. P \in [Pages -> Frames0] /\ \A j \in Pages : P[j] = IF j \in D THEN 0 ELSE s.pte[j]
    BY <1>2 DEF Frames0
  <2>2. v.s = [s EXCEPT !.pte = P, !.user = s.user \ D]
    BY <1>0, <1>4 DEF Spaces
  <2> HIDE DEF P
  <2> QED BY <1>0, <1>2, <2>1, <2>2 DEF Spaces
<1>6. /\ v.m \in Memories /\ v.m.free = m.free \cup S /\ v.m.twice = (m.twice \/ m.free \cap S # {})
      /\ \A g \in Frames : g \notin S => v.m.holds[g] = m.holds[g]
  BY <1>0, <1>3, <1>4, KfreeFacts
<1>7. v.m.twice = m.twice
  <2>1. m.twice \in BOOLEAN
    BY <1>0 DEF Memories
  <2> QED BY <1>3, <1>6, <2>1
<1>8. Once(v.s)
  BY <1>0, <1>5 DEF Once
<1>9. ASSUME NEW g \in Frames
      PROVE  /\ g \in FramesOf(v.s) => g \in FramesOf(s) /\ g \notin S
             /\ g \in FramesOf(s) => g \in FramesOf(v.s) \/ g \in S
             /\ g \in S => g \in FramesOf(s)
  <2>0. g # 0
    BY MemorySizes
  <2>1. g \in S => g \in FramesOf(s)
    BY <1>1 DEF FramesOf
  <2>2. g \in FramesOf(s) => g \in FramesOf(v.s) \/ g \in S
    BY <1>5 DEF FramesOf
  <2>3. g \in FramesOf(v.s) => g \in FramesOf(s)
    BY <1>5, <2>0 DEF FramesOf
  <2>4. ASSUME NEW j \in D, g = s.pte[j] PROVE g \notin FramesOf(v.s)
    <3>1. g # s.dir /\ g # s.ktab /\ \A t \in Tables : g # s.tab[t]
      BY <1>0, <1>1, <2>0, <2>4 DEF Once
    <3>2. \A k \in Pages : g # v.s.pte[k]
      BY <1>0, <1>1, <1>5, <2>0, <2>4 DEF Once
    <3> QED BY <1>5, <3>1, <3>2 DEF FramesOf
  <2> QED BY <2>1, <2>2, <2>3, <2>4
<1>10. Conserves(m, s, v.m, v.s)
  <2>1. Good(v.m, v.s)
    BY <1>0, <1>5, <1>6, <1>8, <1>9 DEF Good, FramesOf
  <2>2. \A g \in Frames : g \in FramesOf(v.s) \/ g \in v.m.free <=> g \in FramesOf(s) \/ g \in m.free
    BY <1>6, <1>9
  <2> QED BY <1>6, <1>7, <2>1, <2>2 DEF Conserves
<1>11. Built(s) => Built(v.s)
  BY <1>2, <1>5 DEF Built
<1> QED BY <1>5, <1>6, <1>10, <1>11 DEF v, D

\* Steps of which the second only frees add up.
LEMMA ConservesThenFrees ==
  ASSUME NEW m, NEW s, NEW n, NEW r, NEW k, NEW q,
         Conserves(m, s, n, r), Conserves(n, r, k, q), n.free \subseteq k.free
  PROVE  Conserves(m, s, k, q)
BY DEF Conserves

\* Doing nothing.
LEMMA ConservesSelf ==
  ASSUME NEW m, NEW s, Good(m, s) PROVE Conserves(m, s, m, s)
BY DEF Conserves

\* freevm() gives back every frame of a space.
LEMMA Freevm ==
  ASSUME NEW m, NEW s, Good(m, s), Built(s)
  PROVE  Conserves(m, s, freevm(m, s), NoSpace) /\ m.free \subseteq freevm(m, s).free
<1> DEFINE d == deallocuvm(m, s, KERNBASE, 0)
           D == dropped(s, KERNBASE, 0)
           S1 == {s.pte[j] : j \in D}
           S2 == Present(d.s.tab) \cup {d.s.ktab}
           n1 == kfree(d.m, S2)
           n2 == kfree(n1, {d.s.dir})
<1>0. m \in Memories /\ s \in Spaces /\ Once(s) /\ \A f \in FramesOf(s) : f \notin m.free
  BY DEF Good
<1>1. freevm(m, s) = n2
  BY DEF freevm
<1>2. /\ Conserves(m, s, d.m, d.s)
      /\ d.s.dir = s.dir /\ d.s.ktab = s.ktab /\ d.s.tab = s.tab
      /\ d.m.free = m.free \cup S1
      /\ \A j \in Pages : d.s.pte[j] = IF j \in D THEN 0 ELSE s.pte[j]
  BY Dealloc
<1>3. \A i \in Pages : s.pte[i] # 0 => i \in D
  <2> SUFFICES ASSUME NEW i \in Pages, s.pte[i] # 0 PROVE i \in D
    OBVIOUS
  <2>1. 0 < KERNBASE
    BY MemorySizes
  <2>2. PGROUNDUP(0) <= i * PGSIZE /\ i * PGSIZE < KERNBASE
    BY RoundUpZero, PageFacts
  <2>3. s.tab[i \div NPTENTRIES] # 0
    BY DEF Built
  <2> QED BY <2>1, <2>2, <2>3 DEF dropped
<1> HIDE DEF d, D
<1>4. d.m \in Memories /\ d.s \in Spaces /\ Once(d.s) /\ \A f \in FramesOf(d.s) : f \notin d.m.free
  BY <1>2 DEF Conserves, Good
<1>5. /\ \A t \in Tables : s.tab[t] \in Frames0
      /\ DOMAIN s.tab = Tables
      /\ s.dir \in Frames /\ s.ktab \in Frames /\ s.dir # 0 /\ s.ktab # 0
  BY <1>0 DEF Spaces, Built, Frames0
<1>6. \A g : g \in S2 <=> g = s.ktab \/ \E t \in Tables : g = s.tab[t] /\ g # 0
  BY <1>2, <1>5 DEF Present
<1> HIDE DEF S2
<1>7. S2 \in SUBSET Frames /\ s.dir \notin S2
  BY <1>0, <1>5, <1>6 DEF Once, Frames0
<1>8. \A g \in Frames : g \in FramesOf(d.s) <=> g = s.dir \/ g \in S2
  <2> SUFFICES ASSUME NEW g \in Frames PROVE g \in FramesOf(d.s) <=> g = s.dir \/ g \in S2
    OBVIOUS
  <2>0. g # 0
    BY MemorySizes
  <2>1. \A j \in Pages : d.s.pte[j] = 0
    BY <1>2, <1>3
  <2> QED BY <1>2, <1>6, <2>0, <2>1 DEF FramesOf
<1>9. S2 \cap d.m.free = {} /\ s.dir \notin d.m.free
  <2>1. \A g \in S2 : g \notin d.m.free
    BY <1>4, <1>7, <1>8
  <2> QED BY <1>4, <1>5, <1>8, <2>1
<1>10. /\ n1 \in Memories /\ n1.free = d.m.free \cup S2 /\ n1.twice = (d.m.twice \/ d.m.free \cap S2 # {})
       /\ \A g \in Frames : g \notin S2 => n1.holds[g] = d.m.holds[g]
  BY <1>4, <1>7, KfreeFacts
<1> HIDE DEF n1
<1>11. /\ n2 \in Memories /\ n2.free = n1.free \cup {s.dir} /\ n2.twice = (n1.twice \/ n1.free \cap {s.dir} # {})
       /\ \A g \in Frames : g # s.dir => n2.holds[g] = n1.holds[g]
  <2>1. {s.dir} \in SUBSET Frames
    BY <1>5
  <2>2. n2 = kfree(n1, {s.dir})
    BY <1>2
  <2> HIDE DEF n2
  <2> QED BY <1>10, <2>1, <2>2, KfreeFacts
<1> HIDE DEF n2
<1>12. n2.twice = m.twice
  <2>1. d.m.twice = m.twice
    BY <1>2 DEF Conserves
  <2>2. d.m.free \cap S2 = {} /\ n1.free \cap {s.dir} = {}
    BY <1>7, <1>9, <1>10
  <2>3. m.twice \in BOOLEAN
    BY <1>0 DEF Memories
  <2> QED BY <1>10, <1>11, <2>1, <2>2, <2>3
<1>13. Good(n2, NoSpace)
  BY <1>11, NoSpaceFacts DEF Good
<1>14. \A g \in Frames : g \in FramesOf(NoSpace) \/ g \in n2.free <=> g \in FramesOf(s) \/ g \in m.free
  <2>1. \A g \in Frames : g \in n2.free <=> g \in FramesOf(d.s) \/ g \in d.m.free
    BY <1>8, <1>10, <1>11
  <2>2. \A g \in Frames : g \in FramesOf(d.s) \/ g \in d.m.free <=> g \in FramesOf(s) \/ g \in m.free
    BY <1>2 DEF Conserves
  <2> QED BY <2>1, <2>2, NoSpaceFacts
<1>15. \A g \in Frames : g \notin m.free /\ g \notin n2.free => n2.holds[g] = m.holds[g]
  <2>1. \A g \in Frames : g \notin m.free /\ g \notin d.m.free => d.m.holds[g] = m.holds[g]
    BY <1>2 DEF Conserves
  <2> QED BY <1>10, <1>11, <2>1
<1>16. m.free \subseteq n2.free
  BY <1>2, <1>10, <1>11
<1> QED BY <1>1, <1>12, <1>13, <1>14, <1>15, <1>16 DEF Conserves

\* setupkvm() makes a page directory without user pages, or takes nothing.
LEMMA Setupkvm ==
  ASSUME NEW m \in Memories
  PROVE  LET v == setupkvm(m) IN
         /\ v.ok \in BOOLEAN
         /\ v.ok => /\ Conserves(m, NoSpace, v.m, v.s) /\ Built(v.s) /\ v.s # NoSpace
                    /\ \A i \in Pages : v.s.pte[i] = 0
         /\ ~v.ok => Conserves(m, NoSpace, v.m, NoSpace)
<1> DEFINE d == kalloc(m)
           m1 == Take(m, d, ZERO)
           k == kalloc(m1)
           v == setupkvm(m)
<1>0. ZERO \in Int
  BY DEF ZERO
<1>1. v = IF d = 0 THEN [ok |-> FALSE, m |-> m, s |-> NoSpace]
          ELSE IF k = 0 THEN [ok |-> FALSE, m |-> kfree(m1, {d}), s |-> NoSpace]
          ELSE [ok |-> TRUE, m |-> Take(m1, k, ZERO), s |-> [NoSpace EXCEPT !.dir = d, !.ktab = k]]
  BY DEF setupkvm
<1>2. d # 0 => d \in m.free /\ d \in Frames
  BY KallocFacts
<1>3. d # 0 => /\ m1 \in Memories /\ m1.free = m.free \ {d} /\ m1.twice = m.twice
               /\ \A g \in Frames : m1.holds[g] = IF g = d THEN ZERO ELSE m.holds[g]
  BY <1>0, <1>2, TakeFacts
<1>4. d # 0 /\ k # 0 => k \in m1.free /\ k \in Frames
  BY <1>3, KallocFacts
<1> HIDE DEF d, m1, k, v
<1>5. CASE d = 0
  <2>1. v.ok = FALSE /\ v.m = m
    BY <1>1, <1>5
  <2>2. Good(m, NoSpace)
    BY NoSpaceFacts DEF Good
  <2>3. Conserves(m, NoSpace, m, NoSpace)
    BY <2>2, ConservesSelf
  <2> QED BY <2>1, <2>3 DEF v
<1>6. CASE d # 0 /\ k = 0
  <2> DEFINE n == kfree(m1, {d})
  <2>1. v.ok = FALSE /\ v.m = n
    BY <1>1, <1>6
  <2>2. {d} \in SUBSET Frames
    BY <1>2, <1>6
  <2>3. /\ n \in Memories /\ n.free = m1.free \cup {d} /\ n.twice = (m1.twice \/ m1.free \cap {d} # {})
        /\ \A g \in Frames : g # d => n.holds[g] = m1.holds[g]
    BY <1>3, <1>6, <2>2, KfreeFacts
  <2> HIDE DEF n
  <2>4. n.twice = m.twice
    <3>1. m1.free \cap {d} = {} /\ m.twice \in BOOLEAN
      BY <1>3, <1>6 DEF Memories
    <3> QED BY <1>3, <1>6, <2>3, <3>1
  <2>5. Good(n, NoSpace)
    BY <2>3, NoSpaceFacts DEF Good
  <2>6. Conserves(m, NoSpace, n, NoSpace)
    BY <1>2, <1>3, <1>6, <2>3, <2>4, <2>5 DEF Conserves
  <2> QED BY <2>1, <2>6 DEF v
<1>7. CASE d # 0 /\ k # 0
  <2> DEFINE n == Take(m1, k, ZERO)
             r == [NoSpace EXCEPT !.dir = d, !.ktab = k]
  <2>1. v.ok = TRUE /\ v.m = n /\ v.s = r
    BY <1>1, <1>7
  <2>2. /\ n \in Memories /\ n.free = m1.free \ {k} /\ n.twice = m1.twice
        /\ \A g \in Frames : n.holds[g] = IF g = k THEN ZERO ELSE m1.holds[g]
    BY <1>0, <1>3, <1>4, <1>7, TakeFacts
  <2>3. /\ r \in Spaces /\ r.dir = d /\ r.ktab = k /\ r.user = {}
        /\ (\A i \in Pages : r.pte[i] = 0) /\ (\A t \in Tables : r.tab[t] = 0)
    <3>1. d \in Frames0 /\ k \in Frames0 /\ NoSpace \in Spaces
      BY <1>2, <1>4, <1>7, NoSpaceFacts DEF Frames0
    <3> QED BY <3>1, NoSpaceFacts DEF Spaces
  <2> HIDE DEF n, r
  <2>4. d \in Frames /\ k \in Frames /\ d # k /\ k \in m.free /\ d \in m.free
    BY <1>2, <1>3, <1>4, <1>7
  <2>5. Once(r)
    BY <2>3, <2>4 DEF Once
  <2>6. \A g \in Frames : g \in FramesOf(r) <=> g = d \/ g = k
    BY <2>3, MemorySizes DEF FramesOf
  <2>7. Good(n, r)
    BY <1>3, <1>7, <2>2, <2>3, <2>5, <2>6 DEF Good, FramesOf
  <2>8. Conserves(m, NoSpace, n, r)
    <3>1. \A g \in Frames : g \in FramesOf(r) \/ g \in n.free <=> g \in FramesOf(NoSpace) \/ g \in m.free
      BY <1>3, <1>7, <2>2, <2>4, <2>6, NoSpaceFacts
    <3>2. \A g \in Frames : g \notin m.free /\ g \notin n.free => n.holds[g] = m.holds[g]
      BY <1>3, <1>7, <2>2, <2>4
    <3>3. n.twice = m.twice
      BY <1>3, <1>7, <2>2
    <3> QED BY <2>7, <3>1, <3>2, <3>3 DEF Conserves
  <2>9. Built(r)
    BY <1>7, <2>3 DEF Built
  <2>10. r # NoSpace
    BY <1>7, <2>3, NoSpaceFacts
  <2> QED BY <2>1, <2>3, <2>8, <2>9, <2>10 DEF v
<1> QED BY <1>5, <1>6, <1>7

\* Freeing a frame that was taken but never mapped brings back what was there.
LEMMA GiveBack ==
  ASSUME NEW m, NEW s, Good(m, s), NEW f \in m.free, NEW x \in Int,
         NEW n, NEW r, Conserves(Take(m, f, x), s, n, r),
         Take(m, f, x).free \subseteq n.free
  PROVE  Conserves(m, s, kfree(n, {f}), r)
<1> DEFINE m1 == Take(m, f, x)
           k == kfree(n, {f})
<1>0. m \in Memories /\ f \in Frames /\ m.free \subseteq Frames /\ m.twice \in BOOLEAN
  BY DEF Good, Memories
<1>1. /\ m1.free = m.free \ {f} /\ m1.twice = m.twice
      /\ \A g \in Frames : m1.holds[g] = IF g = f THEN x ELSE m.holds[g]
  BY <1>0, TakeFacts
<1>2. Conserves(m1, s, n, r) /\ m1.free \subseteq n.free
  OBVIOUS
<1> HIDE DEF m1
<1>3. n \in Memories /\ r \in Spaces /\ Once(r) /\ (\A g \in FramesOf(r) : g \notin n.free)
      /\ n.twice = m1.twice
  BY <1>2 DEF Conserves, Good
<1>4. f \notin FramesOf(s)
  BY DEF Good
<1>5. f \notin FramesOf(r) /\ f \notin n.free
  BY <1>0, <1>1, <1>2, <1>4 DEF Conserves
<1>6. /\ k \in Memories /\ k.free = n.free \cup {f} /\ k.twice = (n.twice \/ n.free \cap {f} # {})
      /\ \A g \in Frames : g # f => k.holds[g] = n.holds[g]
  <2>1. {f} \in SUBSET Frames
    BY <1>0
  <2> QED BY <1>3, <2>1, KfreeFacts
<1> HIDE DEF k
<1>7. k.twice = m.twice
  <2>1. n.free \cap {f} = {}
    BY <1>5
  <2> QED BY <1>0, <1>1, <1>3, <1>6, <2>1
<1>8. Good(k, r)
  BY <1>3, <1>5, <1>6 DEF Good
<1>9. \A g \in Frames : g \in FramesOf(r) \/ g \in k.free <=> g \in FramesOf(s) \/ g \in m.free
  <2>1. \A g \in Frames : g \in FramesOf(r) \/ g \in n.free <=> g \in FramesOf(s) \/ g \in m1.free
    BY <1>2 DEF Conserves
  <2> QED BY <1>0, <1>1, <1>6, <2>1
<1>10. \A g \in Frames : g \notin m.free /\ g \notin k.free => k.holds[g] = m.holds[g]
  <2>1. \A g \in Frames : g \notin m1.free /\ g \notin n.free => n.holds[g] = m1.holds[g]
    BY <1>2 DEF Conserves
  <2> QED BY <1>0, <1>1, <1>6, <2>1
<1>11. Conserves(m, s, k, r)
  BY <1>7, <1>8, <1>9, <1>10 DEF Conserves
<1> QED BY <1>11 DEF k

\* A space that is good in a memory is good when a free frame is taken from it.
LEMMA TakeGood ==
  ASSUME NEW m, NEW s, Good(m, s), NEW f \in Frames, NEW x \in Int
  PROVE  Good(Take(m, f, x), s)
<1>1. m \in Memories
  BY DEF Good
<1>2. Take(m, f, x) \in Memories /\ Take(m, f, x).free = m.free \ {f}
  BY <1>1, TakeFacts
<1> QED BY <1>2 DEF Good

\* One turn of allocuvm() maps a zeroed page, or takes the loop's pages away.
LEMMA Allocuvm ==
  ASSUME NEW m, NEW s, Good(m, s), Built(s), NEW i \in Pages, s.pte[i] = 0, NEW old, NEW new
  PROVE  LET f == kalloc(m)
             D == dropped(s, new, old)
             v == allocuvm(m, s, i, old, new)
         IN  /\ v.ok \in BOOLEAN /\ Conserves(m, s, v.m, v.s) /\ Built(v.s)
             /\ v.ok => /\ f \in m.free
                        /\ \A j \in Pages : v.s.pte[j] = IF j = i THEN f ELSE s.pte[j]
                        /\ v.s.user = s.user \cup {i}
                        /\ v.m.holds[f] = ZERO
             /\ ~v.ok => /\ \A j \in Pages : v.s.pte[j] = IF j \in D THEN 0 ELSE s.pte[j]
<1> DEFINE f == kalloc(m)
           D == dropped(s, new, old)
           m1 == Take(m, f, ZERO)
           p == mappages(m1, s, i, f, TRUE)
           undo == deallocuvm(p.m, p.s, new, old)
           none == deallocuvm(m, s, new, old)
           v == allocuvm(m, s, i, old, new)
<1>0. m \in Memories /\ ZERO \in Int
  BY DEF Good, ZERO
<1>1. v = IF f = 0 THEN [ok |-> FALSE, m |-> none.m, s |-> none.s]
          ELSE IF ~p.ok THEN [ok |-> FALSE, m |-> kfree(undo.m, {f}), s |-> undo.s]
          ELSE p
  BY DEF allocuvm
<1>2. f # 0 => /\ f \in m.free /\ f \in Frames
               /\ p.ok \in BOOLEAN
               /\ p.ok => /\ Conserves(m, s, p.m, p.s)
                          /\ \A j \in Pages : p.s.pte[j] = IF j = i THEN f ELSE s.pte[j]
                          /\ p.s.user = s.user \cup {i}
                          /\ p.m.holds[f] = ZERO
                          /\ Built(s) => Built(p.s)
               /\ ~p.ok => p.m = m1 /\ p.s = s
  <2> SUFFICES ASSUME f # 0
               PROVE  /\ f \in m.free /\ f \in Frames
                      /\ p.ok \in BOOLEAN
                      /\ p.ok => /\ Conserves(m, s, p.m, p.s)
                                 /\ \A j \in Pages : p.s.pte[j] = IF j = i THEN f ELSE s.pte[j]
                                 /\ p.s.user = s.user \cup {i}
                                 /\ p.m.holds[f] = ZERO
                                 /\ Built(s) => Built(p.s)
                      /\ ~p.ok => p.m = m1 /\ p.s = s
    OBVIOUS
  <2>1. \A u \in BOOLEAN :
          LET w == mappages(m1, s, i, f, u) IN
          /\ f \in m.free /\ f \in Frames
          /\ w.ok \in BOOLEAN
          /\ w.ok => /\ Conserves(m, s, w.m, w.s)
                     /\ \A j \in Pages : w.s.pte[j] = IF j = i THEN f ELSE s.pte[j]
                     /\ w.s.user = IF u THEN s.user \cup {i} ELSE s.user \ {i}
                     /\ w.m.holds[f] = ZERO
                     /\ Built(s) => Built(w.s)
          /\ ~w.ok => w.m = m1 /\ w.s = s
    BY <1>0, MapFresh
  <2> HIDE DEF f, m1
  <2> QED BY <2>1
<1>3. CASE f = 0
  <2>1. /\ Conserves(m, s, none.m, none.s)
        /\ \A j \in Pages : none.s.pte[j] = IF j \in D THEN 0 ELSE s.pte[j]
        /\ Built(s) => Built(none.s)
    BY Dealloc
  <2>2. v.ok = FALSE /\ v.m = none.m /\ v.s = none.s
    <3> HIDE DEF v, none, p
    <3> QED BY <1>1, <1>3
  <2> HIDE DEF none
  <2> QED BY <2>1, <2>2
<1>4. CASE f # 0 /\ ~p.ok
  <2> DEFINE u == deallocuvm(m1, s, new, old)
  <2>0. p.m = m1 /\ p.s = s /\ f \in m.free /\ f \in Frames
    BY <1>2, <1>4
  <2>1. Good(m1, s)
    BY <1>0, <2>0, TakeGood
  <2>2. /\ Conserves(m1, s, u.m, u.s)
        /\ \A j \in Pages : u.s.pte[j] = IF j \in D THEN 0 ELSE s.pte[j]
        /\ u.m.free = m1.free \cup {s.pte[j] : j \in D}
        /\ Built(s) => Built(u.s)
    <3> HIDE DEF m1
    <3> QED BY <2>1, Dealloc
  <2>3. v.ok = FALSE /\ v.m = kfree(u.m, {f}) /\ v.s = u.s
    <3>1. undo = u
      BY <2>0
    <3> HIDE DEF v, u, undo, p, none
    <3> QED BY <1>1, <1>4, <3>1
  <2> HIDE DEF u
  <2>4. Conserves(m, s, kfree(u.m, {f}), u.s)
    BY <1>0, <2>0, <2>2, GiveBack
  <2> QED BY <2>2, <2>3, <2>4
<1>5. CASE f # 0 /\ p.ok
  <2>1. v = p
    <3> HIDE DEF v, p, undo, none
    <3> QED BY <1>1, <1>5
  <2>2. v.ok
    BY <1>5, <2>1
  <2> HIDE DEF v, p, m1
  <2> QED BY <1>2, <1>5, <2>1, <2>2 DEF v
<1> QED BY <1>2, <1>3, <1>4, <1>5

\* One turn of copyuvm() maps a copy of the page, or frees the child's space.
LEMMA Copyuvm ==
  ASSUME NEW m, NEW d, Good(m, d), Built(d), NEW i \in Pages, d.pte[i] = 0,
         NEW s \in Spaces, s.pte[i] # 0
  PROVE  LET f == kalloc(m)
             v == copyuvm(m, s, d, i)
         IN  /\ v.ok \in BOOLEAN
             /\ v.ok => /\ Conserves(m, d, v.m, v.s) /\ Built(v.s)
                        /\ f \in m.free
                        /\ \A j \in Pages : v.s.pte[j] = IF j = i THEN f ELSE d.pte[j]
                        /\ v.s.user = IF i \in s.user THEN d.user \cup {i} ELSE d.user \ {i}
                        /\ v.m.holds[f] = m.holds[s.pte[i]]
             /\ ~v.ok => Conserves(m, d, v.m, NoSpace)
<1> DEFINE f == kalloc(m)
           x == m.holds[s.pte[i]]
           m1 == Take(m, f, x)
           u == i \in s.user
           p == mappages(m1, d, i, f, u)
           v == copyuvm(m, s, d, i)
<1>0. m \in Memories /\ x \in Int /\ u \in BOOLEAN
  <2>1. m \in Memories
    BY DEF Good
  <2>2. s.pte[i] \in Frames
    BY DEF Spaces, Frames0
  <2> QED BY <2>1, <2>2 DEF Memories
<1>1. v = IF f = 0 THEN [ok |-> FALSE, m |-> freevm(m, d), s |-> NoSpace]
          ELSE IF ~p.ok THEN [ok |-> FALSE, m |-> freevm(kfree(p.m, {f}), d), s |-> NoSpace]
          ELSE p
  BY DEF copyuvm
<1> HIDE DEF x, u, v
<1>2. f # 0 => /\ f \in m.free /\ f \in Frames
               /\ p.ok \in BOOLEAN
               /\ p.ok => /\ Conserves(m, d, p.m, p.s)
                          /\ \A j \in Pages : p.s.pte[j] = IF j = i THEN f ELSE d.pte[j]
                          /\ p.s.user = IF u THEN d.user \cup {i} ELSE d.user \ {i}
                          /\ p.m.holds[f] = x
                          /\ Built(d) => Built(p.s)
               /\ ~p.ok => p.m = m1 /\ p.s = d
  BY <1>0, MapFresh
<1>3. CASE f = 0
  <2>1. Conserves(m, d, freevm(m, d), NoSpace)
    BY Freevm
  <2>2. v.ok = FALSE /\ v.m = freevm(m, d)
    <3> HIDE DEF p
    <3> QED BY <1>1, <1>3
  <2> QED BY <2>1, <2>2 DEF v
<1>4. CASE f # 0 /\ ~p.ok
  <2> DEFINE n == kfree(m1, {f})
  <2>1. f \in m.free /\ f \in Frames
    BY <1>2, <1>4
  <2>2. Good(m1, d)
    BY <1>0, <2>1, TakeGood
  <2>3. Conserves(m1, d, m1, d)
    BY <2>2, ConservesSelf
  <2>4. Conserves(m, d, n, d)
    BY <1>0, <2>1, <2>3, GiveBack
  <2>5. v.ok = FALSE /\ v.m = freevm(n, d)
    <3>1. p.m = m1
      BY <1>2, <1>4
    <3> HIDE DEF p, m1
    <3> QED BY <1>1, <1>4, <3>1
  <2> HIDE DEF n
  <2>6. Conserves(n, d, freevm(n, d), NoSpace) /\ n.free \subseteq freevm(n, d).free
    BY <2>4, Freevm DEF Conserves
  <2>7. Conserves(m, d, freevm(n, d), NoSpace)
    BY <2>4, <2>6, ConservesThenFrees
  <2> QED BY <2>5, <2>7 DEF v
<1>5. CASE f # 0 /\ p.ok
  <2>1. v = p
    <3> HIDE DEF p
    <3> QED BY <1>1, <1>5
  <2>2. v.ok
    BY <1>5, <2>1
  <2> HIDE DEF p, m1
  <2> QED BY <1>2, <1>5, <2>1, <2>2 DEF v, x, u
<1> QED BY <1>2, <1>3, <1>4, <1>5
-----------------------------------------------------------------------------
(* What a step leaves to the holders it does not touch. *)

\* The copied pages of a fork() are pages of the parent.
LEMMA CopiedMapped ==
  ASSUME NEW P \in ProcSet, Shape(P), Sized(P), P.call.k = "fork",
         NEW i \in Pages, P.call.s.pte[i] # 0
  PROVE  P.s.pte[i] # 0
<1>1. P.st = "run"
  BY DEF Shape
<1>2. P.call.a \in Nat /\ P.sz \in Nat
  BY DEF ProcSet, CallSet
<1>3. /\ P.call.a % PGSIZE = 0 /\ P.call.a < P.sz + PGSIZE
      /\ i * PGSIZE < P.call.a /\ (P.s.pte[i] # 0 <=> i * PGSIZE < P.sz)
  BY <1>1 DEF Sized, Mapped
<1>4. i * PGSIZE + PGSIZE <= P.call.a
  BY <1>2, <1>3, PageApart
<1>5. i * PGSIZE \in Nat /\ PGSIZE \in Nat
  BY PageFacts, MemorySizes
<1> QED BY <1>2, <1>3, <1>4, <1>5

\* A process that does not change is as sound as before if its frames hold what
\* they held.
LEMMA SoundKept ==
  ASSUME NEW p, NEW P \in ProcSet, NEW h, NEW h2, Sound(p, P, h),
         \A f \in FramesOf(P.s) : h2[f] = h[f],
         \A f \in FramesOf(P.call.s) : h2[f] = h[f]
  PROVE  Sound(p, P, h2)
<1>1. P.s \in Spaces /\ P.call.s \in Spaces
  BY DEF ProcSet, CallSet
<1>2. /\ \A i \in Pages : P.s.pte[i] # 0 => P.s.pte[i] \in FramesOf(P.s)
      /\ \A i \in Pages : P.call.s.pte[i] # 0 => P.call.s.pte[i] \in FramesOf(P.call.s)
  BY <1>1 DEF Spaces, Frames0, FramesOf
<1>3. P.call.k = "fork" => \A i \in Pages : P.call.s.pte[i] # 0 => P.s.pte[i] # 0
  BY CopiedMapped DEF Sound
<1>4. Content(p, P, h)
  BY DEF Sound
<1>5. P.st = "run" => p \in P.own /\ Filled(P.s, {ZERO, CODE} \cup P.own, h2)
  BY <1>2, <1>4 DEF Content, Filled
<1>6. P.call.k \in {"load", "stack"} => Filled(P.call.s, {ZERO, CODE}, h2)
  BY <1>2, <1>4 DEF Content, Filled
<1>7. P.call.k = "fork" =>
       \A i \in Pages : P.call.s.pte[i] # 0 =>
         h2[P.call.s.pte[i]] = h2[P.s.pte[i]] /\ (i \in P.call.s.user <=> i \in P.s.user)
  BY <1>2, <1>3, <1>4 DEF Content
<1>8. Content(p, P, h2)
  BY <1>5, <1>6, <1>7 DEF Content
<1> QED BY <1>8 DEF Sound

\* Going from memory m and table T to n and U, only holders a and b exchange
\* frames with the free list and with each other, and only their frames and the
\* free ones change contents.
Exchange(m, T, n, U, a, b) ==
  /\ ~n.twice
  /\ \A o \in Holders : o # a /\ o # b => Held(U, o) = Held(T, o)
  /\ \A g \in Frames : \/ g \in Held(U, a) \/ g \in Held(U, b) \/ g \in n.free
                       <=> g \in Held(T, a) \/ g \in Held(T, b) \/ g \in m.free
  /\ \A g \in Frames : g \in n.free => g \notin Held(U, a) /\ g \notin Held(U, b)
  /\ \A g \in Frames : g \in Held(U, a) /\ g \in Held(U, b) => a = b
  /\ \A g \in Frames : g \notin Held(T, a) /\ g \notin Held(T, b) /\ g \notin m.free /\ g \notin n.free
       => n.holds[g] = m.holds[g]

\* The frames are still shared out after an exchange, and the other holders' hold
\* what they held.
LEMMA ExchangeKeeps ==
  ASSUME NEW m, NEW T, NEW n, NEW U, Own(m, T), NEW a \in Holders, NEW b \in Holders,
         Exchange(m, T, n, U, a, b)
  PROVE  /\ Own(n, U)
         /\ \A o \in Holders, g \in Frames :
              o # a /\ o # b /\ g \in Held(T, o) => n.holds[g] = m.holds[g]
<1>1. /\ \A o, q \in Holders, f \in Frames : f \in Held(T, o) /\ f \in Held(T, q) => o = q
      /\ \A o \in Holders, f \in Frames : f \in Held(T, o) => f \notin m.free
      /\ \A f \in Frames : f \in m.free \/ \E o \in Holders : f \in Held(T, o)
  BY DEF Own
<1>2. /\ ~n.twice
      /\ \A o \in Holders : o # a /\ o # b => Held(U, o) = Held(T, o)
  BY DEF Exchange
<1>3. \A g \in Frames : \/ g \in Held(U, a) \/ g \in Held(U, b) \/ g \in n.free
                        <=> g \in Held(T, a) \/ g \in Held(T, b) \/ g \in m.free
  BY DEF Exchange
<1>4. /\ \A g \in Frames : g \in n.free => g \notin Held(U, a) /\ g \notin Held(U, b)
      /\ \A g \in Frames : g \in Held(U, a) /\ g \in Held(U, b) => a = b
  BY DEF Exchange
<1>5. \A g \in Frames : g \notin Held(T, a) /\ g \notin Held(T, b) /\ g \notin m.free /\ g \notin n.free
       => n.holds[g] = m.holds[g]
  BY DEF Exchange
<1>6. ASSUME NEW o \in Holders, NEW g \in Frames, o # a, o # b, g \in Held(T, o)
      PROVE  /\ g \notin Held(T, a) /\ g \notin Held(T, b) /\ g \notin m.free
             /\ g \notin Held(U, a) /\ g \notin Held(U, b) /\ g \notin n.free
  <2>1. g \notin Held(T, a) /\ g \notin Held(T, b) /\ g \notin m.free
    BY <1>1, <1>6
  <2> QED BY <1>3, <2>1
<1>7. \A o, q \in Holders, f \in Frames : f \in Held(U, o) /\ f \in Held(U, q) => o = q
  <2> SUFFICES ASSUME NEW o \in Holders, NEW q \in Holders, NEW f \in Frames,
                      f \in Held(U, o), f \in Held(U, q)
               PROVE  o = q
    OBVIOUS
  <2>1. CASE o # a /\ o # b
    <3>1. f \in Held(T, o)
      BY <1>2, <2>1
    <3>2. q # a /\ q # b
      BY <1>6, <2>1, <3>1
    <3> QED BY <1>1, <1>2, <3>1, <3>2
  <2>2. CASE q # a /\ q # b
    <3>1. f \in Held(T, q)
      BY <1>2, <2>2
    <3>2. o # a /\ o # b
      BY <1>6, <2>2, <3>1
    <3> QED BY <1>1, <1>2, <3>1, <3>2
  <2>3. CASE (o = a \/ o = b) /\ (q = a \/ q = b)
    BY <1>4, <2>3
  <2> QED BY <2>1, <2>2, <2>3
<1>8. \A o \in Holders, f \in Frames : f \in Held(U, o) => f \notin n.free
  BY <1>2, <1>4, <1>6
<1>9. \A f \in Frames : f \in n.free \/ \E o \in Holders : f \in Held(U, o)
  BY <1>1, <1>2, <1>3
<1>10. Own(n, U)
  BY <1>2, <1>7, <1>8, <1>9 DEF Own
<1> QED BY <1>5, <1>6, <1>10

\* The parts of a process as holders.
LEMMA PartFacts ==
  ASSUME NEW T, NEW p \in Procs
  PROVE  /\ <<"kstack", p>> \in Holders /\ <<"s", p>> \in Holders /\ <<"call", p>> \in Holders
         /\ Held(T, <<"s", p>>) = FramesOf(T[p].s)
         /\ Held(T, <<"call", p>>) = FramesOf(T[p].call.s)
         /\ Held(T, <<"kstack", p>>) = {f \in Frames : f = T[p].kstack}
BY DEF Holders, Kinds, Held, Part

\* The processes of which no part is exchanged and whose record stays are sound.
LEMMA OthersSound ==
  ASSUME MemInv, NEW a \in Holders, NEW b \in Holders,
         Exchange(ram, proc, ram', proc', a, b),
         NEW q \in Procs, proc'[q] = proc[q], q # a[2], q # b[2]
  PROVE  Sound(q, proc'[q], ram'.holds)
<1>1. proc[q] \in ProcSet /\ Sound(q, proc[q], ram.holds)
  BY DEF MemInv, TypeInv
<1>2. /\ <<"s", q>> \in Holders /\ <<"call", q>> \in Holders
      /\ Held(proc, <<"s", q>>) = FramesOf(proc[q].s)
      /\ Held(proc, <<"call", q>>) = FramesOf(proc[q].call.s)
  BY PartFacts
<1>3. <<"s", q>> # a /\ <<"s", q>> # b /\ <<"call", q>> # a /\ <<"call", q>> # b
  OBVIOUS
<1>4. \A o \in Holders, g \in Frames :
        o # a /\ o # b /\ g \in Held(proc, o) => ram'.holds[g] = ram.holds[g]
  <2>1. Own(ram, proc)
    BY DEF MemInv
  <2>2. /\ Own(ram', proc')
        /\ \A o \in Holders, g \in Frames :
             o # a /\ o # b /\ g \in Held(proc, o) => ram'.holds[g] = ram.holds[g]
    BY <2>1, ExchangeKeeps
  <2> QED BY <2>2
<1>5. /\ \A f \in FramesOf(proc[q].s) : ram'.holds[f] = ram.holds[f]
      /\ \A f \in FramesOf(proc[q].call.s) : ram'.holds[f] = ram.holds[f]
  BY <1>2, <1>3, <1>4 DEF FramesOf
<1>6. Sound(q, proc[q], ram'.holds)
  BY <1>1, <1>5, SoundKept
<1> QED BY <1>6

\* The spaces of a process are good in memory, and its kernel stack is its own.
LEMMA GoodSpaces ==
  ASSUME MemInv, NEW p \in Procs
  PROVE  /\ Good(ram, proc[p].s) /\ Good(ram, proc[p].call.s)
         /\ \A g \in Frames : g = proc[p].kstack
              => g \notin ram.free /\ g \notin FramesOf(proc[p].s) /\ g \notin FramesOf(proc[p].call.s)
         /\ \A g \in FramesOf(proc[p].s) : g \notin FramesOf(proc[p].call.s)
         /\ ~ram.twice
<1>1. ram \in Memories /\ proc[p] \in ProcSet /\ Sound(p, proc[p], ram.holds) /\ Own(ram, proc)
  BY DEF MemInv, TypeInv
<1>2. proc[p].s \in Spaces /\ proc[p].call.s \in Spaces
  BY <1>1 DEF ProcSet, CallSet
<1>3. Once(proc[p].s) /\ Once(proc[p].call.s)
  BY <1>1 DEF Sound
<1>4. /\ <<"kstack", p>> \in Holders /\ <<"s", p>> \in Holders /\ <<"call", p>> \in Holders
      /\ Held(proc, <<"s", p>>) = FramesOf(proc[p].s)
      /\ Held(proc, <<"call", p>>) = FramesOf(proc[p].call.s)
      /\ Held(proc, <<"kstack", p>>) = {f \in Frames : f = proc[p].kstack}
  BY PartFacts
<1>5. /\ \A o, q \in Holders, f \in Frames : f \in Held(proc, o) /\ f \in Held(proc, q) => o = q
      /\ \A o \in Holders, f \in Frames : f \in Held(proc, o) => f \notin ram.free
      /\ ~ram.twice
  BY <1>1 DEF Own
<1>6. FramesOf(proc[p].s) \subseteq Frames /\ FramesOf(proc[p].call.s) \subseteq Frames
  BY DEF FramesOf
<1>7. <<"kstack", p>> # <<"s", p>> /\ <<"kstack", p>> # <<"call", p>> /\ <<"s", p>> # <<"call", p>>
  OBVIOUS
<1>8. /\ \A g \in FramesOf(proc[p].s) : g \notin ram.free
      /\ \A g \in FramesOf(proc[p].call.s) : g \notin ram.free
  BY <1>4, <1>5, <1>6
<1>9. Good(ram, proc[p].s) /\ Good(ram, proc[p].call.s)
  BY <1>1, <1>2, <1>3, <1>8 DEF Good
<1>10. \A g \in FramesOf(proc[p].s) : g \notin FramesOf(proc[p].call.s)
  BY <1>4, <1>5, <1>6, <1>7
<1>11. ASSUME NEW g \in Frames, g = proc[p].kstack
       PROVE  g \notin ram.free /\ g \notin FramesOf(proc[p].s) /\ g \notin FramesOf(proc[p].call.s)
  <2>1. g \in Held(proc, <<"kstack", p>>)
    BY <1>4, <1>11
  <2> QED BY <1>4, <1>5, <1>7, <2>1
<1> QED BY <1>5, <1>9, <1>10, <1>11

\* A step of one process that exchanges frames between two of its parts and the
\* free list keeps the invariant if it leaves the process sound.
LEMMA OneProc ==
  ASSUME MemInv, NEW p \in Procs, NEW N \in ProcSet, proc' = [proc EXCEPT ![p] = N],
         ram' \in Memories, proc[p].st # "embryo",
         N.call.k = "fork" => proc[p].call.k = "fork" /\ N.call.child = proc[p].call.child,
         NEW a \in Kinds, NEW b \in Kinds,
         Exchange(ram, proc, ram', proc', <<a, p>>, <<b, p>>),
         Sound(p, N, ram'.holds)
  PROVE  MemInv'
<1>0. proc \in [Procs -> ProcSet] /\ Own(ram, proc) /\ ForkInv
  BY DEF MemInv, TypeInv
<1>1. proc' \in [Procs -> ProcSet] /\ proc'[p] = N /\ \A q \in Procs : q # p => proc'[q] = proc[q]
  BY <1>0
<1>2. <<a, p>> \in Holders /\ <<b, p>> \in Holders
  BY DEF Holders
<1>3. TypeInv'
  BY <1>1 DEF TypeInv
<1>4. \A q \in Procs : Sound(q, proc'[q], ram'.holds)
  <2> SUFFICES ASSUME NEW q \in Procs PROVE Sound(q, proc'[q], ram'.holds)
    OBVIOUS
  <2>1. CASE q = p
    BY <1>1, <2>1
  <2>2. CASE q # p
    <3>1. proc'[q] = proc[q] /\ q # <<a, p>>[2] /\ q # <<b, p>>[2]
      BY <1>1, <2>2
    <3> QED BY <1>2, <3>1, OthersSound
  <2> QED BY <2>1, <2>2
<1>5. Own(ram', proc')
  BY <1>0, <1>2, ExchangeKeeps
<1>6. ForkInv'
  <2>1. \A q \in Procs : proc'[q].call.k = "fork"
          => proc[q].call.k = "fork" /\ proc'[q].call.child = proc[q].call.child
    BY <1>1
  <2>2. \A q \in Procs : proc[q].call.k = "fork" =>
          proc[q].call.child \in Procs /\ proc[proc[q].call.child].st = "embryo"
    BY <1>0 DEF ForkInv, Calls
  <2>3. \A q \in Procs : proc[q].call.k = "fork" => proc'[proc[q].call.child].st = "embryo"
    BY <1>1, <2>2
  <2>4. \A q \in Procs : proc'[q].call.k = "fork" =>
          proc'[q].call.child \in Procs /\ proc'[proc'[q].call.child].st = "embryo"
    BY <2>1, <2>2, <2>3
  <2>5. \A q, r \in Procs : proc'[q].call.k = "fork" /\ proc'[r].call.k = "fork"
          /\ proc'[q].call.child = proc'[r].call.child => q = r
    BY <1>0, <2>1 DEF ForkInv, Calls
  <2> QED BY <2>4, <2>5 DEF ForkInv, Calls
<1> QED BY <1>3, <1>4, <1>5, <1>6 DEF MemInv

\* As Conserves, for a step that may also write to the space's frames.
Moves(m, s, n, r) ==
  /\ Good(n, r)
  /\ n.twice = m.twice
  /\ \A g \in Frames : g \in FramesOf(r) \/ g \in n.free <=> g \in FramesOf(s) \/ g \in m.free
  /\ \A g \in Frames : g \notin FramesOf(s) /\ g \notin m.free /\ g \notin n.free
       => n.holds[g] = m.holds[g]

\* Conserves is the stronger of the two.
LEMMA ConservesMoves ==
  ASSUME NEW m, NEW s, NEW n, NEW r, Conserves(m, s, n, r) PROVE Moves(m, s, n, r)
BY DEF Conserves, Moves

\* A step that changes the space of the call under way only.
LEMMA CallChanges ==
  ASSUME MemInv, NEW p \in Procs, NEW N \in ProcSet, proc' = [proc EXCEPT ![p] = N],
         proc[p].st # "embryo", N.kstack = proc[p].kstack, N.s = proc[p].s,
         N.call.k = "fork" => proc[p].call.k = "fork" /\ N.call.child = proc[p].call.child,
         Moves(ram, proc[p].call.s, ram', N.call.s)
  PROVE  /\ \A g \in FramesOf(proc[p].s) : ram'.holds[g] = ram.holds[g]
         /\ Sound(p, N, ram'.holds) => MemInv'
<1>0. proc \in [Procs -> ProcSet] /\ Own(ram, proc) /\ ~ram.twice
  BY GoodSpaces DEF MemInv, TypeInv
<1>1. proc'[p] = N /\ \A q \in Procs : q # p => proc'[q] = proc[q]
  BY <1>0
<1>2. /\ <<"s", p>> \in Holders /\ <<"call", p>> \in Holders
      /\ Held(proc, <<"s", p>>) = FramesOf(proc[p].s)
      /\ Held(proc, <<"call", p>>) = FramesOf(proc[p].call.s)
      /\ Held(proc', <<"call", p>>) = FramesOf(N.call.s)
  <2>1. Held(proc', <<"call", p>>) = FramesOf(proc'[p].call.s)
    BY PartFacts
  <2> QED BY <1>1, <2>1, PartFacts
<1>3. \A o \in Holders : o # <<"call", p>> => Held(proc', o) = Held(proc, o)
  <2> SUFFICES ASSUME NEW o \in Holders, o # <<"call", p>> PROVE Held(proc', o) = Held(proc, o)
    OBVIOUS
  <2>0. o[1] \in Kinds /\ o[2] \in Procs /\ o = <<o[1], o[2]>>
    BY DEF Holders
  <2>1. CASE o[2] # p
    BY <1>1, <2>0, <2>1 DEF Held
  <2>2. CASE o[2] = p
    <3>1. o[1] # "call"
      BY <2>0, <2>2
    <3>2. Part(N, o[1]) = Part(proc[p], o[1])
      BY <2>0, <3>1 DEF Part, Kinds
    <3> QED BY <1>1, <2>2, <3>2 DEF Held
  <2> QED BY <2>1, <2>2
<1>4. Exchange(ram, proc, ram', proc', <<"call", p>>, <<"call", p>>)
  <2>1. /\ Good(ram', N.call.s) /\ ram'.twice = ram.twice
        /\ \A g \in Frames : g \in FramesOf(N.call.s) \/ g \in ram'.free
                             <=> g \in FramesOf(proc[p].call.s) \/ g \in ram.free
        /\ \A g \in Frames : g \notin FramesOf(proc[p].call.s) /\ g \notin ram.free /\ g \notin ram'.free
             => ram'.holds[g] = ram.holds[g]
    BY DEF Moves
  <2>2. \A g \in Frames : g \in ram'.free => g \notin FramesOf(N.call.s)
    BY <2>1 DEF Good
  <2> QED BY <1>0, <1>2, <1>3, <2>1, <2>2 DEF Exchange
<1>5. \A g \in FramesOf(proc[p].s) : ram'.holds[g] = ram.holds[g]
  <2>1. <<"s", p>> # <<"call", p>>
    OBVIOUS
  <2>2. /\ Own(ram', proc')
        /\ \A o \in Holders, g \in Frames :
             o # <<"call", p>> /\ o # <<"call", p>> /\ g \in Held(proc, o)
               => ram'.holds[g] = ram.holds[g]
    BY <1>0, <1>2, <1>4, ExchangeKeeps
  <2>3. FramesOf(proc[p].s) \subseteq Frames
    BY DEF FramesOf
  <2> QED BY <1>2, <2>1, <2>2, <2>3
<1>6. ram' \in Memories /\ "call" \in Kinds
  BY DEF Moves, Good, Kinds
<1>7. Sound(p, N, ram'.holds) => MemInv'
  BY <1>4, <1>6, OneProc
<1> QED BY <1>5, <1>7

\* A step that changes the space of the process only.
LEMMA SpaceChanges ==
  ASSUME MemInv, NEW p \in Procs, NEW N \in ProcSet, proc' = [proc EXCEPT ![p] = N],
         proc[p].st # "embryo", N.kstack = proc[p].kstack, N.call.s = proc[p].call.s,
         N.call.k = "fork" => proc[p].call.k = "fork" /\ N.call.child = proc[p].call.child,
         Moves(ram, proc[p].s, ram', N.s)
  PROVE  Sound(p, N, ram'.holds) => MemInv'
<1>0. proc \in [Procs -> ProcSet] /\ ~ram.twice
  BY GoodSpaces DEF MemInv, TypeInv
<1>1. proc'[p] = N /\ \A q \in Procs : q # p => proc'[q] = proc[q]
  BY <1>0
<1>2. /\ Held(proc, <<"s", p>>) = FramesOf(proc[p].s)
      /\ Held(proc', <<"s", p>>) = FramesOf(N.s)
  <2>1. Held(proc', <<"s", p>>) = FramesOf(proc'[p].s)
    BY PartFacts
  <2> QED BY <1>1, <2>1, PartFacts
<1>3. \A o \in Holders : o # <<"s", p>> => Held(proc', o) = Held(proc, o)
  <2> SUFFICES ASSUME NEW o \in Holders, o # <<"s", p>> PROVE Held(proc', o) = Held(proc, o)
    OBVIOUS
  <2>0. o[1] \in Kinds /\ o[2] \in Procs /\ o = <<o[1], o[2]>>
    BY DEF Holders
  <2>1. CASE o[2] # p
    BY <1>1, <2>0, <2>1 DEF Held
  <2>2. CASE o[2] = p
    <3>1. o[1] # "s"
      BY <2>0, <2>2
    <3>2. Part(N, o[1]) = Part(proc[p], o[1])
      BY <2>0, <3>1 DEF Part, Kinds
    <3> QED BY <1>1, <2>2, <3>2 DEF Held
  <2> QED BY <2>1, <2>2
<1>4. Exchange(ram, proc, ram', proc', <<"s", p>>, <<"s", p>>)
  <2>1. /\ Good(ram', N.s) /\ ram'.twice = ram.twice
        /\ \A g \in Frames : g \in FramesOf(N.s) \/ g \in ram'.free
                             <=> g \in FramesOf(proc[p].s) \/ g \in ram.free
        /\ \A g \in Frames : g \notin FramesOf(proc[p].s) /\ g \notin ram.free /\ g \notin ram'.free
             => ram'.holds[g] = ram.holds[g]
    BY DEF Moves
  <2>2. \A g \in Frames : g \in ram'.free => g \notin FramesOf(N.s)
    BY <2>1 DEF Good
  <2> QED BY <1>0, <1>2, <1>3, <2>1, <2>2 DEF Exchange
<1>5. ram' \in Memories /\ "s" \in Kinds
  BY DEF Moves, Good, Kinds
<1> QED BY <1>4, <1>5, OneProc

\* A step that changes no memory.
LEMMA RecordChanges ==
  ASSUME MemInv, NEW p \in Procs, NEW N \in ProcSet, proc' = [proc EXCEPT ![p] = N], ram' = ram,
         proc[p].st # "embryo", N.kstack = proc[p].kstack, N.s = proc[p].s,
         N.call.s = proc[p].call.s,
         N.call.k = "fork" => proc[p].call.k = "fork" /\ N.call.child = proc[p].call.child,
         Sound(p, N, ram.holds)
  PROVE  MemInv'
<1>1. Good(ram, proc[p].call.s)
  BY GoodSpaces
<1>2. Conserves(ram, proc[p].call.s, ram, proc[p].call.s)
  BY <1>1, ConservesSelf
<1>3. Moves(ram, proc[p].call.s, ram', N.call.s)
  BY <1>2, ConservesMoves
<1>4. Sound(p, N, ram'.holds)
  OBVIOUS
<1> QED BY <1>3, <1>4, CallChanges
-----------------------------------------------------------------------------
(* Facts the actions share. *)

\* Types of a process and what the invariant says of it.
LEMMA ProcFacts ==
  ASSUME MemInv, NEW p \in Procs
  PROVE  /\ ram \in Memories /\ proc \in [Procs -> ProcSet] /\ proc[p] \in ProcSet
         /\ proc[p].s \in Spaces /\ proc[p].call \in CallSet /\ proc[p].call.s \in Spaces
         /\ proc[p].sz \in Nat /\ proc[p].own \in SUBSET Procs /\ proc[p].kstack \in Frames0
         /\ proc[p].call.a \in Nat /\ proc[p].call.from \in Nat /\ proc[p].call.to \in Nat
         /\ proc[p].st \in {"unused", "embryo", "run", "fault", "zombie"}
         /\ Shape(proc[p]) /\ Sized(proc[p]) /\ Content(p, proc[p], ram.holds)
         /\ Once(proc[p].s) /\ Once(proc[p].call.s)
<1>1. ram \in Memories /\ proc \in [Procs -> ProcSet] /\ Sound(p, proc[p], ram.holds)
  BY DEF MemInv, TypeInv
<1>2. proc[p] \in ProcSet
  BY <1>1
<1>3. proc[p].call \in CallSet
  BY <1>2 DEF ProcSet
<1> QED BY <1>1, <1>2, <1>3 DEF ProcSet, CallSet, Sound

\* A process in a call runs.
LEMMA CallRuns ==
  ASSUME MemInv, NEW p \in Procs, proc[p].call.k # "none"
  PROVE  proc[p].st = "run" /\ Built(proc[p].s)
BY ProcFacts DEF Shape

\* No call is under way.
LEMMA NoCallFacts ==
  /\ NoCall \in CallSet /\ NoCall.k = "none" /\ NoCall.s = NoSpace /\ NoCall.a = 0
BY NoSpaceFacts DEF NoCall, CallSet

\* An unused slot.
LEMMA UnusedFacts ==
  /\ Unused \in ProcSet /\ Unused.st = "unused" /\ Unused.kstack = 0 /\ Unused.s = NoSpace
  /\ Unused.call = NoCall /\ Unused.sz = 0 /\ Unused.own = {}
<1>1. 0 \in Frames0
  BY DEF Frames0
<1> QED BY <1>1, NoSpaceFacts, NoCallFacts DEF Unused, ProcSet

\* Zero is a multiple of the page size.
LEMMA ZeroPage == 0 % PGSIZE = 0
<1>1. (PGSIZE * 0 + 0) % PGSIZE = 0
  BY ModUnique, MemorySizes
<1>2. PGSIZE * 0 + 0 = 0
  BY MemorySizes
<1> QED BY <1>1, <1>2

\* The next page's address is a multiple of the page size.
LEMMA NextPage ==
  ASSUME NEW a \in Nat, a % PGSIZE = 0
  PROVE  (a + PGSIZE) % PGSIZE = 0
<1> DEFINE q == a \div PGSIZE
<1>1. q \in Nat /\ q * PGSIZE = a
  BY PageNumber
<1> HIDE DEF q
<1> DEFINE k == q + 1
<1>2. k \in Int /\ PGSIZE * k + 0 = a + PGSIZE
  BY <1>1, MemorySizes
<1> HIDE DEF k
<1>3. (PGSIZE * k + 0) % PGSIZE = 0
  <2>1. PGSIZE \in Nat \ {0} /\ 0 \in 0 .. PGSIZE - 1 /\ k \in Int
    BY <1>2, MemorySizes
  <2> QED BY <2>1, ModUnique
<1> QED BY <1>2, <1>3

\* What is below the end of the page at address a.
LEMMA BelowNext ==
  ASSUME NEW a \in Nat, a % PGSIZE = 0, a < KERNBASE
  PROVE  \A j \in Pages : j * PGSIZE < a + PGSIZE <=> j = a \div PGSIZE \/ j * PGSIZE < a
<1> DEFINE i == a \div PGSIZE
<1>1. i \in Pages /\ i * PGSIZE = a
  BY PageFacts
<1> SUFFICES ASSUME NEW j \in Pages
             PROVE  j * PGSIZE < a + PGSIZE <=> j = i \/ j * PGSIZE < a
  OBVIOUS
<1>2. /\ a < j * PGSIZE => a + PGSIZE <= j * PGSIZE
      /\ j * PGSIZE = a => j = i
  BY PageApart
<1>3. j * PGSIZE \in Nat /\ PGSIZE \in Nat \ {0}
  BY PageFacts, MemorySizes
<1> HIDE DEF i
<1> QED BY <1>1, <1>2, <1>3

\* The pages of a space are among its frames.
LEMMA PageFrames ==
  ASSUME NEW s \in Spaces, NEW i \in Pages, s.pte[i] # 0
  PROVE  s.pte[i] \in Frames /\ s.pte[i] \in FramesOf(s)
BY DEF Spaces, Frames0, FramesOf

\* Contents that stay.
LEMMA FilledKept ==
  ASSUME NEW s \in Spaces, NEW A, NEW h, NEW h2, Filled(s, A, h),
         \A g \in FramesOf(s) : h2[g] = h[g]
  PROVE  Filled(s, A, h2)
BY PageFrames DEF Filled

\* The pages both spaces of a Conserves step have keep their contents.
LEMMA ConservedPage ==
  ASSUME NEW m, NEW s, NEW n, NEW r, Good(m, s), Conserves(m, s, n, r), NEW i \in Pages,
         s.pte[i] # 0, r.pte[i] = s.pte[i]
  PROVE  n.holds[r.pte[i]] = m.holds[r.pte[i]]
<1>1. s \in Spaces /\ r \in Spaces
  BY DEF Good, Conserves
<1>2. s.pte[i] \in Frames /\ s.pte[i] \in FramesOf(s) /\ s.pte[i] \in FramesOf(r)
  BY <1>1, PageFrames
<1>3. s.pte[i] \notin m.free /\ s.pte[i] \notin n.free
  BY <1>2 DEF Good, Conserves
<1> QED BY <1>2, <1>3 DEF Conserves
-----------------------------------------------------------------------------
(* fork(). *)

\* The new page directory of a fork().
LEMMA ForkKvm ==
  ASSUME MemInv, NEW p \in Procs, fork_kvm(p), setupkvm(ram).ok
  PROVE  MemInv'
<1> DEFINE v == setupkvm(ram)
           P == proc[p]
           N == [P EXCEPT !.call = [P.call EXCEPT !.s = v.s]]
<1>0. /\ ram \in Memories /\ proc \in [Procs -> ProcSet] /\ P \in ProcSet
      /\ P.s \in Spaces /\ P.call \in CallSet
      /\ Shape(P) /\ Sized(P) /\ Content(p, P, ram.holds) /\ Once(P.s) /\ P.call.k = "fork"
  BY ProcFacts DEF fork_kvm, Calls
<1>1. P.st = "run" /\ Built(P.s)
  BY <1>0, CallRuns
<1>2. /\ Conserves(ram, NoSpace, v.m, v.s) /\ Built(v.s)
      /\ \A i \in Pages : v.s.pte[i] = 0
  BY <1>0, Setupkvm
<1>3. proc' = [proc EXCEPT ![p] = N] /\ ram' = v.m /\ P.call.s = NoSpace
  BY <1>0 DEF fork_kvm
<1>4. v.s \in Spaces /\ Once(v.s)
  BY <1>2 DEF Conserves, Good
<1> HIDE DEF v
<1>5. N \in ProcSet
  BY <1>0, <1>4 DEF ProcSet, CallSet
<1>6. /\ N.st = P.st /\ N.kstack = P.kstack /\ N.s = P.s /\ N.sz = P.sz /\ N.own = P.own
      /\ N.call.k = P.call.k /\ N.call.s = v.s /\ N.call.a = P.call.a /\ N.call.from = P.call.from
      /\ N.call.to = P.call.to /\ N.call.child = P.call.child
  BY <1>0 DEF ProcSet, CallSet
<1> HIDE DEF N
<1>7. Moves(ram, P.call.s, ram', N.call.s)
  BY <1>2, <1>3, <1>6, ConservesMoves
<1>8. /\ \A g \in FramesOf(P.s) : ram'.holds[g] = ram.holds[g]
      /\ Sound(p, N, ram'.holds) => MemInv'
  BY <1>1, <1>3, <1>5, <1>6, <1>7, CallChanges
<1> HIDE DEF P
<1>9. Shape(N)
  BY <1>0, <1>1, <1>2, <1>6 DEF Shape
<1>10. Sized(N)
  <2>1. Mapped(NoSpace, P.call.a)
    BY <1>0, <1>3 DEF Sized
  <2>2. Mapped(v.s, P.call.a)
    BY <1>2, <2>1, NoSpaceFacts DEF Mapped
  <2> QED BY <1>0, <1>6, <2>2 DEF Sized
<1>11. Content(p, N, ram'.holds)
  <2>1. p \in P.own /\ Filled(P.s, {ZERO, CODE} \cup P.own, ram.holds)
    BY <1>0, <1>1 DEF Content
  <2>2. Filled(P.s, {ZERO, CODE} \cup P.own, ram'.holds)
    BY <1>0, <1>8, <2>1, FilledKept
  <2> QED BY <1>0, <1>2, <1>6, <2>1, <2>2 DEF Content
<1>12. Sound(p, N, ram'.holds)
  BY <1>0, <1>4, <1>6, <1>9, <1>10, <1>11 DEF Sound
<1> QED BY <1>8, <1>12

\* A page copied by fork().
LEMMA ForkPage ==
  ASSUME MemInv, NEW p \in Procs, fork_page(p),
         copyuvm(ram, proc[p].s, proc[p].call.s, proc[p].call.a \div PGSIZE).ok
  PROVE  MemInv'
<1> DEFINE P == proc[p]
           d == P.call.s
           i == P.call.a \div PGSIZE
           f == kalloc(ram)
           v == copyuvm(ram, P.s, d, i)
           N == [P EXCEPT !.call = [P.call EXCEPT !.s = v.s, !.a = @ + PGSIZE]]
<1>0. /\ ram \in Memories /\ proc \in [Procs -> ProcSet] /\ P \in ProcSet
      /\ P.s \in Spaces /\ P.call \in CallSet /\ d \in Spaces /\ P.call.a \in Nat /\ P.sz \in Nat
      /\ Shape(P) /\ Sized(P) /\ Content(p, P, ram.holds) /\ Once(P.s) /\ P.call.k = "fork"
  BY ProcFacts DEF fork_page, Calls
<1>a. /\ d # NoSpace /\ P.call.a < P.sz /\ v.ok /\ ram' = v.m
      /\ proc' = [proc EXCEPT ![p].call.s = v.s, ![p].call.a = @ + PGSIZE]
  BY DEF fork_page
<1> HIDE DEF v
<1>1. P.st = "run" /\ Built(P.s) /\ Built(d)
  BY <1>0, <1>a, CallRuns DEF Shape
<1>2. /\ P.sz <= KERNBASE /\ Mapped(P.s, P.sz) /\ Mapped(d, P.call.a)
      /\ P.call.a % PGSIZE = 0 /\ P.call.a < P.sz /\ P.call.a < KERNBASE
  <2>1. P.sz <= KERNBASE /\ Mapped(P.s, P.sz) /\ Mapped(d, P.call.a) /\ P.call.a % PGSIZE = 0
    BY <1>0, <1>1 DEF Sized
  <2> QED BY <1>0, <1>a, <2>1, MemorySizes
<1>3. i \in Pages /\ i * PGSIZE = P.call.a
  BY <1>0, <1>2, PageFacts
<1>4. Good(ram, d)
  BY GoodSpaces
<1> HIDE DEF i
<1>5. d.pte[i] = 0 /\ P.s.pte[i] # 0
  <2> HIDE DEF P, d
  <2> QED BY <1>0, <1>2, <1>3 DEF Mapped
<1>6. /\ Conserves(ram, d, v.m, v.s) /\ Built(v.s) /\ f \in ram.free
      /\ \A j \in Pages : v.s.pte[j] = IF j = i THEN f ELSE d.pte[j]
      /\ v.s.user = IF i \in P.s.user THEN d.user \cup {i} ELSE d.user \ {i}
      /\ v.m.holds[f] = ram.holds[P.s.pte[i]]
  <2> HIDE DEF P, d
  <2>1. /\ v.ok \in BOOLEAN
        /\ v.ok => /\ Conserves(ram, d, v.m, v.s) /\ Built(v.s)
                   /\ f \in ram.free
                   /\ \A j \in Pages : v.s.pte[j] = IF j = i THEN f ELSE d.pte[j]
                   /\ v.s.user = IF i \in P.s.user THEN d.user \cup {i} ELSE d.user \ {i}
                   /\ v.m.holds[f] = ram.holds[P.s.pte[i]]
        /\ ~v.ok => Conserves(ram, d, v.m, NoSpace)
    BY <1>0, <1>1, <1>3, <1>4, <1>5, Copyuvm DEF v
  <2> HIDE DEF f
  <2> QED BY <1>a, <2>1
<1>7. v.s \in Spaces /\ Once(v.s) /\ f # 0
  BY <1>0, <1>6, MemorySizes DEF Conserves, Good, Memories
<1> HIDE DEF f
<1>8. proc' = [proc EXCEPT ![p] = N] /\ ram' = v.m
  BY <1>0, <1>a
<1>9. N \in ProcSet
  <2>1. P.call.a + PGSIZE \in Nat
    BY <1>0, MemorySizes
  <2>2. [P.call EXCEPT !.s = v.s, !.a = @ + PGSIZE] \in CallSet
    BY <1>0, <1>7, <2>1 DEF CallSet
  <2> QED BY <1>0, <2>2 DEF ProcSet
<1>10. /\ N.st = P.st /\ N.kstack = P.kstack /\ N.s = P.s /\ N.sz = P.sz /\ N.own = P.own
       /\ N.call.k = P.call.k /\ N.call.s = v.s /\ N.call.a = P.call.a + PGSIZE
       /\ N.call.from = P.call.from /\ N.call.to = P.call.to /\ N.call.child = P.call.child
  BY <1>0 DEF ProcSet, CallSet
<1> HIDE DEF N
<1>11. Moves(ram, P.call.s, ram', N.call.s)
  BY <1>6, <1>8, <1>10, ConservesMoves
<1>12. /\ \A g \in FramesOf(P.s) : ram'.holds[g] = ram.holds[g]
       /\ Sound(p, N, ram'.holds) => MemInv'
  BY <1>1, <1>8, <1>9, <1>10, <1>11, CallChanges
<1>13. Mapped(v.s, P.call.a + PGSIZE) /\ (P.call.a + PGSIZE) % PGSIZE = 0
  <2> DEFINE a == P.call.a
  <2>1. a \in Nat /\ a % PGSIZE = 0 /\ a < KERNBASE /\ Mapped(d, a)
    BY <1>0, <1>2
  <2>2. \A j \in Pages : v.s.pte[j] # 0 <=> j = i \/ j * PGSIZE < a
    BY <1>3, <1>6, <1>7, <2>1 DEF Mapped
  <2> HIDE DEF a, d
  <2>3. \A j \in Pages : j * PGSIZE < a + PGSIZE <=> j = a \div PGSIZE \/ j * PGSIZE < a
    BY <2>1, BelowNext
  <2>4. i = a \div PGSIZE
    BY DEF a, i
  <2>5. Mapped(v.s, a + PGSIZE)
    BY <2>2, <2>3, <2>4 DEF Mapped
  <2>6. (a + PGSIZE) % PGSIZE = 0
    BY <2>1, NextPage
  <2> QED BY <2>5, <2>6 DEF a
<1>d. d = P.call.s
  OBVIOUS
<1> HIDE DEF P, d
<1>14. Shape(N)
  BY <1>0, <1>1, <1>6, <1>10 DEF Shape
<1>15. Sized(N)
  <2>1. P.call.a + PGSIZE < P.sz + PGSIZE
    BY <1>0, <1>2, MemorySizes
  <2> QED BY <1>0, <1>1, <1>2, <1>10, <1>13, <2>1 DEF Sized
<1>16. Content(p, N, ram'.holds)
  <2>1. p \in P.own /\ Filled(P.s, {ZERO, CODE} \cup P.own, ram.holds)
    BY <1>0, <1>1 DEF Content
  <2>2. Filled(P.s, {ZERO, CODE} \cup P.own, ram'.holds)
    BY <1>0, <1>12, <2>1, FilledKept
  <2>3. ASSUME NEW j \in Pages, v.s.pte[j] # 0
        PROVE  ram'.holds[v.s.pte[j]] = ram'.holds[P.s.pte[j]] /\ (j \in v.s.user <=> j \in P.s.user)
    <3>1. CASE j = i
      <4>1. P.s.pte[i] \in FramesOf(P.s)
        BY <1>0, <1>3, <1>5, PageFrames
      <4>2. ram'.holds[P.s.pte[i]] = ram.holds[P.s.pte[i]]
        BY <1>12, <4>1
      <4> QED BY <1>3, <1>6, <1>8, <3>1, <4>2
    <3>2. CASE j # i
      <4>1. v.s.pte[j] = d.pte[j] /\ d.pte[j] # 0
        BY <1>6, <2>3, <3>2
      <4>2. v.m.holds[v.s.pte[j]] = ram.holds[v.s.pte[j]]
        <5>1. Conserves(ram, d, v.m, v.s) /\ Good(ram, d)
          BY <1>4, <1>6
        <5> HIDE DEF d
        <5> QED BY <4>1, <5>1, ConservedPage
      <4>3. ram.holds[d.pte[j]] = ram.holds[P.s.pte[j]] /\ (j \in d.user <=> j \in P.s.user)
        BY <1>0, <1>d, <4>1 DEF Content
      <4>4. P.s.pte[j] # 0
        BY <1>0, <1>d, <4>1, CopiedMapped
      <4>5. P.s.pte[j] \in FramesOf(P.s)
        BY <1>0, <4>4, PageFrames
      <4>6. ram'.holds[P.s.pte[j]] = ram.holds[P.s.pte[j]]
        BY <1>12, <4>5
      <4>7. j \in v.s.user <=> j \in d.user
        BY <1>6, <3>2
      <4> QED BY <1>8, <4>1, <4>2, <4>3, <4>6, <4>7
    <3> QED BY <3>1, <3>2
  <2> QED BY <1>0, <1>10, <2>1, <2>2, <2>3 DEF Content
<1>17. Sound(p, N, ram'.holds)
  BY <1>0, <1>7, <1>10, <1>14, <1>15, <1>16 DEF Sound
<1> QED BY <1>12, <1>17

\* A step of fork() on two processes that exchanges frames between two parts of
\* them and the free list keeps the invariant if it leaves both sound.
LEMMA TwoProcs ==
  ASSUME MemInv, NEW p \in Procs, NEW c \in Procs, p # c, NEW N \in ProcSet, NEW M \in ProcSet,
         proc' \in [Procs -> ProcSet], proc'[p] = N, proc'[c] = M,
         \A q \in Procs : q # p /\ q # c => proc'[q] = proc[q],
         ram' \in Memories, NEW a \in Holders, NEW b \in Holders,
         a[2] \in {p, c}, b[2] \in {p, c},
         Exchange(ram, proc, ram', proc', a, b),
         Sound(p, N, ram'.holds), Sound(c, M, ram'.holds), ForkInv'
  PROVE  MemInv'
<1>1. TypeInv'
  BY DEF TypeInv
<1>2. \A q \in Procs : Sound(q, proc'[q], ram'.holds)
  <2> SUFFICES ASSUME NEW q \in Procs PROVE Sound(q, proc'[q], ram'.holds)
    OBVIOUS
  <2>1. CASE q = p \/ q = c
    BY <2>1
  <2>2. CASE q # p /\ q # c
    <3>1. proc'[q] = proc[q] /\ q # a[2] /\ q # b[2]
      BY <2>2
    <3> QED BY <3>1, OthersSound
  <2> QED BY <2>1, <2>2
<1>3. Own(ram, proc)
  BY DEF MemInv
<1>4. Own(ram', proc')
  BY <1>3, ExchangeKeeps
<1> QED BY <1>1, <1>2, <1>4 DEF MemInv

\* A slot without a user and the child of a fork() have no space.
LEMMA ChildFacts ==
  ASSUME MemInv, NEW c \in Procs, proc[c].st \in {"unused", "embryo"}
  PROVE  /\ proc[c].s = NoSpace /\ proc[c].call.s = NoSpace /\ proc[c].call.k = "none"
         /\ proc[c].st = "embryo" => proc[c].kstack \in Frames
         /\ proc[c].st = "unused" => proc[c].kstack = 0
         /\ proc[c].call.a % PGSIZE = 0
<1>1. Shape(proc[c]) /\ Sized(proc[c]) /\ proc[c].kstack \in Frames0
  BY ProcFacts
<1>2. proc[c].st = "unused" <=> proc[c].kstack = 0
  BY <1>1 DEF Shape
<1>3. proc[c].s = NoSpace /\ proc[c].call.k = "none"
  BY <1>1 DEF Shape
<1>4. proc[c].call.s = NoSpace
  BY <1>1, <1>3 DEF Shape
<1> QED BY <1>1, <1>2, <1>3, <1>4 DEF Frames0, Sized

\* An unused slot is sound.
LEMMA UnusedSound == ASSUME NEW p, NEW h PROVE Sound(p, Unused, h)
<1>1. Shape(Unused)
  BY UnusedFacts, NoCallFacts DEF Shape
<1>2. Sized(Unused)
  BY UnusedFacts, NoCallFacts, ZeroPage DEF Sized
<1>3. Content(p, Unused, h)
  BY UnusedFacts, NoCallFacts DEF Content
<1> QED BY <1>1, <1>2, <1>3, UnusedFacts, NoCallFacts, NoSpaceFacts DEF Sound

\* A process without a call, or whose call ends without a trace, is sound if it
\* was and keeps its pages.
LEMMA CallEnds ==
  ASSUME MemInv, NEW p \in Procs, proc[p].st = "run", proc[p].call.k # "grow",
         NEW h, \A g \in FramesOf(proc[p].s) : h[g] = ram.holds[g],
         NEW N \in ProcSet, N.st = "run", N.kstack = proc[p].kstack, N.s = proc[p].s,
         N.sz = proc[p].sz, N.own = proc[p].own, N.call = NoCall
  PROVE  Sound(p, N, h)
<1>0. /\ proc[p].s \in Spaces /\ Shape(proc[p]) /\ Sized(proc[p]) /\ Content(p, proc[p], ram.holds)
      /\ Once(proc[p].s)
  BY ProcFacts
<1>1. Shape(N)
  BY <1>0, NoCallFacts DEF Shape
<1>2. Sized(N)
  BY <1>0, NoCallFacts, ZeroPage DEF Sized
<1>3. Content(p, N, h)
  <2>1. p \in N.own /\ Filled(N.s, {ZERO, CODE} \cup N.own, ram.holds)
    BY <1>0 DEF Content
  <2>2. Filled(N.s, {ZERO, CODE} \cup N.own, h)
    BY <1>0, <2>1, FilledKept
  <2> QED BY <2>1, <2>2, NoCallFacts DEF Content
<1> QED BY <1>0, <1>1, <1>2, <1>3, NoCallFacts, NoSpaceFacts DEF Sound

\* When the fork() of process p ends the others' children are as they were.
LEMMA ForkOver ==
  ASSUME MemInv, NEW p \in Procs, Calls(p, "fork"), proc'[p].call.k = "none",
         proc'[proc[p].call.child].call.k = "none",
         \A q \in Procs : q # p /\ q # proc[p].call.child => proc'[q] = proc[q]
  PROVE  ForkInv'
<1> DEFINE c == proc[p].call.child
<1>0. ForkInv
  BY DEF MemInv
<1>1. /\ \A q \in Procs : proc[q].call.k = "fork" =>
           proc[q].call.child \in Procs /\ proc[proc[q].call.child].st = "embryo"
      /\ \A q, r \in Procs : proc[q].call.k = "fork" /\ proc[r].call.k = "fork"
           /\ proc[q].call.child = proc[r].call.child => q = r
      /\ proc[p].call.k = "fork"
  BY <1>0 DEF ForkInv, Calls
<1>2. proc[p].st = "run"
  BY <1>1, CallRuns
<1>3. ASSUME NEW q \in Procs, proc'[q].call.k = "fork"
      PROVE  /\ proc'[q] = proc[q] /\ q # p
             /\ proc[q].call.child # c /\ proc[q].call.child # p
  <2>1. q # p /\ q # c
    BY <1>3
  <2>2. proc'[q] = proc[q]
    BY <2>1
  <2> QED BY <1>1, <1>2, <1>3, <2>1, <2>2
<1> HIDE DEF c
<1>4. \A q \in Procs : proc'[q].call.k = "fork" =>
        proc'[q].call.child \in Procs /\ proc'[proc'[q].call.child].st = "embryo"
  <2> SUFFICES ASSUME NEW q \in Procs, proc'[q].call.k = "fork"
               PROVE  proc'[q].call.child \in Procs /\ proc'[proc'[q].call.child].st = "embryo"
    OBVIOUS
  <2>1. proc'[q] = proc[q] /\ proc[q].call.child # c /\ proc[q].call.child # p
    BY <1>3
  <2>2. proc[q].call.child \in Procs /\ proc[proc[q].call.child].st = "embryo"
    BY <1>1, <2>1
  <2>3. proc'[proc[q].call.child] = proc[proc[q].call.child]
    BY <2>1, <2>2 DEF c
  <2> QED BY <2>1, <2>2, <2>3
<1>5. \A q, r \in Procs : proc'[q].call.k = "fork" /\ proc'[r].call.k = "fork"
        /\ proc'[q].call.child = proc'[r].call.child => q = r
  BY <1>1, <1>3
<1> QED BY <1>4, <1>5 DEF ForkInv, Calls

\* A failed fork() frees the kernel stack and the slot of the child.
LEMMA Unfork ==
  ASSUME MemInv, NEW p \in Procs, Calls(p, "fork"), NEW m,
         Conserves(ram, proc[p].call.s, m, NoSpace), unfork(p, m)
  PROVE  MemInv'
<1> DEFINE P == proc[p]
           c == P.call.child
           k == proc[c].kstack
           N == [P EXCEPT !.call = NoCall]
<1>0. /\ ram \in Memories /\ proc \in [Procs -> ProcSet] /\ P \in ProcSet /\ P.call.k = "fork"
      /\ Own(ram, proc) /\ ForkInv
  BY ProcFacts DEF Calls, MemInv
<1>1. c \in Procs /\ proc[c].st = "embryo" /\ P.st = "run" /\ c # p
  BY <1>0, CallRuns DEF ForkInv, Calls
<1>2. proc[c].s = NoSpace /\ proc[c].call.s = NoSpace /\ k \in Frames
  BY <1>1, ChildFacts
<1>3. ram' = kfree(m, {k}) /\ proc' = [proc EXCEPT ![c] = Unused, ![p].call = NoCall]
  BY DEF unfork
<1>4. /\ proc' \in [Procs -> ProcSet] /\ proc'[p] = N /\ proc'[c] = Unused /\ N \in ProcSet
      /\ \A q \in Procs : q # p /\ q # c => proc'[q] = proc[q]
      /\ N.st = P.st /\ N.kstack = P.kstack /\ N.s = P.s /\ N.sz = P.sz /\ N.own = P.own
      /\ N.call = NoCall
  <2>1. N \in ProcSet
    BY <1>0, NoCallFacts DEF ProcSet
  <2>2. proc' = [q \in Procs |-> IF q = p THEN N ELSE IF q = c THEN Unused ELSE proc[q]]
    BY <1>0, <1>1, <1>3
  <2> QED BY <1>0, <1>1, <2>1, <2>2, UnusedFacts DEF ProcSet
<1>5. /\ <<"kstack", c>> \in Holders /\ <<"call", p>> \in Holders /\ <<"s", p>> \in Holders
      /\ Held(proc, <<"kstack", c>>) = {k}
      /\ Held(proc, <<"call", p>>) = FramesOf(P.call.s)
      /\ Held(proc, <<"s", p>>) = FramesOf(P.s)
      /\ Held(proc', <<"kstack", c>>) = {}
      /\ Held(proc', <<"call", p>>) = {}
  <2>1. Held(proc', <<"kstack", c>>) = {f \in Frames : f = proc'[c].kstack}
    BY <1>1, PartFacts
  <2>2. Held(proc', <<"call", p>>) = FramesOf(proc'[p].call.s)
    BY PartFacts
  <2>3. Held(proc, <<"kstack", c>>) = {f \in Frames : f = k}
    BY <1>1, PartFacts
  <2>4. proc'[c].kstack = 0 /\ proc'[p].call.s = NoSpace
    BY <1>4, UnusedFacts, NoCallFacts
  <2>5. Held(proc, <<"kstack", c>>) = {k}
    BY <1>2, <2>3
  <2>6. Held(proc', <<"kstack", c>>) = {}
    BY <2>1, <2>4, MemorySizes
  <2>7. Held(proc', <<"call", p>>) = {}
    BY <2>2, <2>4, NoSpaceFacts
  <2>8. /\ <<"kstack", c>> \in Holders /\ <<"call", p>> \in Holders /\ <<"s", p>> \in Holders
        /\ Held(proc, <<"call", p>>) = FramesOf(P.call.s)
        /\ Held(proc, <<"s", p>>) = FramesOf(P.s)
    BY <1>1, PartFacts
  <2> QED BY <2>5, <2>6, <2>7, <2>8
<1> HIDE DEF N
<1>6. \A o \in Holders : o # <<"kstack", c>> /\ o # <<"call", p>> => Held(proc', o) = Held(proc, o)
  <2> SUFFICES ASSUME NEW o \in Holders, o # <<"kstack", c>>, o # <<"call", p>>
               PROVE  Held(proc', o) = Held(proc, o)
    OBVIOUS
  <2>0. o[1] \in Kinds /\ o[2] \in Procs /\ o = <<o[1], o[2]>>
    BY DEF Holders
  <2>1. CASE o[2] # p /\ o[2] # c
    BY <1>4, <2>0, <2>1 DEF Held
  <2>2. CASE o[2] = p
    <3>1. o[1] # "call"
      BY <2>0, <2>2
    <3>2. Part(N, o[1]) = Part(P, o[1])
      BY <1>4, <2>0, <3>1 DEF Part, Kinds
    <3> QED BY <1>4, <2>2, <3>2 DEF Held
  <2>3. CASE o[2] = c
    <3>1. o[1] # "kstack"
      BY <2>0, <2>3
    <3>2. Part(Unused, o[1]) = Part(proc[c], o[1])
      BY <1>2, <2>0, <3>1, UnusedFacts, NoCallFacts DEF Part, Kinds
    <3> QED BY <1>4, <2>3, <3>2 DEF Held
  <2> QED BY <2>1, <2>2, <2>3
<1>7. /\ m \in Memories /\ m.twice = ram.twice /\ ~ram.twice
      /\ \A g \in Frames : g \in m.free <=> g \in FramesOf(P.call.s) \/ g \in ram.free
      /\ \A g \in Frames : g \notin ram.free /\ g \notin m.free => m.holds[g] = ram.holds[g]
  BY <1>0, NoSpaceFacts DEF Conserves, Good, Own
<1>8. k \notin ram.free /\ k \notin FramesOf(P.call.s)
  <2>1. <<"kstack", c>> # <<"call", p>>
    OBVIOUS
  <2>2. /\ \A o, q \in Holders, f \in Frames : f \in Held(proc, o) /\ f \in Held(proc, q) => o = q
        /\ \A o \in Holders, f \in Frames : f \in Held(proc, o) => f \notin ram.free
    BY <1>0 DEF Own
  <2> HIDE DEF k, c, P
  <2> QED BY <1>2, <1>5, <2>1, <2>2
<1>9. /\ ram' \in Memories /\ ram'.free = m.free \cup {k}
      /\ ram'.twice = (m.twice \/ m.free \cap {k} # {})
      /\ \A g \in Frames : g # k => ram'.holds[g] = m.holds[g]
  <2>1. {k} \in SUBSET Frames
    BY <1>2
  <2> HIDE DEF k
  <2> QED BY <1>3, <1>7, <2>1, KfreeFacts
<1>10. ~ram'.twice
  <2>1. m.free \cap {k} = {}
    BY <1>2, <1>7, <1>8
  <2> QED BY <1>7, <1>9, <2>1
<1>11. Exchange(ram, proc, ram', proc', <<"kstack", c>>, <<"call", p>>)
  <2> HIDE DEF k, c, P
  <2>1. \A g \in Frames : \/ g \in Held(proc', <<"kstack", c>>) \/ g \in Held(proc', <<"call", p>>)
                          \/ g \in ram'.free
          <=> g \in Held(proc, <<"kstack", c>>) \/ g \in Held(proc, <<"call", p>>) \/ g \in ram.free
    BY <1>5, <1>7, <1>9
  <2>2. \A g \in Frames : /\ g \notin Held(proc, <<"kstack", c>>) /\ g \notin Held(proc, <<"call", p>>)
                          /\ g \notin ram.free /\ g \notin ram'.free
          => ram'.holds[g] = ram.holds[g]
    BY <1>5, <1>7, <1>9
  <2> QED BY <1>5, <1>6, <1>10, <2>1, <2>2 DEF Exchange
<1>12. \A g \in FramesOf(P.s) : ram'.holds[g] = ram.holds[g]
  <2>1. /\ Own(ram', proc')
        /\ \A o \in Holders, g \in Frames :
             o # <<"kstack", c>> /\ o # <<"call", p>> /\ g \in Held(proc, o)
               => ram'.holds[g] = ram.holds[g]
    BY <1>0, <1>5, <1>11, ExchangeKeeps
  <2>2. <<"s", p>> # <<"kstack", c>> /\ <<"s", p>> # <<"call", p>> /\ FramesOf(P.s) \subseteq Frames
    BY DEF FramesOf
  <2> QED BY <1>5, <2>1, <2>2
<1>13. Sound(p, N, ram'.holds)
  BY <1>0, <1>1, <1>4, <1>12, CallEnds
<1>14. ForkInv'
  <2>1. proc'[p].call.k = "none" /\ proc'[c].call.k = "none"
    BY <1>4, UnusedFacts, NoCallFacts
  <2> QED BY <1>4, <2>1, ForkOver
<1>15. Unused \in ProcSet /\ Sound(c, Unused, ram'.holds)
  BY UnusedFacts, UnusedSound
<1>16. <<"kstack", c>>[2] \in {p, c} /\ <<"call", p>>[2] \in {p, c}
  OBVIOUS
<1> HIDE DEF c, P
<1> QED BY <1>1, <1>4, <1>5, <1>9, <1>11, <1>13, <1>14, <1>15, <1>16, TwoProcs

\* The kernel stack and the slot of the child of a fork().
LEMMA ForkStarts ==
  ASSUME MemInv, NEW p \in Procs, fork(p)
  PROVE  MemInv'
<1> DEFINE P == proc[p]
           c == Min(UnusedSlots)
           f == kalloc(ram)
           M == [Unused EXCEPT !.st = "embryo", !.kstack = f]
           C == [NoCall EXCEPT !.k = "fork", !.child = c]
           N == [P EXCEPT !.call = C]
<1>0. /\ ram \in Memories /\ proc \in [Procs -> ProcSet] /\ P \in ProcSet /\ P.call.k = "none"
      /\ P.s \in Spaces /\ P.st = "run" /\ Own(ram, proc) /\ ForkInv
      /\ Shape(P) /\ Sized(P) /\ Content(p, P, ram.holds) /\ Once(P.s) /\ ~ram.twice
  BY ProcFacts, GoodSpaces DEF fork, Idle, MemInv
<1>1. c \in Procs /\ proc[c].st = "unused" /\ c # p
  <2>1. UnusedSlots # {} /\ UnusedSlots \in SUBSET Nat
    BY MemorySizes DEF fork, UnusedSlots
  <2>2. \E x \in UnusedSlots : \A y \in UnusedSlots : x <= y
    BY <2>1, LeastNatural
  <2>3. c \in UnusedSlots
    BY <2>2 DEF Min
  <2> HIDE DEF c
  <2> QED BY <1>0, <2>3 DEF UnusedSlots
<1>2. f \in ram.free /\ f \in Frames /\ f # 0
  BY <1>0, KallocFacts DEF fork
<1>3. /\ ram' = Take(ram, f, ZERO)
      /\ proc' = [proc EXCEPT ![c] = M, ![p].call = C]
  BY DEF fork
<1> HIDE DEF c, f
<1>4. /\ proc[c].s = NoSpace /\ proc[c].call.s = NoSpace /\ proc[c].call.k = "none"
      /\ proc[c].kstack = 0
  BY <1>1, ChildFacts
<1>5. /\ ram' \in Memories /\ ram'.free = ram.free \ {f} /\ ram'.twice = ram.twice
      /\ \A g \in Frames : ram'.holds[g] = IF g = f THEN ZERO ELSE ram.holds[g]
  <2>1. ZERO \in Int
    BY DEF ZERO
  <2> QED BY <1>0, <1>2, <1>3, <2>1, TakeFacts
<1>6. /\ M \in ProcSet /\ M.st = "embryo" /\ M.kstack = f /\ M.s = NoSpace /\ M.call = NoCall
  <2>1. f \in Frames0
    BY <1>2 DEF Frames0
  <2> QED BY <2>1, UnusedFacts DEF ProcSet
<1>7. C \in CallSet /\ C.k = "fork" /\ C.s = NoSpace /\ C.a = 0 /\ C.child = c
  BY <1>1, NoCallFacts DEF CallSet
<1> HIDE DEF M, C
<1>8. /\ N \in ProcSet /\ N.st = P.st /\ N.kstack = P.kstack /\ N.s = P.s /\ N.sz = P.sz
      /\ N.own = P.own /\ N.call = C
  BY <1>0, <1>7 DEF ProcSet
<1>9. /\ proc' \in [Procs -> ProcSet] /\ proc'[p] = N /\ proc'[c] = M
      /\ \A q \in Procs : q # p /\ q # c => proc'[q] = proc[q]
  <2>1. proc' = [q \in Procs |-> IF q = p THEN N ELSE IF q = c THEN M ELSE proc[q]]
    BY <1>0, <1>1, <1>3
  <2> HIDE DEF N
  <2> QED BY <1>0, <1>1, <1>6, <1>8, <2>1
<1> HIDE DEF N
<1>10. /\ <<"kstack", c>> \in Holders /\ <<"s", p>> \in Holders
       /\ Held(proc, <<"kstack", c>>) = {}
       /\ Held(proc, <<"s", p>>) = FramesOf(P.s)
       /\ Held(proc', <<"kstack", c>>) = {f}
  <2>1. Held(proc', <<"kstack", c>>) = {g \in Frames : g = proc'[c].kstack}
    BY DEF Held, Part
  <2>2. Held(proc, <<"kstack", c>>) = {g \in Frames : g = proc[c].kstack}
    BY DEF Held, Part
  <2>3. Held(proc, <<"kstack", c>>) = {}
    BY <1>4, <2>2, MemorySizes
  <2>4. Held(proc', <<"kstack", c>>) = {f}
    BY <1>2, <1>6, <1>9, <2>1
  <2>5. <<"kstack", c>> \in Holders /\ <<"s", p>> \in Holders /\ Held(proc, <<"s", p>>) = FramesOf(P.s)
    BY <1>1, PartFacts
  <2> QED BY <2>3, <2>4, <2>5
<1>11. P.call.s = NoSpace
  BY <1>0 DEF Shape
<1>12. \A o \in Holders : o # <<"kstack", c>> => Held(proc', o) = Held(proc, o)
  <2> SUFFICES ASSUME NEW o \in Holders, o # <<"kstack", c>> PROVE Held(proc', o) = Held(proc, o)
    OBVIOUS
  <2>0. o[1] \in Kinds /\ o[2] \in Procs /\ o = <<o[1], o[2]>>
    BY DEF Holders
  <2>1. CASE o[2] # p /\ o[2] # c
    BY <1>9, <2>0, <2>1 DEF Held
  <2>2. CASE o[2] = p
    <3>1. Part(N, o[1]) = Part(P, o[1])
      BY <1>7, <1>8, <1>11, <2>0 DEF Part, Kinds
    <3> QED BY <1>9, <2>2, <3>1 DEF Held
  <2>3. CASE o[2] = c
    <3>1. o[1] # "kstack"
      BY <2>0, <2>3
    <3>2. Part(M, o[1]) = Part(proc[c], o[1])
      BY <1>4, <1>6, <2>0, <3>1, NoCallFacts DEF Part, Kinds
    <3> QED BY <1>9, <2>3, <3>2 DEF Held
  <2> QED BY <2>1, <2>2, <2>3
<1>13. Exchange(ram, proc, ram', proc', <<"kstack", c>>, <<"kstack", c>>)
  BY <1>0, <1>2, <1>5, <1>10, <1>12 DEF Exchange
<1>14. \A g \in FramesOf(P.s) : ram'.holds[g] = ram.holds[g]
  <2>1. /\ Own(ram', proc')
        /\ \A o \in Holders, g \in Frames :
             o # <<"kstack", c>> /\ o # <<"kstack", c>> /\ g \in Held(proc, o)
               => ram'.holds[g] = ram.holds[g]
    BY <1>0, <1>10, <1>13, ExchangeKeeps
  <2>2. <<"s", p>> # <<"kstack", c>> /\ FramesOf(P.s) \subseteq Frames
    BY DEF FramesOf
  <2> QED BY <1>10, <2>1, <2>2
<1> HIDE DEF P
<1>15. Sound(p, N, ram'.holds)
  <2>1. Shape(N)
    BY <1>0, <1>7, <1>8 DEF Shape
  <2>2. Sized(N)
    <3>1. Mapped(NoSpace, 0)
      BY PageFacts, NoSpaceFacts DEF Mapped
    <3>2. P.sz \in Nat /\ 0 < P.sz + PGSIZE
      BY <1>0, MemorySizes DEF ProcSet
    <3>3. P.sz <= KERNBASE /\ Mapped(P.s, P.sz)
      BY <1>0 DEF Sized
    <3> QED BY <1>0, <1>7, <1>8, <3>1, <3>2, <3>3, ZeroPage DEF Sized
  <2>3. Content(p, N, ram'.holds)
    <3>1. p \in P.own /\ Filled(P.s, {ZERO, CODE} \cup P.own, ram.holds)
      BY <1>0 DEF Content
    <3>2. Filled(P.s, {ZERO, CODE} \cup P.own, ram'.holds)
      BY <1>0, <1>14, <3>1, FilledKept
    <3> QED BY <1>7, <1>8, <3>1, <3>2, NoSpaceFacts DEF Content
  <2> QED BY <1>0, <1>7, <1>8, <2>1, <2>2, <2>3, NoSpaceFacts DEF Sound
<1>16. Sound(c, M, ram'.holds)
  <2>1. Shape(M)
    BY <1>2, <1>6, NoCallFacts DEF Shape
  <2>2. Sized(M)
    BY <1>6, NoCallFacts, ZeroPage DEF Sized
  <2>3. Content(c, M, ram'.holds)
    BY <1>6, NoCallFacts DEF Content
  <2> QED BY <1>6, <2>1, <2>2, <2>3, NoCallFacts, NoSpaceFacts DEF Sound
<1>17. ForkInv'
  <2>1. /\ \A q \in Procs : proc[q].call.k = "fork" =>
             proc[q].call.child \in Procs /\ proc[proc[q].call.child].st = "embryo"
        /\ \A q, r \in Procs : proc[q].call.k = "fork" /\ proc[r].call.k = "fork"
             /\ proc[q].call.child = proc[r].call.child => q = r
    BY <1>0 DEF ForkInv, Calls
  <2>2. ASSUME NEW q \in Procs, proc'[q].call.k = "fork", q # p
        PROVE  /\ proc'[q] = proc[q] /\ proc[q].call.k = "fork"
               /\ proc[q].call.child # c /\ proc[q].call.child # p
               /\ proc'[proc[q].call.child].st = "embryo"
    <3>1. q # c
      BY <1>6, <1>9, <2>2, NoCallFacts
    <3>2. proc'[q] = proc[q] /\ proc[q].call.k = "fork"
      BY <1>9, <2>2, <3>1
    <3>3. proc[proc[q].call.child].st = "embryo" /\ proc[q].call.child \in Procs
      BY <2>1, <3>2
    <3>4. proc[q].call.child # c /\ proc[q].call.child # p
      BY <1>0, <1>1, <3>3 DEF P
    <3> QED BY <1>9, <3>2, <3>3, <3>4
  <2>3. proc'[p].call.child = c /\ proc'[c].st = "embryo"
    BY <1>6, <1>7, <1>8, <1>9
  <2>4. \A q \in Procs : proc'[q].call.k = "fork" =>
          proc'[q].call.child \in Procs /\ proc'[proc'[q].call.child].st = "embryo"
    BY <1>1, <2>1, <2>2, <2>3
  <2>5. \A q, r \in Procs : proc'[q].call.k = "fork" /\ proc'[r].call.k = "fork"
          /\ proc'[q].call.child = proc'[r].call.child => q = r
    BY <2>1, <2>2, <2>3
  <2> QED BY <2>4, <2>5 DEF ForkInv, Calls
<1>18. <<"kstack", c>>[2] \in {p, c}
  OBVIOUS
<1> QED BY <1>1, <1>5, <1>6, <1>8, <1>9, <1>10, <1>13, <1>15, <1>16, <1>17, <1>18, TwoProcs

\* fork() gives the child the copied space and lets it run.
LEMMA ForkEnds ==
  ASSUME MemInv, NEW p \in Procs, fork_end(p)
  PROVE  MemInv'
<1> DEFINE P == proc[p]
           d == P.call.s
           c == P.call.child
           K == proc[c]
           N == [P EXCEPT !.call = NoCall]
           M == [K EXCEPT !.st = "run", !.s = d, !.sz = P.sz, !.own = P.own \cup {c}]
<1>0. /\ ram \in Memories /\ proc \in [Procs -> ProcSet] /\ P \in ProcSet /\ P.call.k = "fork"
      /\ P.s \in Spaces /\ d \in Spaces /\ P.sz \in Nat /\ P.own \in SUBSET Procs /\ P.call.a \in Nat
      /\ Own(ram, proc) /\ ForkInv /\ ~ram.twice
      /\ Shape(P) /\ Sized(P) /\ Content(p, P, ram.holds) /\ Once(P.s) /\ Once(d)
  BY ProcFacts, GoodSpaces DEF fork_end, Calls, MemInv
<1>1. c \in Procs /\ K.st = "embryo" /\ P.st = "run" /\ c # p
  BY <1>0, CallRuns DEF ForkInv, Calls
<1>2. /\ K.s = NoSpace /\ K.call.s = NoSpace /\ K.call.k = "none" /\ K.kstack \in Frames
      /\ K.call.a % PGSIZE = 0
  BY <1>1, ChildFacts
<1>3. K \in ProcSet
  BY <1>0, <1>1
<1>4. /\ d # NoSpace /\ P.call.a >= P.sz /\ ram' = ram
      /\ proc' = [proc EXCEPT ![p].call = NoCall, ![c] = M]
  <2>1. /\ d # NoSpace /\ P.call.a >= P.sz /\ ram' = ram
        /\ proc' = [proc EXCEPT ![p].call = NoCall,
                                ![c] = [@ EXCEPT !.st = "run", !.s = d, !.sz = P.sz, !.own = P.own \cup {c}]]
    BY DEF fork_end
  <2> QED BY <1>0, <1>1, <2>1
<1>5. /\ N \in ProcSet /\ N.st = P.st /\ N.kstack = P.kstack /\ N.s = P.s /\ N.sz = P.sz
      /\ N.own = P.own /\ N.call = NoCall
  BY <1>0, NoCallFacts DEF ProcSet
<1>6. /\ M \in ProcSet /\ M.st = "run" /\ M.kstack = K.kstack /\ M.s = d /\ M.sz = P.sz
      /\ M.own = P.own \cup {c} /\ M.call = K.call
  <2>1. P.own \cup {c} \in SUBSET Procs
    BY <1>0, <1>1
  <2> HIDE DEF d, c, K, P
  <2> QED BY <1>0, <1>3, <2>1 DEF ProcSet
<1>7. /\ proc' \in [Procs -> ProcSet] /\ proc'[p] = N /\ proc'[c] = M
      /\ \A q \in Procs : q # p /\ q # c => proc'[q] = proc[q]
  <2> HIDE DEF M
  <2>1. proc' = [q \in Procs |-> IF q = p THEN N ELSE IF q = c THEN M ELSE proc[q]]
    BY <1>0, <1>1, <1>4
  <2> HIDE DEF N
  <2> QED BY <1>0, <1>1, <1>5, <1>6, <2>1
<1> HIDE DEF N, M
<1>8. /\ <<"s", c>> \in Holders /\ <<"call", p>> \in Holders
      /\ Held(proc, <<"s", c>>) = {}
      /\ Held(proc, <<"call", p>>) = FramesOf(d)
      /\ Held(proc', <<"s", c>>) = FramesOf(d)
      /\ Held(proc', <<"call", p>>) = {}
  <2>1. Held(proc', <<"s", c>>) = FramesOf(proc'[c].s)
    BY <1>1, PartFacts
  <2>2. Held(proc', <<"call", p>>) = FramesOf(proc'[p].call.s)
    BY PartFacts
  <2>3. Held(proc, <<"s", c>>) = FramesOf(K.s)
    BY <1>1, PartFacts
  <2>4. Held(proc', <<"s", c>>) = FramesOf(d)
    BY <1>6, <1>7, <2>1
  <2>5. Held(proc', <<"call", p>>) = {}
    BY <1>5, <1>7, <2>2, NoCallFacts, NoSpaceFacts
  <2>6. Held(proc, <<"s", c>>) = {}
    BY <1>2, <2>3, NoSpaceFacts
  <2>7. /\ <<"s", c>> \in Holders /\ <<"call", p>> \in Holders
        /\ Held(proc, <<"call", p>>) = FramesOf(d)
    BY <1>1, PartFacts
  <2> QED BY <2>4, <2>5, <2>6, <2>7
<1>9. \A o \in Holders : o # <<"s", c>> /\ o # <<"call", p>> => Held(proc', o) = Held(proc, o)
  <2> SUFFICES ASSUME NEW o \in Holders, o # <<"s", c>>, o # <<"call", p>>
               PROVE  Held(proc', o) = Held(proc, o)
    OBVIOUS
  <2>0. o[1] \in Kinds /\ o[2] \in Procs /\ o = <<o[1], o[2]>>
    BY DEF Holders
  <2>1. CASE o[2] # p /\ o[2] # c
    BY <1>7, <2>0, <2>1 DEF Held
  <2>2. CASE o[2] = p
    <3>1. o[1] # "call"
      BY <2>0, <2>2
    <3>2. Part(N, o[1]) = Part(P, o[1])
      BY <1>5, <2>0, <3>1 DEF Part, Kinds
    <3> QED BY <1>7, <2>2, <3>2 DEF Held
  <2>3. CASE o[2] = c
    <3>1. o[1] # "s"
      BY <2>0, <2>3
    <3>2. Part(M, o[1]) = Part(K, o[1])
      BY <1>6, <2>0, <3>1 DEF Part, Kinds
    <3> QED BY <1>7, <2>3, <3>2 DEF Held
  <2> QED BY <2>1, <2>2, <2>3
<1>10. Exchange(ram, proc, ram', proc', <<"s", c>>, <<"call", p>>)
  <2>1. \A g \in FramesOf(d) : g \notin ram.free
    BY GoodSpaces DEF Good
  <2> HIDE DEF c, d
  <2> QED BY <1>0, <1>4, <1>8, <1>9, <2>1 DEF Exchange
<1>11. Sound(p, N, ram'.holds)
  BY <1>0, <1>1, <1>4, <1>5, CallEnds
<1>12. ForkInv'
  <2>1. proc'[p].call.k = "none" /\ proc'[c].call.k = "none" /\ Calls(p, "fork")
    BY <1>2, <1>5, <1>6, <1>7, NoCallFacts DEF fork_end
  <2> QED BY <1>7, <2>1, ForkOver
<1>13. <<"s", c>>[2] \in {p, c} /\ <<"call", p>>[2] \in {p, c}
  OBVIOUS
<1>14. ASSUME NEW i \in Pages
       PROVE  /\ d.pte[i] # 0 <=> i * PGSIZE < P.sz
              /\ d.pte[i] # 0 => P.s.pte[i] # 0
  <2>1. d.pte[i] # 0 <=> i * PGSIZE < P.call.a
    BY <1>0 DEF Sized, Mapped
  <2>2. d.pte[i] # 0 => P.s.pte[i] # 0
    BY <1>0, CopiedMapped
  <2>3. P.s.pte[i] # 0 <=> i * PGSIZE < P.sz
    BY <1>0, <1>1 DEF Sized, Mapped
  <2>4. i * PGSIZE \in Nat
    BY PageFacts
  <2> HIDE DEF P, d
  <2> QED BY <1>0, <1>4, <2>1, <2>2, <2>3, <2>4
<1>15. Sound(c, M, ram'.holds)
  <2>0. d = P.call.s
    OBVIOUS
  <2> HIDE DEF P, d, c, K
  <2>1. Shape(M)
    <3>1. Built(d) /\ K.kstack # 0
      BY <1>0, <1>2, <1>4, <2>0, MemorySizes DEF Shape
    <3> QED BY <1>2, <1>6, <3>1 DEF Shape
  <2>2. Sized(M)
    <3>1. P.sz <= KERNBASE
      BY <1>0, <1>1 DEF Sized
    <3>2. Mapped(d, P.sz)
      BY <1>14 DEF Mapped
    <3> QED BY <1>2, <1>6, <3>1, <3>2 DEF Sized
  <2>3. Content(c, M, ram'.holds)
    <3>1. Filled(d, {ZERO, CODE} \cup P.own, ram.holds)
      <4> SUFFICES ASSUME NEW i \in Pages, d.pte[i] # 0
                   PROVE  ram.holds[d.pte[i]] \in {ZERO, CODE} \cup P.own
        BY DEF Filled
      <4>1. P.s.pte[i] # 0
        BY <1>14
      <4>2. ram.holds[d.pte[i]] = ram.holds[P.s.pte[i]]
        BY <1>0, <2>0 DEF Content
      <4>3. ram.holds[P.s.pte[i]] \in {ZERO, CODE} \cup P.own
        BY <1>0, <1>1, <4>1 DEF Content, Filled
      <4> QED BY <4>2, <4>3
    <3>2. Filled(M.s, {ZERO, CODE} \cup M.own, ram'.holds)
      BY <1>4, <1>6, <3>1 DEF Filled
    <3> QED BY <1>2, <1>6, <3>2 DEF Content
  <2> QED BY <1>0, <1>2, <1>6, <2>1, <2>2, <2>3, NoSpaceFacts DEF Sound
<1>16. ram' \in Memories
  BY <1>0, <1>4
<1> HIDE DEF c, P, K, d
<1> QED BY <1>1, <1>5, <1>6, <1>7, <1>8, <1>10, <1>11, <1>12, <1>13, <1>15, <1>16, TwoProcs

\* A fork() for which setupkvm() finds no memory.
LEMMA ForkKvmFails ==
  ASSUME MemInv, NEW p \in Procs, fork_kvm(p), ~setupkvm(ram).ok
  PROVE  MemInv'
<1>1. ram \in Memories
  BY ProcFacts
<1>2. Conserves(ram, NoSpace, setupkvm(ram).m, NoSpace)
  BY <1>1, Setupkvm
<1>3. Calls(p, "fork") /\ proc[p].call.s = NoSpace /\ unfork(p, setupkvm(ram).m)
  BY DEF fork_kvm
<1> QED BY <1>2, <1>3, Unfork

\* A fork() for which copyuvm() finds no memory.
LEMMA ForkPageFails ==
  ASSUME MemInv, NEW p \in Procs, fork_page(p),
         ~copyuvm(ram, proc[p].s, proc[p].call.s, proc[p].call.a \div PGSIZE).ok
  PROVE  MemInv'
<1> DEFINE P == proc[p]
           d == P.call.s
           i == P.call.a \div PGSIZE
           v == copyuvm(ram, P.s, d, i)
<1>0. /\ ram \in Memories /\ P \in ProcSet /\ P.s \in Spaces /\ P.call.a \in Nat /\ P.sz \in Nat
      /\ Shape(P) /\ Sized(P) /\ P.call.k = "fork"
  BY ProcFacts DEF fork_page, Calls
<1>1. d # NoSpace /\ P.call.a < P.sz /\ ~v.ok /\ unfork(p, v.m) /\ Calls(p, "fork")
  BY DEF fork_page
<1>2. P.st = "run" /\ Built(d)
  BY <1>0, <1>1, CallRuns DEF Shape
<1>3. /\ P.sz <= KERNBASE /\ Mapped(P.s, P.sz) /\ Mapped(d, P.call.a) /\ P.call.a % PGSIZE = 0
  BY <1>0, <1>2 DEF Sized
<1>4. Good(ram, d)
  BY GoodSpaces
<1> HIDE DEF v
<1>5. i \in Pages /\ i * PGSIZE = P.call.a
  <2>1. P.call.a < KERNBASE
    BY <1>0, <1>1, <1>3, MemorySizes
  <2> QED BY <1>0, <1>3, <2>1, PageFacts
<1> HIDE DEF i
<1>6. d.pte[i] = 0 /\ P.s.pte[i] # 0
  <2> HIDE DEF P, d
  <2> QED BY <1>0, <1>1, <1>3, <1>5 DEF Mapped
<1>7. ~v.ok => Conserves(ram, d, v.m, NoSpace)
  <2> HIDE DEF P, d
  <2> QED BY <1>0, <1>2, <1>4, <1>5, <1>6, Copyuvm DEF v
<1> QED BY <1>1, <1>7, Unfork
-----------------------------------------------------------------------------
(* exec(). *)

\* A call that ends and gives its space back.
LEMMA CallFreed ==
  ASSUME MemInv, NEW p \in Procs, proc[p].st = "run", proc[p].call.k # "grow",
         Moves(ram, proc[p].call.s, ram', NoSpace),
         proc' = [proc EXCEPT ![p].call = NoCall]
  PROVE  MemInv'
<1> DEFINE N == [proc[p] EXCEPT !.call = NoCall]
<1>0. proc \in [Procs -> ProcSet] /\ proc[p] \in ProcSet
  BY ProcFacts
<1>1. proc' = [proc EXCEPT ![p] = N]
  BY <1>0
<1>2. /\ N \in ProcSet /\ N.st = "run" /\ N.kstack = proc[p].kstack /\ N.s = proc[p].s
      /\ N.sz = proc[p].sz /\ N.own = proc[p].own /\ N.call = NoCall
  BY <1>0, NoCallFacts DEF ProcSet
<1> HIDE DEF N
<1>3. Moves(ram, proc[p].call.s, ram', N.call.s) /\ N.call.k = "none"
  BY <1>2, NoCallFacts
<1>4. /\ \A g \in FramesOf(proc[p].s) : ram'.holds[g] = ram.holds[g]
      /\ Sound(p, N, ram'.holds) => MemInv'
  BY <1>1, <1>2, <1>3, CallChanges
<1>5. Sound(p, N, ram'.holds)
  BY <1>2, <1>4, CallEnds
<1> QED BY <1>4, <1>5

\* exec() up to the new page directory.
LEMMA ExecStarts ==
  ASSUME MemInv, NEW p \in Procs, NEW memsz \in Programs, exec(p, memsz)
  PROVE  MemInv'
<1> DEFINE P == proc[p]
           v == setupkvm(ram)
           C == [NoCall EXCEPT !.k = "load", !.s = v.s, !.to = memsz]
           N == [P EXCEPT !.call = C]
<1>0. /\ ram \in Memories /\ proc \in [Procs -> ProcSet] /\ P \in ProcSet /\ P.s \in Spaces
      /\ Shape(P) /\ Sized(P) /\ Content(p, P, ram.holds) /\ Once(P.s)
      /\ P.st = "run" /\ P.call.k = "none" /\ memsz \in Nat /\ KERNBASE \in Nat
  BY ProcFacts, MemorySizes DEF exec, Idle
<1>1. P.call.s = NoSpace
  BY <1>0 DEF Shape
<1>2. /\ v.ok \in BOOLEAN
      /\ v.ok => /\ Conserves(ram, NoSpace, v.m, v.s) /\ Built(v.s) /\ v.s # NoSpace
                 /\ \A i \in Pages : v.s.pte[i] = 0
      /\ ~v.ok => Conserves(ram, NoSpace, v.m, NoSpace)
  BY <1>0, Setupkvm
<1>3. /\ ram' = IF v.ok /\ memsz >= KERNBASE THEN freevm(v.m, v.s) ELSE v.m
      /\ proc' = [proc EXCEPT ![p].call = IF ~v.ok \/ memsz >= KERNBASE THEN NoCall ELSE C]
  BY DEF exec
<1> HIDE DEF v
<1>4. CASE ~v.ok
  <2>1. ram' = v.m /\ proc' = [proc EXCEPT ![p].call = NoCall]
    BY <1>3, <1>4
  <2>2. Moves(ram, proc[p].call.s, ram', NoSpace)
    BY <1>1, <1>2, <1>4, <2>1, ConservesMoves
  <2> QED BY <1>0, <2>1, <2>2, CallFreed
<1>5. CASE v.ok /\ memsz >= KERNBASE
  <2>1. ram' = freevm(v.m, v.s) /\ proc' = [proc EXCEPT ![p].call = NoCall]
    BY <1>3, <1>5
  <2>2. Good(v.m, v.s) /\ Built(v.s)
    BY <1>2, <1>5 DEF Conserves
  <2>3. Conserves(v.m, v.s, freevm(v.m, v.s), NoSpace) /\ v.m.free \subseteq freevm(v.m, v.s).free
    BY <2>2, Freevm
  <2>4. Conserves(ram, NoSpace, freevm(v.m, v.s), NoSpace)
    BY <1>2, <1>5, <2>3, ConservesThenFrees
  <2>5. Moves(ram, proc[p].call.s, ram', NoSpace)
    BY <1>1, <2>1, <2>4, ConservesMoves
  <2> QED BY <1>0, <2>1, <2>5, CallFreed
<1>6. CASE v.ok /\ ~(memsz >= KERNBASE)
  <2>1. ram' = v.m /\ proc' = [proc EXCEPT ![p] = N]
    BY <1>0, <1>3, <1>6
  <2>2. v.s \in Spaces /\ Once(v.s)
    BY <1>2, <1>6 DEF Conserves, Good
  <2>3. C \in CallSet /\ C.k = "load" /\ C.s = v.s /\ C.a = 0 /\ C.to = memsz
    BY <1>0, <2>2, NoCallFacts DEF CallSet
  <2> HIDE DEF C
  <2>4. /\ N \in ProcSet /\ N.st = P.st /\ N.kstack = P.kstack /\ N.s = P.s /\ N.sz = P.sz
        /\ N.own = P.own /\ N.call = C
    BY <1>0, <2>3 DEF ProcSet
  <2> HIDE DEF N
  <2>5. Moves(ram, proc[p].call.s, ram', N.call.s)
    BY <1>1, <1>2, <1>6, <2>1, <2>3, <2>4, ConservesMoves
  <2>6. N.call.k # "fork"
    BY <2>3, <2>4
  <2>7. /\ \A g \in FramesOf(proc[p].s) : ram'.holds[g] = ram.holds[g]
        /\ Sound(p, N, ram'.holds) => MemInv'
    BY <1>0, <2>1, <2>4, <2>5, <2>6, CallChanges
  <2> HIDE DEF P
  <2>8. Shape(N)
    BY <1>0, <1>2, <1>6, <2>3, <2>4 DEF Shape
  <2>9. Sized(N)
    <3>1. Mapped(v.s, 0)
      BY <1>2, <1>6, PageFacts DEF Mapped
    <3>2. 0 < memsz + PGSIZE /\ memsz <= KERNBASE
      BY <1>0, <1>6, MemorySizes
    <3> QED BY <1>0, <2>3, <2>4, <3>1, <3>2, ZeroPage DEF Sized
  <2>10. Content(p, N, ram'.holds)
    <3>1. p \in P.own /\ Filled(P.s, {ZERO, CODE} \cup P.own, ram.holds)
      BY <1>0 DEF Content
    <3>2. Filled(P.s, {ZERO, CODE} \cup P.own, ram'.holds)
      BY <1>0, <2>7, <3>1, FilledKept DEF P
    <3>3. Filled(v.s, {ZERO, CODE}, ram'.holds)
      BY <1>2, <1>6 DEF Filled
    <3> QED BY <2>3, <2>4, <3>1, <3>2, <3>3 DEF Content
  <2>11. Sound(p, N, ram'.holds)
    BY <1>0, <2>2, <2>3, <2>4, <2>8, <2>9, <2>10 DEF Sound
  <2> QED BY <2>7, <2>11
<1> QED BY <1>2, <1>4, <1>5, <1>6

\* exec() gives up: freevm() of the space it was building.
LEMMA ExecGivesUp ==
  ASSUME MemInv, NEW p \in Procs, proc[p].call.k \in {"load", "stack"},
         ram' = freevm(ram, proc[p].call.s), proc' = [proc EXCEPT ![p].call = NoCall]
  PROVE  MemInv'
<1>1. proc[p].st = "run" /\ Built(proc[p].call.s)
  BY CallRuns, ProcFacts DEF Shape
<1>2. Good(ram, proc[p].call.s)
  BY GoodSpaces
<1>3. Conserves(ram, proc[p].call.s, ram', NoSpace)
  BY <1>1, <1>2, Freevm
<1>4. Moves(ram, proc[p].call.s, ram', NoSpace)
  BY <1>3, ConservesMoves
<1> QED BY <1>1, <1>4, CallFreed

\* exec() fails on what it reads, after some pages were allocated.
LEMMA ExecBad ==
  ASSUME MemInv, NEW p \in Procs, exec_bad(p)
  PROVE  MemInv'
BY ExecGivesUp DEF exec_bad

\* A loop over pages that stops at or after n has gone to the end of n's page.
LEMMA LoopEnd ==
  ASSUME NEW a \in Nat, a % PGSIZE = 0, NEW n \in Nat, n <= a, a < n + PGSIZE, NEW i \in Pages
  PROVE  i * PGSIZE < a <=> i * PGSIZE < n
<1>1. i * PGSIZE < a => i * PGSIZE + PGSIZE <= a
  BY PageApart
<1>2. i * PGSIZE \in Nat /\ PGSIZE \in Nat
  BY PageFacts, MemorySizes
<1> QED BY <1>1, <1>2

\* loaduvm() and the start of the stack.
LEMMA Loaduvm ==
  ASSUME MemInv, NEW p \in Procs, loaduvm(p)
  PROVE  MemInv'
<1> DEFINE P == proc[p]
           c == P.call
           top == PGROUNDUP(c.to)
           C == [c EXCEPT !.k = "stack", !.a = top, !.from = top, !.to = top + 2 * PGSIZE]
           N == [P EXCEPT !.call = C]
<1>0. /\ ram \in Memories /\ proc \in [Procs -> ProcSet] /\ P \in ProcSet /\ P.s \in Spaces
      /\ c \in CallSet /\ c.s \in Spaces /\ c.a \in Nat /\ c.to \in Nat
      /\ Shape(P) /\ Sized(P) /\ Content(p, P, ram.holds) /\ Once(P.s) /\ Once(c.s)
      /\ c.k = "load" /\ c.a >= c.to
  BY ProcFacts DEF loaduvm, Calls
<1>1. P.st = "run" /\ Built(P.s) /\ Built(c.s)
  BY <1>0, CallRuns DEF Shape
<1>2. IF top + 2 * PGSIZE >= KERNBASE
      THEN ram' = freevm(ram, c.s) /\ proc' = [proc EXCEPT ![p].call = NoCall]
      ELSE ram' = [ram EXCEPT !.holds[c.s.pte[0]] = CODE] /\ proc' = [proc EXCEPT ![p].call = C]
  BY DEF loaduvm
<1>3. CASE top + 2 * PGSIZE >= KERNBASE
  BY <1>0, <1>2, <1>3, ExecGivesUp
<1>4. CASE ~(top + 2 * PGSIZE >= KERNBASE)
  <2>0. ram' = [ram EXCEPT !.holds[c.s.pte[0]] = CODE] /\ proc' = [proc EXCEPT ![p] = N]
    BY <1>0, <1>2, <1>4
  <2>1. /\ top \in Nat /\ top % PGSIZE = 0 /\ c.to <= top /\ top < c.to + PGSIZE
    BY <1>0, RoundUp
  <2>2. \A i \in Pages : i * PGSIZE < top <=> i * PGSIZE < c.to
    BY <1>0, RoundUpPage
  <2> HIDE DEF top
  <2>3. top + 2 * PGSIZE \in Nat /\ top + 2 * PGSIZE <= KERNBASE /\ top < top + 2 * PGSIZE + PGSIZE
    BY <1>4, <2>1, MemorySizes
  <2>4. (top + 2 * PGSIZE) % PGSIZE = 0
    <3> DEFINE b == top + PGSIZE
    <3>1. b \in Nat /\ top + 2 * PGSIZE = b + PGSIZE
      BY <2>1, MemorySizes
    <3>2. b % PGSIZE = 0
      BY <2>1, NextPage
    <3> HIDE DEF b
    <3>3. (b + PGSIZE) % PGSIZE = 0
      BY <3>1, <3>2, NextPage
    <3> QED BY <3>1, <3>3
  <2>5. /\ ram' \in Memories /\ ram'.free = ram.free /\ ram'.twice = ram.twice
        /\ \A g \in Frames : ram'.holds[g] = IF g = c.s.pte[0] THEN CODE ELSE ram.holds[g]
    <3>1. CODE \in Int
      BY DEF CODE
    <3> QED BY <1>0, <2>0, <3>1 DEF Memories
  <2>6. \A g \in Frames : g = c.s.pte[0] => g \in FramesOf(c.s)
    BY PageFacts DEF FramesOf
  <2>7. Good(ram, c.s)
    BY GoodSpaces
  <2>8. Moves(ram, c.s, ram', c.s)
    <3>1. Good(ram', c.s)
      BY <2>5, <2>7 DEF Good
    <3> HIDE DEF c
    <3> QED BY <2>5, <2>6, <3>1 DEF Moves
  <2>9. C \in CallSet /\ C.k = "stack" /\ C.s = c.s /\ C.a = top /\ C.to = top + 2 * PGSIZE
    <3> HIDE DEF c
    <3> QED BY <1>0, <2>1, <2>3 DEF CallSet
  <2> HIDE DEF C
  <2>10. /\ N \in ProcSet /\ N.st = P.st /\ N.kstack = P.kstack /\ N.s = P.s /\ N.sz = P.sz
         /\ N.own = P.own /\ N.call = C
    BY <1>0, <2>9 DEF ProcSet
  <2> HIDE DEF N
  <2>11. Moves(ram, P.call.s, ram', N.call.s) /\ N.call.k # "fork"
    BY <2>8, <2>9, <2>10
  <2>12. /\ \A g \in FramesOf(P.s) : ram'.holds[g] = ram.holds[g]
         /\ Sound(p, N, ram'.holds) => MemInv'
    BY <1>1, <2>0, <2>10, <2>11, CallChanges
  <2> HIDE DEF P
  <2>13. Shape(N)
    BY <1>0, <1>1, <2>9, <2>10 DEF Shape
  <2>14. Sized(N)
    <3>1. c.a % PGSIZE = 0 /\ c.a < c.to + PGSIZE /\ Mapped(c.s, c.a)
      BY <1>0 DEF Sized
    <3>2. \A i \in Pages : i * PGSIZE < c.a <=> i * PGSIZE < c.to
      <4> HIDE DEF c
      <4> QED BY <1>0, <3>1, LoopEnd
    <3>3. Mapped(c.s, top)
      <4> HIDE DEF c
      <4> QED BY <2>2, <3>1, <3>2 DEF Mapped
    <3>4. P.sz <= KERNBASE /\ Mapped(P.s, P.sz)
      BY <1>0, <1>1 DEF Sized
    <3> HIDE DEF c
    <3> QED BY <1>0, <1>1, <2>1, <2>3, <2>4, <2>9, <2>10, <3>3, <3>4 DEF Sized
  <2>15. Content(p, N, ram'.holds)
    <3>1. p \in P.own /\ Filled(P.s, {ZERO, CODE} \cup P.own, ram.holds) /\ Filled(c.s, {ZERO, CODE}, ram.holds)
      BY <1>0, <1>1 DEF Content
    <3>2. Filled(P.s, {ZERO, CODE} \cup P.own, ram'.holds)
      BY <1>0, <2>12, <3>1, FilledKept
    <3>3. Filled(c.s, {ZERO, CODE}, ram'.holds)
      <4> HIDE DEF c
      <4> SUFFICES ASSUME NEW i \in Pages, c.s.pte[i] # 0 PROVE ram'.holds[c.s.pte[i]] \in {ZERO, CODE}
        BY DEF Filled
      <4>1. c.s.pte[i] \in Frames
        BY <1>0, PageFrames
      <4> QED BY <2>5, <3>1, <4>1 DEF Filled
    <3> QED BY <1>1, <2>9, <2>10, <3>1, <3>2, <3>3 DEF Content
  <2>16. Sound(p, N, ram'.holds)
    BY <1>0, <2>9, <2>10, <2>13, <2>14, <2>15 DEF Sound
  <2> QED BY <2>12, <2>16
<1> QED BY <1>3, <1>4

\* clearpteu() changes no frame.
LEMMA Clearpteu ==
  ASSUME NEW s \in Spaces, NEW i, Built(s), Once(s)
  PROVE  LET r == clearpteu(s, i) IN
         /\ r \in Spaces /\ Built(r) /\ Once(r) /\ FramesOf(r) = FramesOf(s)
         /\ r.pte = s.pte /\ r.user = s.user \ {i}
<1> DEFINE r == clearpteu(s, i)
<1>1. /\ r \in Spaces /\ r.dir = s.dir /\ r.ktab = s.ktab /\ r.tab = s.tab
      /\ r.pte = s.pte /\ r.user = s.user \ {i}
  BY DEF clearpteu, Spaces
<1> HIDE DEF r
<1>2. Built(r)
  BY <1>1 DEF Built
<1>3. Once(r)
  BY <1>1 DEF Once
<1>4. FramesOf(r) = FramesOf(s)
  BY <1>1 DEF FramesOf
<1> QED BY <1>1, <1>2, <1>3, <1>4 DEF r

\* copyout() writes to frames of the space only.
LEMMA Copyout ==
  ASSUME NEW m \in Memories, NEW s \in Spaces, Built(s), NEW S, NEW p \in Procs
  PROVE  LET v == copyout(m, s, S, p) IN
         /\ v.ok \in BOOLEAN /\ v.m \in Memories /\ v.m.free = m.free /\ v.m.twice = m.twice
         /\ \A g \in Frames : v.m.holds[g] \in {p, m.holds[g]}
         /\ \A g \in Frames : g \notin FramesOf(s) => v.m.holds[g] = m.holds[g]
<1> DEFINE v == copyout(m, s, S, p)
           h == [f \in Frames |-> IF \E i \in S : uva2ka(s, i) = f THEN p ELSE m.holds[f]]
<1>1. h \in [Frames -> Int]
  BY MemorySizes DEF Memories
<1>2. v.ok \in BOOLEAN /\ v.m = [m EXCEPT !.holds = h]
  BY DEF copyout, Memories
<1>3. ASSUME NEW g \in Frames, g \notin FramesOf(s) PROVE h[g] = m.holds[g]
  <2>1. \A i \in s.user : i \in Pages
    BY DEF Spaces
  <2>2. \A i : uva2ka(s, i) # g
    BY <1>3, <2>1, MemorySizes DEF uva2ka, FramesOf
  <2> QED BY <2>2
<1>4. \A g \in Frames : h[g] \in {p, m.holds[g]}
  OBVIOUS
<1> HIDE DEF h
<1>5. /\ v.m \in Memories /\ v.m.free = m.free /\ v.m.twice = m.twice /\ v.m.holds = h
  <2> HIDE DEF v
  <2> QED BY <1>1, <1>2 DEF Memories
<1> HIDE DEF v
<1> QED BY <1>2, <1>3, <1>4, <1>5 DEF v

\* The commit of exec(), or its failure when the arguments reach the guard page.
LEMMA ExecCommit ==
  ASSUME MemInv, NEW p \in Procs, NEW n \in {1, 2}, exec_commit(p, n)
  PROVE  MemInv'
<1> DEFINE P == proc[p]
           c == P.call
           top == c.to \div PGSIZE
           s == clearpteu(c.s, top - 2)
           S == top - n .. top - 1
           v == copyout(ram, s, S, p)
           N == [P EXCEPT !.s = s, !.sz = c.to, !.call = NoCall, !.own = {p}]
<1>0. /\ ram \in Memories /\ proc \in [Procs -> ProcSet] /\ P \in ProcSet /\ P.s \in Spaces
      /\ c \in CallSet /\ c.s \in Spaces /\ c.a \in Nat /\ c.to \in Nat
      /\ Shape(P) /\ Sized(P) /\ Content(p, P, ram.holds) /\ Once(P.s) /\ Once(c.s)
      /\ c.k = "stack" /\ c.a >= c.to
  BY ProcFacts DEF exec_commit, Calls
<1>1. P.st = "run" /\ Built(P.s) /\ Built(c.s)
  BY <1>0, CallRuns DEF Shape
<1>2. /\ ram' = freevm(v.m, IF v.ok THEN P.s ELSE s)
      /\ proc' = [proc EXCEPT ![p] = IF v.ok THEN [@ EXCEPT !.s = s, !.sz = c.to, !.call = NoCall, !.own = {p}]
                                     ELSE [@ EXCEPT !.call = NoCall]]
  BY DEF exec_commit
<1>3. /\ s \in Spaces /\ Built(s) /\ Once(s) /\ FramesOf(s) = FramesOf(c.s)
      /\ s.pte = c.s.pte /\ s.user = c.s.user \ {top - 2}
  BY <1>0, <1>1, Clearpteu
<1> HIDE DEF s, S
<1>4. /\ v.ok \in BOOLEAN /\ v.m \in Memories /\ v.m.free = ram.free /\ v.m.twice = ram.twice
      /\ \A g \in Frames : v.m.holds[g] \in {p, ram.holds[g]}
      /\ \A g \in Frames : g \notin FramesOf(s) => v.m.holds[g] = ram.holds[g]
  BY <1>0, <1>3, Copyout
<1> HIDE DEF v
<1>5. /\ Good(ram, P.s) /\ Good(ram, c.s) /\ ~ram.twice
      /\ \A g \in FramesOf(P.s) : g \notin FramesOf(c.s)
  BY GoodSpaces
<1>6. Good(v.m, P.s) /\ Good(v.m, s)
  BY <1>3, <1>4, <1>5 DEF Good
<1>7. CASE ~v.ok
  <2>1. ram' = freevm(v.m, s) /\ proc' = [proc EXCEPT ![p].call = NoCall]
    BY <1>0, <1>2, <1>7
  <2>2. Conserves(v.m, s, ram', NoSpace)
    BY <1>3, <1>6, <2>1, Freevm
  <2>3. Moves(ram, c.s, ram', NoSpace)
    <3> HIDE DEF c
    <3> QED BY <1>3, <1>4, <2>2 DEF Conserves, Moves
  <2> QED BY <1>0, <1>1, <2>1, <2>3, CallFreed
<1>8. CASE v.ok
  <2>1. ram' = freevm(v.m, P.s) /\ proc' = [proc EXCEPT ![p] = N]
    BY <1>0, <1>2, <1>8
  <2>2. Conserves(v.m, P.s, ram', NoSpace)
    BY <1>1, <1>6, <2>1, Freevm
  <2>3. /\ ram' \in Memories /\ ~ram'.twice
        /\ \A g \in Frames : g \in ram'.free <=> g \in FramesOf(P.s) \/ g \in ram.free
        /\ \A g \in Frames : g \notin ram.free /\ g \notin ram'.free => ram'.holds[g] = v.m.holds[g]
    BY <1>4, <1>5, <2>2, NoSpaceFacts DEF Conserves, Good
  <2>4. /\ N \in ProcSet /\ N.st = P.st /\ N.kstack = P.kstack /\ N.s = s /\ N.sz = c.to
        /\ N.own = {p} /\ N.call = NoCall
    <3>1. {p} \in SUBSET Procs
      OBVIOUS
    <3> QED BY <1>0, <1>3, <3>1, NoCallFacts DEF ProcSet
  <2> HIDE DEF N
  <2>5. /\ proc'[p] = N /\ \A q \in Procs : q # p => proc'[q] = proc[q]
    BY <1>0, <2>1
  <2>6. /\ Held(proc, <<"s", p>>) = FramesOf(P.s)
        /\ Held(proc, <<"call", p>>) = FramesOf(c.s)
        /\ Held(proc', <<"s", p>>) = FramesOf(c.s)
        /\ Held(proc', <<"call", p>>) = {}
    <3>1. /\ Held(proc', <<"s", p>>) = FramesOf(proc'[p].s)
          /\ Held(proc', <<"call", p>>) = FramesOf(proc'[p].call.s)
      BY PartFacts
    <3>2. Held(proc', <<"s", p>>) = FramesOf(c.s)
      BY <1>3, <2>4, <2>5, <3>1
    <3>3. Held(proc', <<"call", p>>) = {}
      BY <2>4, <2>5, <3>1, NoCallFacts, NoSpaceFacts
    <3>4. Held(proc, <<"s", p>>) = FramesOf(P.s) /\ Held(proc, <<"call", p>>) = FramesOf(c.s)
      BY PartFacts
    <3> QED BY <3>2, <3>3, <3>4
  <2>7. \A o \in Holders : o # <<"s", p>> /\ o # <<"call", p>> => Held(proc', o) = Held(proc, o)
    <3> SUFFICES ASSUME NEW o \in Holders, o # <<"s", p>>, o # <<"call", p>>
                 PROVE  Held(proc', o) = Held(proc, o)
      OBVIOUS
    <3>0. o[1] \in Kinds /\ o[2] \in Procs /\ o = <<o[1], o[2]>>
      BY DEF Holders
    <3>1. CASE o[2] # p
      BY <2>5, <3>0, <3>1 DEF Held
    <3>2. CASE o[2] = p
      <4>1. o[1] # "s" /\ o[1] # "call"
        BY <3>0, <3>2
      <4>2. Part(N, o[1]) = Part(P, o[1])
        BY <2>4, <3>0, <4>1 DEF Part, Kinds
      <4> QED BY <2>5, <3>2, <4>2 DEF Held
    <3> QED BY <3>1, <3>2
  <2>8. Exchange(ram, proc, ram', proc', <<"s", p>>, <<"call", p>>)
    <3>1. \A g \in FramesOf(c.s) : g \notin ram.free
      BY <1>5 DEF Good
    <3> HIDE DEF c, P
    <3>2. \A g \in Frames : g \notin FramesOf(P.s) /\ g \notin FramesOf(c.s) /\ g \notin ram.free /\ g \notin ram'.free
            => ram'.holds[g] = ram.holds[g]
      BY <1>3, <1>4, <2>3
    <3> QED BY <1>5, <2>3, <2>6, <2>7, <3>1, <3>2 DEF Exchange
  <2>9. c.a % PGSIZE = 0 /\ c.a < c.to + PGSIZE /\ c.to <= KERNBASE /\ Mapped(c.s, c.a)
    BY <1>0 DEF Sized
  <2>10. Filled(c.s, {ZERO, CODE}, ram.holds)
    BY <1>0 DEF Content
  <2>11. Sound(p, N, ram'.holds)
    <3> HIDE DEF c
    <3>1. Shape(N)
      BY <1>0, <1>1, <1>3, <2>4, NoCallFacts DEF Shape
    <3>2. Sized(N)
      <4>1. \A i \in Pages : i * PGSIZE < c.a <=> i * PGSIZE < c.to
        BY <1>0, <2>9, LoopEnd
      <4>2. Mapped(s, c.to)
        BY <1>3, <2>9, <4>1 DEF Mapped
      <4> QED BY <1>0, <2>4, <2>9, <4>2, NoCallFacts, ZeroPage DEF Sized
    <3>3. Filled(s, {ZERO, CODE} \cup {p}, ram'.holds)
      <4> SUFFICES ASSUME NEW i \in Pages, s.pte[i] # 0
                   PROVE  ram'.holds[s.pte[i]] \in {ZERO, CODE} \cup {p}
        BY DEF Filled
      <4>1. s.pte[i] \in Frames /\ s.pte[i] \in FramesOf(s)
        BY <1>3, PageFrames
      <4>2. s.pte[i] \notin ram.free
        BY <1>4, <1>6, <4>1 DEF Good
      <4>3. s.pte[i] \notin FramesOf(P.s)
        BY <1>3, <1>5, <4>1
      <4>4. ram'.holds[s.pte[i]] = v.m.holds[s.pte[i]]
        BY <2>3, <4>1, <4>2, <4>3
      <4>5. ram.holds[s.pte[i]] \in {ZERO, CODE}
        BY <1>3, <2>10 DEF Filled
      <4> QED BY <1>4, <4>1, <4>4, <4>5
    <3>4. Content(p, N, ram'.holds)
      BY <2>4, <3>3, NoCallFacts DEF Content
    <3> QED BY <1>3, <2>4, <3>1, <3>2, <3>4, NoCallFacts, NoSpaceFacts DEF Sound
  <2>12. N.call.k # "fork" /\ P.st # "embryo" /\ "s" \in Kinds /\ "call" \in Kinds
    BY <1>1, <2>4, NoCallFacts DEF Kinds
  <2> QED BY <2>1, <2>3, <2>4, <2>8, <2>11, <2>12, OneProc
<1> QED BY <1>4, <1>7, <1>8
-----------------------------------------------------------------------------
(* exit(), wait() and stores. *)

\* wait() frees the kernel stack and the space of a zombie.
LEMMA Reap ==
  ASSUME MemInv, NEW p \in Procs, reap(p)
  PROVE  MemInv'
<1> DEFINE P == proc[p]
           k == P.kstack
           m == kfree(ram, {k})
<1>0. /\ ram \in Memories /\ proc \in [Procs -> ProcSet] /\ P \in ProcSet /\ P.s \in Spaces
      /\ Shape(P) /\ P.st = "zombie" /\ k \in Frames0
      /\ ram' = freevm(m, P.s) /\ proc' = [proc EXCEPT ![p] = Unused]
  BY ProcFacts DEF reap
<1>1. Built(P.s) /\ k # 0 /\ P.call.s = NoSpace
  BY <1>0 DEF Shape
<1>2. k \in Frames
  BY <1>0, <1>1 DEF Frames0
<1>3. /\ Good(ram, P.s) /\ ~ram.twice
      /\ k \notin ram.free /\ k \notin FramesOf(P.s)
  BY <1>2, GoodSpaces
<1>4. /\ m \in Memories /\ m.free = ram.free \cup {k}
      /\ m.twice = (ram.twice \/ ram.free \cap {k} # {})
      /\ \A g \in Frames : g # k => m.holds[g] = ram.holds[g]
  <2>1. {k} \in SUBSET Frames
    BY <1>2
  <2> HIDE DEF k
  <2> QED BY <1>0, <2>1, KfreeFacts
<1> HIDE DEF m
<1>5. ~m.twice
  <2>1. ram.free \cap {k} = {}
    BY <1>3
  <2> QED BY <1>3, <1>4, <2>1
<1>6. Good(m, P.s)
  BY <1>3, <1>4 DEF Good
<1>7. Conserves(m, P.s, ram', NoSpace)
  BY <1>0, <1>1, <1>6, Freevm
<1>8. /\ ram' \in Memories /\ ~ram'.twice
      /\ \A g \in Frames : g \in ram'.free <=> g \in FramesOf(P.s) \/ g = k \/ g \in ram.free
      /\ \A g \in Frames : g # k /\ g \notin ram.free /\ g \notin ram'.free => ram'.holds[g] = ram.holds[g]
  BY <1>4, <1>5, <1>7, NoSpaceFacts DEF Conserves, Good
<1>9. proc'[p] = Unused /\ \A q \in Procs : q # p => proc'[q] = proc[q]
  BY <1>0
<1>10. /\ Held(proc, <<"kstack", p>>) = {k}
       /\ Held(proc, <<"s", p>>) = FramesOf(P.s)
       /\ Held(proc', <<"kstack", p>>) = {}
       /\ Held(proc', <<"s", p>>) = {}
  <2>1. /\ Held(proc', <<"s", p>>) = FramesOf(proc'[p].s)
        /\ Held(proc', <<"kstack", p>>) = {f \in Frames : f = proc'[p].kstack}
    BY PartFacts
  <2>2. /\ Held(proc, <<"s", p>>) = FramesOf(P.s)
        /\ Held(proc, <<"kstack", p>>) = {f \in Frames : f = k}
    BY PartFacts
  <2>3. Held(proc, <<"kstack", p>>) = {k}
    BY <1>2, <2>2
  <2>4. Held(proc', <<"kstack", p>>) = {}
    BY <1>9, <2>1, UnusedFacts, MemorySizes
  <2>5. Held(proc', <<"s", p>>) = {}
    BY <1>9, <2>1, UnusedFacts, NoSpaceFacts
  <2> QED BY <2>2, <2>3, <2>4, <2>5
<1>11. \A o \in Holders : o # <<"kstack", p>> /\ o # <<"s", p>> => Held(proc', o) = Held(proc, o)
  <2> SUFFICES ASSUME NEW o \in Holders, o # <<"kstack", p>>, o # <<"s", p>>
               PROVE  Held(proc', o) = Held(proc, o)
    OBVIOUS
  <2>0. o[1] \in Kinds /\ o[2] \in Procs /\ o = <<o[1], o[2]>>
    BY DEF Holders
  <2>1. CASE o[2] # p
    BY <1>9, <2>0, <2>1 DEF Held
  <2>2. CASE o[2] = p
    <3>1. o[1] # "s" /\ o[1] # "kstack"
      BY <2>0, <2>2
    <3>2. Part(Unused, o[1]) = Part(P, o[1])
      BY <1>1, <2>0, <3>1, UnusedFacts, NoCallFacts DEF Part, Kinds
    <3> QED BY <1>9, <2>2, <3>2 DEF Held
  <2> QED BY <2>1, <2>2
<1>12. Exchange(ram, proc, ram', proc', <<"kstack", p>>, <<"s", p>>)
  <2> HIDE DEF k, P
  <2> QED BY <1>8, <1>10, <1>11 DEF Exchange
<1>13. Unused \in ProcSet /\ Unused.call.k # "fork" /\ Sound(p, Unused, ram'.holds)
  BY UnusedFacts, NoCallFacts, UnusedSound
<1>14. P.st # "embryo" /\ "s" \in Kinds /\ "kstack" \in Kinds
  BY <1>0 DEF Kinds
<1> QED BY <1>0, <1>8, <1>12, <1>13, <1>14, OneProc

\* exit() leaves a zombie with its memory.
LEMMA Exits ==
  ASSUME MemInv, NEW p \in Procs, exit(p)
  PROVE  MemInv'
<1> DEFINE P == proc[p]
           N == [P EXCEPT !.st = "zombie"]
<1>0. /\ proc \in [Procs -> ProcSet] /\ P \in ProcSet /\ Shape(P) /\ Sized(P)
      /\ Once(P.s) /\ Once(P.call.s) /\ P.st \in {"run", "fault"}
      /\ (P.st = "run" => P.call.k = "none") /\ ram' = ram
      /\ proc' = [proc EXCEPT ![p].st = "zombie"]
  BY ProcFacts DEF exit, Idle
<1>1. P.call.k = "none" /\ Built(P.s) /\ P.kstack # 0
  BY <1>0 DEF Shape
<1>2. proc' = [proc EXCEPT ![p] = N]
  BY <1>0
<1>3. /\ N \in ProcSet /\ N.st = "zombie" /\ N.kstack = P.kstack /\ N.s = P.s /\ N.sz = P.sz
      /\ N.own = P.own /\ N.call = P.call
  BY <1>0 DEF ProcSet
<1> HIDE DEF N
<1>4. Sound(p, N, ram.holds)
  <2>1. Shape(N)
    BY <1>0, <1>1, <1>3 DEF Shape
  <2>2. Sized(N)
    BY <1>0, <1>1, <1>3 DEF Sized
  <2>3. Content(p, N, ram.holds)
    BY <1>1, <1>3 DEF Content
  <2> QED BY <1>0, <1>3, <2>1, <2>2, <2>3 DEF Sound
<1>5. P.st # "embryo" /\ N.call.k # "fork" /\ N.call.s = P.call.s
  BY <1>0, <1>1, <1>3
<1> QED BY <1>0, <1>2, <1>3, <1>4, <1>5, RecordChanges

\* A store changes what one of the process's own frames holds.
LEMMA Stores ==
  ASSUME MemInv, NEW p \in Procs, NEW i \in Pages, store(p, i)
  PROVE  MemInv'
<1> DEFINE P == proc[p]
           x == P.s.pte[i]
<1>0. /\ ram \in Memories /\ proc \in [Procs -> ProcSet] /\ P \in ProcSet /\ P.s \in Spaces
      /\ Shape(P) /\ Sized(P) /\ Content(p, P, ram.holds) /\ Once(P.s) /\ Once(P.call.s)
      /\ P.st = "run" /\ P.call.k = "none" /\ i \in P.s.user
      /\ ram' = [ram EXCEPT !.holds[x] = p] /\ proc' = proc
  BY ProcFacts DEF store, Idle
<1>1. Built(P.s)
  BY <1>0 DEF Shape
<1>2. x \in Frames /\ x \in FramesOf(P.s)
  <2>1. x # 0
    BY <1>0, <1>1 DEF Built
  <2> QED BY <1>0, <2>1, PageFrames
<1>3. Good(ram, P.s)
  BY GoodSpaces
<1> HIDE DEF x
<1>4. /\ ram' \in Memories /\ ram'.free = ram.free /\ ram'.twice = ram.twice
      /\ \A g \in Frames : ram'.holds[g] = IF g = x THEN p ELSE ram.holds[g]
  <2>1. p \in Int
    BY MemorySizes
  <2> QED BY <1>0, <1>2, <2>1 DEF Memories
<1>5. Moves(ram, P.s, ram', P.s)
  <2>1. Good(ram', P.s)
    BY <1>3, <1>4 DEF Good
  <2> HIDE DEF P
  <2> QED BY <1>2, <1>4, <2>1 DEF Moves
<1>6. proc' = [proc EXCEPT ![p] = P]
  BY <1>0
<1>7. P.call.k # "fork" /\ P.st # "embryo"
  BY <1>0
<1>8. Sound(p, P, ram'.holds) => MemInv'
  BY <1>0, <1>5, <1>6, <1>7, SpaceChanges
<1>9. Content(p, P, ram'.holds)
  <2> HIDE DEF P
  <2>1. p \in P.own /\ Filled(P.s, {ZERO, CODE} \cup P.own, ram.holds)
    BY <1>0 DEF Content
  <2>2. Filled(P.s, {ZERO, CODE} \cup P.own, ram'.holds)
    <3> SUFFICES ASSUME NEW j \in Pages, P.s.pte[j] # 0
                 PROVE  ram'.holds[P.s.pte[j]] \in {ZERO, CODE} \cup P.own
      BY DEF Filled
    <3>1. P.s.pte[j] \in Frames
      BY <1>0, PageFrames
    <3>2. ram.holds[P.s.pte[j]] \in {ZERO, CODE} \cup P.own
      BY <2>1 DEF Filled
    <3> QED BY <1>4, <2>1, <3>1, <3>2
  <2> QED BY <1>0, <2>1, <2>2 DEF Content
<1> QED BY <1>0, <1>8, <1>9 DEF Sound
-----------------------------------------------------------------------------
(* sbrk() and the loop of allocuvm(). *)

\* growproc() for a positive n starts.
LEMMA Grows ==
  ASSUME MemInv, NEW p \in Procs, NEW n \in Bytes, grow(p, n)
  PROVE  MemInv'
<1> DEFINE P == proc[p]
           top == PGROUNDUP(P.sz)
           C == [NoCall EXCEPT !.k = "grow", !.from = P.sz, !.a = top, !.to = P.sz + n]
           N == [P EXCEPT !.call = C]
<1>0. /\ proc \in [Procs -> ProcSet] /\ P \in ProcSet /\ P.sz \in Nat /\ n \in Int
      /\ Shape(P) /\ Sized(P) /\ Content(p, P, ram.holds) /\ Once(P.s) /\ Once(P.call.s)
      /\ P.st = "run" /\ P.call.k = "none" /\ n > 0 /\ P.sz + n < KERNBASE /\ ram' = ram
  BY ProcFacts, MemorySizes DEF grow, Idle
<1>1. proc' = [proc EXCEPT ![p] = N]
  <2>1. proc' = [proc EXCEPT ![p].call = C]
    BY DEF grow
  <2> HIDE DEF C
  <2> QED BY <1>0, <2>1
<1>2. top \in Nat /\ top % PGSIZE = 0 /\ P.sz <= top /\ top < P.sz + PGSIZE
  BY <1>0, RoundUp
<1>3. \A i \in Pages : i * PGSIZE < top <=> i * PGSIZE < P.sz
  BY <1>0, RoundUpPage
<1> HIDE DEF top
<1>4. /\ C \in CallSet /\ C.k = "grow" /\ C.from = P.sz /\ C.a = top /\ C.to = P.sz + n /\ C.s = NoSpace
  <2>1. P.sz + n \in Nat
    BY <1>0
  <2> HIDE DEF P
  <2> QED BY <1>0, <1>2, <2>1, NoCallFacts DEF CallSet
<1> HIDE DEF C
<1>5. /\ N \in ProcSet /\ N.st = P.st /\ N.kstack = P.kstack /\ N.s = P.s /\ N.sz = P.sz
      /\ N.own = P.own /\ N.call = C
  BY <1>0, <1>4 DEF ProcSet
<1>6. P.call.s = NoSpace
  BY <1>0 DEF Shape
<1> HIDE DEF N
<1>7. Sound(p, N, ram.holds)
  <2> HIDE DEF P
  <2>1. Shape(N)
    BY <1>0, <1>4, <1>5 DEF Shape
  <2>2. Sized(N)
    <3>1. P.sz <= KERNBASE /\ Mapped(P.s, P.sz)
      BY <1>0 DEF Sized
    <3>2. Mapped(P.s, top)
      BY <1>3, <3>1 DEF Mapped
    <3>3. P.sz < P.sz + n /\ top < P.sz + n + PGSIZE
      BY <1>0, <1>2, MemorySizes
    <3> QED BY <1>0, <1>2, <1>4, <1>5, <3>1, <3>2, <3>3 DEF Sized
  <2>3. Content(p, N, ram.holds)
    BY <1>0, <1>4, <1>5 DEF Content
  <2> QED BY <1>0, <1>4, <1>5, <2>1, <2>2, <2>3, NoSpaceFacts DEF Sound
<1>8. P.st # "embryo" /\ N.call.k # "fork" /\ N.call.s = P.call.s
  BY <1>0, <1>4, <1>5, <1>6
<1> QED BY <1>0, <1>1, <1>5, <1>7, <1>8, RecordChanges

\* growproc() for a positive n has all its pages.
LEMMA GrowEnds ==
  ASSUME MemInv, NEW p \in Procs, grow_end(p)
  PROVE  MemInv'
<1> DEFINE P == proc[p]
           c == P.call
           N == [P EXCEPT !.sz = c.to, !.call = NoCall]
<1>0. /\ proc \in [Procs -> ProcSet] /\ P \in ProcSet /\ c.a \in Nat /\ c.to \in Nat
      /\ Shape(P) /\ Sized(P) /\ Content(p, P, ram.holds) /\ Once(P.s)
      /\ c.k = "grow" /\ c.a >= c.to /\ ram' = ram
  BY ProcFacts DEF grow_end, Calls
<1>1. P.st = "run" /\ Built(P.s) /\ c.s = NoSpace
  BY <1>0, CallRuns DEF Shape
<1>2. proc' = [proc EXCEPT ![p] = N]
  BY <1>0 DEF grow_end
<1>3. /\ N \in ProcSet /\ N.st = P.st /\ N.kstack = P.kstack /\ N.s = P.s /\ N.sz = c.to
      /\ N.own = P.own /\ N.call = NoCall
  <2> HIDE DEF c
  <2> QED BY <1>0, NoCallFacts DEF ProcSet
<1> HIDE DEF N
<1>4. /\ Mapped(P.s, c.a) /\ c.a % PGSIZE = 0 /\ c.a < c.to + PGSIZE /\ c.to < KERNBASE
  BY <1>0, <1>1 DEF Sized
<1>5. Sound(p, N, ram.holds)
  <2>0. Content(p, P, ram.holds) /\ Shape(P)
    BY <1>0
  <2> HIDE DEF P, c
  <2>1. Shape(N)
    BY <1>1, <1>3, <2>0, NoCallFacts DEF Shape
  <2>2. Sized(N)
    <3>1. \A i \in Pages : i * PGSIZE < c.a <=> i * PGSIZE < c.to
      BY <1>0, <1>4, LoopEnd
    <3>2. Mapped(P.s, c.to)
      BY <1>4, <3>1 DEF Mapped
    <3>3. c.to <= KERNBASE
      BY <1>0, <1>4, MemorySizes
    <3> QED BY <1>3, <3>2, <3>3, NoCallFacts, ZeroPage DEF Sized
  <2>3. Content(p, N, ram.holds)
    BY <1>3, <2>0, NoCallFacts DEF Content
  <2> QED BY <1>0, <1>3, <2>1, <2>2, <2>3, NoCallFacts, NoSpaceFacts DEF Sound
<1>6. P.st # "embryo" /\ N.call.k # "fork" /\ N.call.s = P.call.s
  BY <1>1, <1>3, NoCallFacts
<1> QED BY <1>0, <1>2, <1>3, <1>5, <1>6, RecordChanges

\* growproc() for a negative n: the pages from the new size on go.
LEMMA Shrinks ==
  ASSUME MemInv, NEW p \in Procs, NEW n \in Bytes, shrink(p, n)
  PROVE  MemInv'
<1> DEFINE P == proc[p]
           to == (P.sz - n) % (2 * KERNBASE)
           D == dropped(P.s, P.sz, to)
           v == deallocuvm(ram, P.s, P.sz, to)
           N == IF to = 0 THEN [P EXCEPT !.s = v.s, !.st = "fault"] ELSE [P EXCEPT !.s = v.s, !.sz = to]
<1>0. /\ ram \in Memories /\ proc \in [Procs -> ProcSet] /\ P \in ProcSet /\ P.sz \in Nat
      /\ P.s \in Spaces /\ n \in Int
      /\ Shape(P) /\ Sized(P) /\ Content(p, P, ram.holds) /\ Once(P.call.s)
      /\ P.st = "run" /\ P.call.k = "none"
  BY ProcFacts, MemorySizes DEF shrink, Idle
<1>1. /\ to < P.sz /\ ram' = v.m
      /\ proc' = [proc EXCEPT ![p] = IF to = 0 THEN [@ EXCEPT !.s = v.s, !.st = "fault"]
                                     ELSE [@ EXCEPT !.s = v.s, !.sz = to]]
  BY DEF shrink
<1>2. to \in Nat
  <2>1. P.sz - n \in Int /\ 2 * KERNBASE \in Nat \ {0}
    BY <1>0, MemorySizes
  <2>2. (P.sz - n) % (2 * KERNBASE) \in 0 .. 2 * KERNBASE - 1
    <3> DEFINE w == 2 * KERNBASE
               y == P.sz - n
    <3>1. y \in Int /\ w \in Nat \ {0}
      BY <2>1
    <3> HIDE DEF w, y
    <3>2. y % w \in 0 .. w - 1
      BY <3>1, DivMod
    <3> QED BY <3>2 DEF w, y
  <2> QED BY <2>1, <2>2
<1>3. Good(ram, P.s) /\ Built(P.s)
  BY <1>0, GoodSpaces DEF Shape
<1> HIDE DEF to
<1>4. /\ Conserves(ram, P.s, v.m, v.s)
      /\ \A j \in Pages : v.s.pte[j] = IF j \in D THEN 0 ELSE P.s.pte[j]
      /\ Built(P.s) => Built(v.s)
  BY <1>3, Dealloc
<1>5. \A j \in Pages : v.s.pte[j] # 0 <=> j * PGSIZE < to
  <2> SUFFICES ASSUME NEW j \in Pages PROVE v.s.pte[j] # 0 <=> j * PGSIZE < to
    OBVIOUS
  <2>1. P.s.pte[j] # 0 <=> j * PGSIZE < P.sz
    BY <1>0 DEF Sized, Mapped
  <2>2. j * PGSIZE < PGROUNDUP(to) <=> j * PGSIZE < to
    BY <1>2, RoundUpPage
  <2>3. P.s.pte[j] # 0 => P.s.tab[j \div NPTENTRIES] # 0
    BY <1>3 DEF Built
  <2>4. PGROUNDUP(to) \in Nat /\ j * PGSIZE \in Nat
    BY <1>2, RoundUp, PageFacts
  <2>5. j \in D <=> PGROUNDUP(to) <= j * PGSIZE /\ P.s.pte[j] # 0
    BY <1>1, <2>1, <2>3 DEF dropped
  <2> HIDE DEF D, P, v
  <2> QED BY <1>0, <1>1, <1>2, <1>4, <2>1, <2>2, <2>4, <2>5
<1> HIDE DEF v, D
<1>6. v.s \in Spaces /\ Once(v.s) /\ Good(v.m, v.s)
  BY <1>4 DEF Conserves, Good
<1>7. proc' = [proc EXCEPT ![p] = N]
  BY <1>0, <1>1
<1>8. /\ N \in ProcSet /\ N.kstack = P.kstack /\ N.s = v.s /\ N.own = P.own /\ N.call = P.call
      /\ N.st = (IF to = 0 THEN "fault" ELSE "run")
      /\ to # 0 => N.sz = to
  <2>1. CASE to = 0
    BY <1>0, <1>6, <2>1 DEF ProcSet
  <2>2. CASE to # 0
    BY <1>0, <1>2, <1>6, <2>2 DEF ProcSet
  <2> QED BY <2>1, <2>2
<1> HIDE DEF N
<1>9. Moves(ram, P.s, ram', N.s)
  BY <1>1, <1>4, <1>8, ConservesMoves
<1>10. P.st # "embryo" /\ N.call.k # "fork" /\ N.call.s = P.call.s
  BY <1>0, <1>8
<1>11. Sound(p, N, ram'.holds) => MemInv'
  BY <1>7, <1>8, <1>9, <1>10, SpaceChanges
<1>12. Filled(v.s, {ZERO, CODE} \cup P.own, ram'.holds)
  <2> HIDE DEF P
  <2> SUFFICES ASSUME NEW j \in Pages, v.s.pte[j] # 0
               PROVE  ram'.holds[v.s.pte[j]] \in {ZERO, CODE} \cup P.own
    BY DEF Filled
  <2>1. v.s.pte[j] = P.s.pte[j] /\ P.s.pte[j] # 0
    BY <1>4
  <2>2. v.m.holds[v.s.pte[j]] = ram.holds[v.s.pte[j]]
    BY <1>3, <1>4, <2>1, ConservedPage
  <2>3. ram.holds[P.s.pte[j]] \in {ZERO, CODE} \cup P.own
    BY <1>0, <2>1 DEF Content, Filled
  <2> QED BY <1>1, <2>1, <2>2, <2>3
<1>13. Sound(p, N, ram'.holds)
  <2> HIDE DEF P
  <2>1. Shape(N)
    BY <1>0, <1>3, <1>4, <1>8 DEF Shape
  <2>2. Sized(N)
    <3>1. Mapped(v.s, to)
      BY <1>5 DEF Mapped
    <3>2. P.sz <= KERNBASE
      BY <1>0 DEF Sized
    <3>3. to <= KERNBASE
      BY <1>0, <1>1, <1>2, <3>2, MemorySizes
    <3>4. N.st = "run" => N.sz <= KERNBASE /\ Mapped(N.s, N.sz)
      BY <1>8, <3>1, <3>3
    <3> QED BY <1>0, <1>8, <3>4 DEF Sized
  <2>3. Content(p, N, ram'.holds)
    BY <1>0, <1>8, <1>12 DEF Content
  <2> QED BY <1>0, <1>6, <1>8, <2>1, <2>2, <2>3 DEF Sound
<1> QED BY <1>11, <1>13

\* One turn of allocuvm() for the page at address a of a space mapped up to a.
LEMMA AllocTurn ==
  ASSUME NEW m, NEW s, Good(m, s), Built(s), NEW a \in Nat, a % PGSIZE = 0, a < KERNBASE,
         Mapped(s, a), NEW A, ZERO \in A, Filled(s, A, m.holds), NEW from \in Nat, NEW to \in Nat,
         a < to
  PROVE  LET v == allocuvm(m, s, a \div PGSIZE, from, to) IN
         /\ v.ok \in BOOLEAN /\ Conserves(m, s, v.m, v.s) /\ Built(v.s)
         /\ Filled(v.s, A, v.m.holds)
         /\ v.ok => Mapped(v.s, a + PGSIZE)
         /\ ~v.ok /\ from <= a => Mapped(v.s, from)
<1> DEFINE i == a \div PGSIZE
           f == kalloc(m)
           D == dropped(s, to, from)
           v == allocuvm(m, s, i, from, to)
<1>1. i \in Pages /\ i * PGSIZE = a
  BY PageFacts
<1>b. \A j \in Pages : j * PGSIZE < a + PGSIZE <=> j = i \/ j * PGSIZE < a
  BY BelowNext
<1> HIDE DEF i
<1>2. s.pte[i] = 0
  BY <1>1 DEF Mapped
<1>3. /\ v.ok \in BOOLEAN /\ Conserves(m, s, v.m, v.s) /\ Built(v.s)
      /\ v.ok => /\ f \in m.free
                 /\ \A j \in Pages : v.s.pte[j] = IF j = i THEN f ELSE s.pte[j]
                 /\ v.s.user = s.user \cup {i}
                 /\ v.m.holds[f] = ZERO
      /\ ~v.ok => /\ \A j \in Pages : v.s.pte[j] = IF j \in D THEN 0 ELSE s.pte[j]
  BY <1>1, <1>2, Allocuvm
<1>4. m.free \subseteq Frames /\ m \in Memories
  BY DEF Good, Memories
<1> HIDE DEF v, f, D
<1>5. CASE v.ok
  <2>1. f # 0
    BY <1>3, <1>4, <1>5, MemorySizes
  <2>2. \A j \in Pages : v.s.pte[j] # 0 <=> j = i \/ j * PGSIZE < a
    BY <1>1, <1>3, <1>5, <2>1 DEF Mapped
  <2>3. Mapped(v.s, a + PGSIZE)
    BY <1>b, <2>2 DEF Mapped
  <2>4. Filled(v.s, A, v.m.holds)
    <3> SUFFICES ASSUME NEW j \in Pages, v.s.pte[j] # 0 PROVE v.m.holds[v.s.pte[j]] \in A
      BY DEF Filled
    <3>1. CASE j = i
      BY <1>1, <1>3, <1>5, <3>1
    <3>2. CASE j # i
      <4>1. v.s.pte[j] = s.pte[j] /\ s.pte[j] # 0
        BY <1>3, <1>5, <3>2
      <4>2. v.m.holds[v.s.pte[j]] = m.holds[v.s.pte[j]]
        BY <1>3, <4>1, ConservedPage
      <4>3. m.holds[s.pte[j]] \in A
        BY <4>1 DEF Filled
      <4> QED BY <4>1, <4>2, <4>3
    <3> QED BY <3>1, <3>2
  <2> QED BY <1>3, <1>5, <2>3, <2>4 DEF v, i
<1>6. CASE ~v.ok
  <2>0. \A j \in Pages : v.s.pte[j] = IF j \in D THEN 0 ELSE s.pte[j]
    BY <1>3, <1>6
  <2>1. from <= a => \A j \in Pages : v.s.pte[j] # 0 <=> j * PGSIZE < from
    <3> SUFFICES ASSUME from <= a, NEW j \in Pages PROVE v.s.pte[j] # 0 <=> j * PGSIZE < from
      OBVIOUS
    <3>1. s.pte[j] # 0 <=> j * PGSIZE < a
      BY DEF Mapped
    <3>2. j * PGSIZE < PGROUNDUP(from) <=> j * PGSIZE < from
      BY RoundUpPage
    <3>3. s.pte[j] # 0 => s.tab[j \div NPTENTRIES] # 0
      BY DEF Built
    <3>4. PGROUNDUP(from) \in Nat /\ j * PGSIZE \in Nat
      BY RoundUp, PageFacts
    <3>5. s.pte[j] # 0 => j * PGSIZE < to
      BY <3>1, <3>4
    <3>6. j \in D <=> PGROUNDUP(from) <= j * PGSIZE /\ s.pte[j] # 0
      BY <3>3, <3>5 DEF dropped, D
    <3> QED BY <2>0, <3>1, <3>2, <3>4, <3>6
  <2>2. from <= a => Mapped(v.s, from)
    BY <2>1 DEF Mapped
  <2>3. Filled(v.s, A, v.m.holds)
    <3> SUFFICES ASSUME NEW j \in Pages, v.s.pte[j] # 0 PROVE v.m.holds[v.s.pte[j]] \in A
      BY DEF Filled
    <3>1. v.s.pte[j] = s.pte[j] /\ s.pte[j] # 0
      BY <2>0
    <3>2. v.m.holds[v.s.pte[j]] = m.holds[v.s.pte[j]]
      BY <1>3, <3>1, ConservedPage
    <3>3. m.holds[s.pte[j]] \in A
      BY <3>1 DEF Filled
    <3> QED BY <3>1, <3>2, <3>3
  <2> QED BY <1>3, <1>6, <2>2, <2>3 DEF v, i
<1> QED BY <1>3, <1>5, <1>6

\* A turn of the loop for sbrk().
LEMMA AllocGrow ==
  ASSUME MemInv, NEW p \in Procs, alloc_page(p), proc[p].call.k = "grow"
  PROVE  MemInv'
<1> DEFINE P == proc[p]
           c == P.call
           v == allocuvm(ram, P.s, c.a \div PGSIZE, c.from, c.to)
           C == IF v.ok THEN [c EXCEPT !.a = @ + PGSIZE] ELSE NoCall
           N == [P EXCEPT !.s = v.s, !.call = C]
           A == {ZERO, CODE} \cup P.own
<1>0. /\ ram \in Memories /\ proc \in [Procs -> ProcSet] /\ P \in ProcSet /\ P.s \in Spaces
      /\ c \in CallSet /\ c.a \in Nat /\ c.from \in Nat /\ c.to \in Nat /\ P.sz \in Nat
      /\ Shape(P) /\ Sized(P) /\ Content(p, P, ram.holds) /\ Once(P.s) /\ Once(c.s)
      /\ c.k = "grow" /\ c.a < c.to
  BY ProcFacts DEF alloc_page
<1>1. P.st = "run" /\ Built(P.s) /\ c.s = NoSpace
  BY <1>0, CallRuns DEF Shape
<1>2. ram' = v.m /\ proc' = [proc EXCEPT ![p].s = v.s, ![p].call = C]
  BY <1>0 DEF alloc_page
<1>3. /\ Mapped(P.s, c.a) /\ c.a % PGSIZE = 0 /\ c.a < c.to + PGSIZE /\ c.to < KERNBASE
      /\ P.sz <= KERNBASE /\ c.from = P.sz /\ P.sz <= c.a /\ P.sz < c.to
  BY <1>0, <1>1 DEF Sized
<1>4. p \in P.own /\ Filled(P.s, A, ram.holds)
  BY <1>0, <1>1 DEF Content
<1>5. Good(ram, P.s) /\ ZERO \in A /\ c.a < KERNBASE
  BY <1>0, <1>3, GoodSpaces, MemorySizes
<1>6. /\ v.ok \in BOOLEAN /\ Conserves(ram, P.s, v.m, v.s) /\ Built(v.s)
      /\ Filled(v.s, A, v.m.holds)
      /\ v.ok => Mapped(v.s, c.a + PGSIZE)
      /\ ~v.ok /\ c.from <= c.a => Mapped(v.s, c.from)
  <2> HIDE DEF A, P, c
  <2> QED BY <1>0, <1>1, <1>3, <1>4, <1>5, AllocTurn
<1> HIDE DEF v, A
<1>7. v.s \in Spaces /\ Once(v.s)
  BY <1>6 DEF Conserves, Good
<1>8. C \in CallSet /\ C.s = NoSpace /\ C.k # "fork"
  <2>1. c.a + PGSIZE \in Nat
    BY <1>0, MemorySizes
  <2> HIDE DEF c
  <2> QED BY <1>0, <1>1, <2>1, NoCallFacts DEF CallSet
<1>9. /\ v.ok => /\ C.k = "grow" /\ C.a = c.a + PGSIZE /\ C.from = c.from /\ C.to = c.to
      /\ ~v.ok => C = NoCall
  <2> HIDE DEF c
  <2> QED BY <1>0 DEF CallSet
<1> HIDE DEF C
<1>10. proc' = [proc EXCEPT ![p] = N]
  BY <1>0, <1>2
<1>11. /\ N \in ProcSet /\ N.st = P.st /\ N.kstack = P.kstack /\ N.s = v.s /\ N.sz = P.sz
       /\ N.own = P.own /\ N.call = C
  BY <1>0, <1>7, <1>8 DEF ProcSet
<1> HIDE DEF N
<1>12. Moves(ram, P.s, ram', N.s)
  BY <1>2, <1>6, <1>11, ConservesMoves
<1>13. Sound(p, N, ram'.holds) => MemInv'
  <2>1. P.st # "embryo" /\ N.call.k # "fork" /\ N.call.s = P.call.s
    BY <1>1, <1>8, <1>11
  <2> QED BY <1>10, <1>11, <1>12, <2>1, SpaceChanges
<1>14. Sound(p, N, ram'.holds)
  <2> HIDE DEF P, c
  <2>1. Shape(N)
    <3>1. P.kstack # 0
      BY <1>0, <1>1 DEF Shape
    <3>2. C.k \in {"none", "grow"}
      BY <1>6, <1>9, NoCallFacts
    <3> QED BY <1>1, <1>6, <1>8, <1>11, <3>1, <3>2 DEF Shape
  <2>2. Sized(N)
    <3>1. CASE v.ok
      <4>1. (c.a + PGSIZE) % PGSIZE = 0
        BY <1>0, <1>3, NextPage
      <4>2. P.sz <= c.a + PGSIZE /\ c.a + PGSIZE < c.to + PGSIZE
        BY <1>0, <1>3, MemorySizes
      <4>3. Mapped(v.s, c.a + PGSIZE)
        BY <1>6, <3>1
      <4> DEFINE b == c.a + PGSIZE
      <4> HIDE DEF b
      <4>4. /\ C.k = "grow" /\ C.a = b /\ C.from = P.sz /\ C.to = c.to /\ b % PGSIZE = 0
            /\ P.sz <= b /\ b < c.to + PGSIZE /\ Mapped(v.s, b)
        BY <1>3, <1>9, <3>1, <4>1, <4>2, <4>3 DEF b
      <4> QED BY <1>1, <1>3, <1>11, <4>4 DEF Sized
    <3>2. CASE ~v.ok
      <4>1. Mapped(v.s, P.sz) /\ C = NoCall
        BY <1>3, <1>6, <1>9, <3>2
      <4> QED BY <1>3, <1>11, <4>1, NoCallFacts, ZeroPage DEF Sized
    <3> QED BY <3>1, <3>2
  <2>3. Content(p, N, ram'.holds)
    <3>1. C.k \in {"none", "grow"}
      BY <1>6, <1>9, NoCallFacts
    <3>2. Filled(N.s, {ZERO, CODE} \cup N.own, ram'.holds)
      BY <1>2, <1>6, <1>11 DEF A
    <3> QED BY <1>4, <1>11, <3>1, <3>2 DEF Content
  <2> QED BY <1>7, <1>8, <1>11, <2>1, <2>2, <2>3, NoSpaceFacts DEF Sound
<1> QED BY <1>13, <1>14

\* A turn of the loop for exec().
LEMMA AllocExec ==
  ASSUME MemInv, NEW p \in Procs, alloc_page(p), proc[p].call.k \in {"load", "stack"}
  PROVE  MemInv'
<1> DEFINE P == proc[p]
           c == P.call
           v == allocuvm(ram, c.s, c.a \div PGSIZE, c.from, c.to)
           C == [c EXCEPT !.s = v.s, !.a = @ + PGSIZE]
           N == [P EXCEPT !.call = C]
           A == {ZERO, CODE}
<1>0. /\ ram \in Memories /\ proc \in [Procs -> ProcSet] /\ P \in ProcSet /\ P.s \in Spaces
      /\ c \in CallSet /\ c.s \in Spaces /\ c.a \in Nat /\ c.from \in Nat /\ c.to \in Nat
      /\ Shape(P) /\ Sized(P) /\ Content(p, P, ram.holds) /\ Once(P.s) /\ Once(c.s)
      /\ c.k \in {"load", "stack"} /\ c.a < c.to
  BY ProcFacts DEF alloc_page
<1>1. P.st = "run" /\ Built(P.s) /\ Built(c.s)
  BY <1>0, CallRuns DEF Shape
<1>2. /\ ram' = IF v.ok THEN v.m ELSE freevm(v.m, v.s)
      /\ proc' = [proc EXCEPT ![p].call = IF v.ok THEN C ELSE NoCall]
  <2>1. c.k # "grow"
    BY <1>0
  <2> QED BY <2>1 DEF alloc_page
<1>3. /\ Mapped(c.s, c.a) /\ c.a % PGSIZE = 0 /\ c.a < c.to + PGSIZE /\ c.to <= KERNBASE
      /\ P.sz <= KERNBASE /\ Mapped(P.s, P.sz)
      /\ c.k = "stack" => c.to % PGSIZE = 0
  BY <1>0, <1>1 DEF Sized
<1>4. /\ p \in P.own /\ Filled(P.s, {ZERO, CODE} \cup P.own, ram.holds)
      /\ Filled(c.s, A, ram.holds)
  BY <1>0, <1>1 DEF Content
<1>5. Good(ram, c.s) /\ ZERO \in A /\ c.a < KERNBASE
  BY <1>0, <1>3, GoodSpaces, MemorySizes
<1>6. /\ v.ok \in BOOLEAN /\ Conserves(ram, c.s, v.m, v.s) /\ Built(v.s)
      /\ Filled(v.s, A, v.m.holds)
      /\ v.ok => Mapped(v.s, c.a + PGSIZE)
      /\ ~v.ok /\ c.from <= c.a => Mapped(v.s, c.from)
  <2> HIDE DEF A, P, c
  <2> QED BY <1>0, <1>1, <1>3, <1>4, <1>5, AllocTurn
<1> HIDE DEF v
<1>7. v.s \in Spaces /\ Once(v.s) /\ Good(v.m, v.s)
  BY <1>6 DEF Conserves, Good
<1>8. CASE ~v.ok
  <2>1. ram' = freevm(v.m, v.s) /\ proc' = [proc EXCEPT ![p].call = NoCall]
    BY <1>2, <1>8
  <2>2. Conserves(v.m, v.s, freevm(v.m, v.s), NoSpace) /\ v.m.free \subseteq freevm(v.m, v.s).free
    BY <1>6, <1>7, Freevm
  <2>3. Conserves(ram, c.s, freevm(v.m, v.s), NoSpace)
    BY <1>6, <2>2, ConservesThenFrees
  <2>4. Moves(ram, c.s, ram', NoSpace)
    BY <2>1, <2>3, ConservesMoves
  <2> QED BY <1>0, <1>1, <2>1, <2>4, CallFreed
<1>9. CASE v.ok
  <2>1. ram' = v.m /\ proc' = [proc EXCEPT ![p] = N]
    BY <1>0, <1>2, <1>9
  <2> DEFINE b == c.a + PGSIZE
  <2>2. b \in Nat /\ b % PGSIZE = 0 /\ b < c.to + PGSIZE /\ Mapped(v.s, b)
    <3>1. b \in Nat /\ b < c.to + PGSIZE
      BY <1>0, MemorySizes
    <3>2. b % PGSIZE = 0
      BY <1>0, <1>3, NextPage
    <3> QED BY <1>6, <1>9, <3>1, <3>2
  <2>3. /\ C \in CallSet /\ C.k = c.k /\ C.s = v.s /\ C.a = b /\ C.to = c.to
    <3> HIDE DEF c
    <3> QED BY <1>0, <1>7, <2>2 DEF CallSet
  <2> HIDE DEF C, b
  <2>4. /\ N \in ProcSet /\ N.st = P.st /\ N.kstack = P.kstack /\ N.s = P.s /\ N.sz = P.sz
        /\ N.own = P.own /\ N.call = C
    BY <1>0, <2>3 DEF ProcSet
  <2> HIDE DEF N
  <2>5. Moves(ram, c.s, ram', N.call.s)
    BY <1>6, <2>1, <2>3, <2>4, ConservesMoves
  <2>6. /\ \A g \in FramesOf(P.s) : ram'.holds[g] = ram.holds[g]
        /\ Sound(p, N, ram'.holds) => MemInv'
    <3>1. N.call.k # "fork" /\ P.st # "embryo"
      BY <1>0, <1>1, <2>3, <2>4
    <3> QED BY <2>1, <2>4, <2>5, <3>1, CallChanges
  <2>7. Sound(p, N, ram'.holds)
    <3> HIDE DEF P, c
    <3>1. Shape(N)
      BY <1>0, <1>1, <1>6, <2>3, <2>4 DEF Shape
    <3>2. Sized(N)
      BY <1>0, <1>3, <2>2, <2>3, <2>4 DEF Sized
    <3>3. Content(p, N, ram'.holds)
      <4>1. Filled(P.s, {ZERO, CODE} \cup P.own, ram'.holds)
        BY <1>0, <1>4, <2>6, FilledKept
      <4>2. Filled(v.s, {ZERO, CODE}, ram'.holds)
        BY <1>6, <2>1
      <4> QED BY <1>0, <1>4, <2>3, <2>4, <4>1, <4>2 DEF Content
    <3> QED BY <1>0, <1>7, <2>3, <2>4, <3>1, <3>2, <3>3 DEF Sound
  <2> QED BY <2>6, <2>7
<1> QED BY <1>6, <1>8, <1>9
-----------------------------------------------------------------------------
(* The invariant. *)

\* The memory and the first process after boot.
LEMMA InitHolds == MemInit => MemInv
<1> SUFFICES ASSUME MemInit PROVE MemInv
  OBVIOUS
<1> DEFINE r == [NoSpace EXCEPT !.dir = 2, !.ktab = 3, !.tab[0] = 4, !.pte[0] = 5, !.user = {0}]
           I == [Unused EXCEPT !.st = "run", !.kstack = 1, !.sz = PGSIZE, !.own = {init}, !.s = r]
<1>1. /\ ram.free = {f \in Frames : f > 5} /\ ram.twice = FALSE /\ ram \in Memories
      /\ ram.holds[5] = CODE
  <2>1. ZERO \in Int /\ CODE \in Int /\ JUNK \in Int
    BY DEF ZERO, CODE, JUNK
  <2> DEFINE h == [f \in Frames |-> CASE f < 5 -> ZERO [] f = 5 -> CODE [] OTHER -> JUNK]
  <2>2. \A f \in Frames : (CASE f < 5 -> ZERO [] f = 5 -> CODE [] OTHER -> JUNK) \in Int
    BY <2>1
  <2>3. h \in [Frames -> Int]
    BY <2>2
  <2>4. 5 \in Frames /\ ~(5 < 5)
    BY MemorySizes
  <2>5. h[5] = CODE
    BY <2>4
  <2>6. ram = [free |-> {f \in Frames : f > 5}, twice |-> FALSE, holds |-> h]
    BY DEF MemInit
  <2> HIDE DEF h
  <2> QED BY <2>3, <2>5, <2>6 DEF Memories
<1>2. 1 \in Frames /\ 2 \in Frames /\ 3 \in Frames /\ 4 \in Frames /\ 5 \in Frames
      /\ 1 \in Procs /\ init = 1
  BY MemorySizes DEF init
<1>3. 0 \in Pages /\ 0 \in Tables
  BY PageFacts
<1>4. /\ r \in Spaces /\ r.dir = 2 /\ r.ktab = 3 /\ r.user = {0}
      /\ \A t \in Tables : r.tab[t] = IF t = 0 THEN 4 ELSE 0
      /\ \A i \in Pages : r.pte[i] = IF i = 0 THEN 5 ELSE 0
  <2>1. 2 \in Frames0 /\ 3 \in Frames0 /\ 4 \in Frames0 /\ 5 \in Frames0
    BY <1>2 DEF Frames0
  <2>2. NoSpace \in Spaces
    BY NoSpaceFacts
  <2> QED BY <1>3, <2>1, <2>2, NoSpaceFacts DEF Spaces
<1> HIDE DEF r
<1>5. /\ I \in ProcSet /\ I.st = "run" /\ I.kstack = 1 /\ I.sz = PGSIZE /\ I.own = {1} /\ I.s = r
      /\ I.call = NoCall
  <2>1. 1 \in Frames0 /\ PGSIZE \in Nat /\ {1} \in SUBSET Procs
    BY <1>2, MemorySizes DEF Frames0
  <2> QED BY <1>2, <1>4, <2>1, UnusedFacts DEF ProcSet
<1>6. proc = [p \in Procs |-> IF p # 1 THEN Unused ELSE I]
  BY <1>2 DEF MemInit, I, r
<1> HIDE DEF I
<1>7. proc \in [Procs -> ProcSet] /\ proc[1] = I /\ \A p \in Procs : p # 1 => proc[p] = Unused
  BY <1>2, <1>5, <1>6, UnusedFacts
<1>8. TypeInv
  BY <1>1, <1>7 DEF TypeInv
<1>9. Once(r)
  BY <1>4 DEF Once
<1>10. \A f \in Frames : f \in FramesOf(r) <=> f \in {2, 3, 4, 5}
  <2> SUFFICES ASSUME NEW f \in Frames PROVE f \in FramesOf(r) <=> f \in {2, 3, 4, 5}
    OBVIOUS
  <2>1. f # 0
    BY MemorySizes
  <2>2. (\E t \in Tables : f = r.tab[t]) <=> f = 4
    BY <1>3, <1>4, <2>1
  <2>3. (\E i \in Pages : f = r.pte[i]) <=> f = 5
    BY <1>3, <1>4, <2>1
  <2> QED BY <1>4, <2>2, <2>3 DEF FramesOf
<1>11. Sound(1, I, ram.holds)
  <2>1. Shape(I)
    <3>1. Built(r)
      <4>1. \A i \in Pages : r.pte[i] # 0 => r.tab[i \div NPTENTRIES] # 0
        <5> SUFFICES ASSUME NEW i \in Pages, r.pte[i] # 0 PROVE r.tab[i \div NPTENTRIES] # 0
          OBVIOUS
        <5>1. i = 0
          BY <1>4
        <5>2. 0 \div NPTENTRIES = 0
          BY DivBelow, MemorySizes
        <5>3. r.tab[0] = 4
          BY <1>3, <1>4
        <5> QED BY <5>1, <5>2, <5>3
      <4> QED BY <1>3, <1>4, <4>1 DEF Built
    <3> QED BY <1>5, <3>1, NoCallFacts DEF Shape
  <2>2. Sized(I)
    <3>1. PGSIZE <= KERNBASE
      <4>1. PICK T \in Nat \ {0} : KERNBASE = (T * NPTENTRIES) * PGSIZE
        BY KernbaseFacts
      <4> DEFINE n == T * NPTENTRIES
      <4>2. n \in Nat \ {0} /\ KERNBASE = n * PGSIZE
        BY <4>1, MemorySizes
      <4> HIDE DEF n
      <4>3. 1 * PGSIZE <= n * PGSIZE
        BY <4>2, MemorySizes
      <4> QED BY <4>2, <4>3, MemorySizes
    <3>2. Mapped(r, PGSIZE)
      <4> SUFFICES ASSUME NEW i \in Pages PROVE r.pte[i] # 0 <=> i * PGSIZE < PGSIZE
        BY DEF Mapped
      <4>1. i \in Nat
        BY PageFacts
      <4>2. i # 0 => PGSIZE <= i * PGSIZE
        BY <4>1, MemorySizes
      <4>3. i = 0 => i * PGSIZE = 0
        BY MemorySizes
      <4>4. i * PGSIZE \in Nat /\ PGSIZE \in Nat \ {0}
        BY PageFacts, MemorySizes
      <4> QED BY <1>4, <4>2, <4>3, <4>4
    <3> QED BY <1>5, <3>1, <3>2, NoCallFacts, ZeroPage DEF Sized
  <2>3. Content(1, I, ram.holds)
    BY <1>1, <1>4, <1>5, NoCallFacts DEF Content, Filled
  <2> QED BY <1>5, <1>9, <2>1, <2>2, <2>3, NoCallFacts, NoSpaceFacts DEF Sound
<1>12. \A p \in Procs : Sound(p, proc[p], ram.holds)
  BY <1>7, <1>11, UnusedSound
<1>13. ForkInv
  BY <1>5, <1>7, UnusedFacts, NoCallFacts DEF ForkInv, Calls
<1>14. ASSUME NEW p \in Procs
       PROVE  /\ p # 1 => \A k \in Kinds : Held(proc, <<k, p>>) = {}
              /\ p = 1 => /\ \A f \in Frames : f \in Held(proc, <<"kstack", p>>) <=> f = 1
                          /\ \A f \in Frames : f \in Held(proc, <<"s", p>>) <=> f \in {2, 3, 4, 5}
                          /\ Held(proc, <<"call", p>>) = {}
  <2>1. CASE p # 1
    <3>1. proc[p] = Unused
      BY <1>7, <2>1
    <3>2. \A f \in Frames : f # 0
      BY MemorySizes
    <3> QED BY <2>1, <3>1, <3>2, UnusedFacts, NoCallFacts, NoSpaceFacts DEF Held, Part, Kinds
  <2>2. CASE p = 1
    <3>1. /\ Held(proc, <<"s", p>>) = FramesOf(proc[p].s)
          /\ Held(proc, <<"call", p>>) = FramesOf(proc[p].call.s)
          /\ Held(proc, <<"kstack", p>>) = {f \in Frames : f = proc[p].kstack}
      BY PartFacts
    <3>2. proc[p].s = r /\ proc[p].call.s = NoSpace /\ proc[p].kstack = 1
      BY <1>5, <1>7, <2>2, NoCallFacts
    <3> QED BY <1>2, <1>10, <2>2, <3>1, <3>2, NoSpaceFacts
  <2> QED BY <2>1, <2>2
<1>15. \A o \in Holders : \E k \in Kinds, p \in Procs : o = <<k, p>>
  BY DEF Holders
<1>16. ASSUME NEW o \in Holders, NEW f \in Frames, f \in Held(proc, o)
       PROVE  (o = <<"kstack", 1>> /\ f = 1) \/ (o = <<"s", 1>> /\ f \in {2, 3, 4, 5})
  <2>1. PICK k \in Kinds, p \in Procs : o = <<k, p>>
    BY <1>15
  <2>2. p = 1
    BY <1>14, <1>16, <2>1
  <2>3. k = "kstack" \/ k = "s" \/ k = "call"
    BY DEF Kinds
  <2> QED BY <1>14, <1>16, <2>1, <2>2, <2>3
<1>17. Own(ram, proc)
  <2>1. \A o, q \in Holders, f \in Frames : f \in Held(proc, o) /\ f \in Held(proc, q) => o = q
    BY <1>16
  <2>2. \A o \in Holders, f \in Frames : f \in Held(proc, o) => f \notin ram.free
    BY <1>1, <1>16
  <2>3. ASSUME NEW f \in Frames PROVE f \in ram.free \/ \E o \in Holders : f \in Held(proc, o)
    <3>1. f \in ram.free \/ f \in {1, 2, 3, 4, 5}
      BY <1>1, MemorySizes
    <3>2. <<"kstack", 1>> \in Holders /\ <<"s", 1>> \in Holders
      BY <1>2, PartFacts
    <3> QED BY <1>2, <1>14, <3>1, <3>2
  <2> QED BY <1>1, <2>1, <2>2, <2>3 DEF Own
<1> QED BY <1>8, <1>12, <1>13, <1>17 DEF MemInv

\* Every step of every process keeps the invariant.
LEMMA MemInductive == MemInv /\ [MemNext]_memvars => MemInv'
<1> SUFFICES ASSUME MemInv, [MemNext]_memvars PROVE MemInv'
  OBVIOUS
<1>1. CASE UNCHANGED memvars
  <2>1. ram' = ram /\ proc' = proc
    BY <1>1 DEF memvars
  <2>2. ForkInv'
    BY <2>1 DEF MemInv, ForkInv, Calls
  <2> QED BY <2>1, <2>2 DEF MemInv, TypeInv
<1>2. ASSUME NEW p \in Procs, fork(p) PROVE MemInv'
  BY <1>2, ForkStarts
<1>3. ASSUME NEW p \in Procs, fork_kvm(p) PROVE MemInv'
  BY <1>3, ForkKvm, ForkKvmFails
<1>4. ASSUME NEW p \in Procs, fork_page(p) PROVE MemInv'
  BY <1>4, ForkPage, ForkPageFails
<1>5. ASSUME NEW p \in Procs, fork_end(p) PROVE MemInv'
  BY <1>5, ForkEnds
<1>6. ASSUME NEW p \in Procs, NEW n \in Programs, exec(p, n) PROVE MemInv'
  BY <1>6, ExecStarts
<1>7. ASSUME NEW p \in Procs, exec_bad(p) PROVE MemInv'
  BY <1>7, ExecBad
<1>8. ASSUME NEW p \in Procs, loaduvm(p) PROVE MemInv'
  BY <1>8, Loaduvm
<1>9. ASSUME NEW p \in Procs, NEW n \in {1, 2}, exec_commit(p, n) PROVE MemInv'
  BY <1>9, ExecCommit
<1>10. ASSUME NEW p \in Procs, NEW n \in Bytes, grow(p, n) PROVE MemInv'
  BY <1>10, Grows
<1>11. ASSUME NEW p \in Procs, NEW n \in Bytes, shrink(p, n) PROVE MemInv'
  BY <1>11, Shrinks
<1>12. ASSUME NEW p \in Procs, grow_end(p) PROVE MemInv'
  BY <1>12, GrowEnds
<1>13. ASSUME NEW p \in Procs, alloc_page(p) PROVE MemInv'
  <2>1. proc[p].call.k \in {"grow", "load", "stack"}
    BY <1>13 DEF alloc_page
  <2> QED BY <1>13, <2>1, AllocGrow, AllocExec
<1>14. ASSUME NEW p \in Procs, NEW i \in Pages, store(p, i) PROVE MemInv'
  BY <1>14, Stores
<1>15. ASSUME NEW p \in Procs, exit(p) PROVE MemInv'
  BY <1>15, Exits
<1>16. ASSUME NEW p \in Procs, reap(p) PROVE MemInv'
  BY <1>16, Reap
<1> QED BY <1>1, <1>2, <1>3, <1>4, <1>5, <1>6, <1>7, <1>8, <1>9, <1>10, <1>11, <1>12, <1>13,
           <1>14, <1>15, <1>16 DEF MemNext

\* The invariant holds in every state.
LEMMA MemInvariant == MemSpec => []MemInv
BY InitHolds, MemInductive, PTL DEF MemSpec
-----------------------------------------------------------------------------
(* Address spaces. *)

\* Whatever processes do at the same time and wherever memory runs out, the
\* address space of a process that can run has exactly the pages below its size,
\* none of them holds another's leavings, and what fork() has copied is the
\* parent's.
THEOREM SpacesSound == MemSpec => []AddressSpaces
<1>1. MemInv => AddressSpaces
  <2> SUFFICES ASSUME MemInv, NEW p \in Procs, proc[p].st = "run"
               PROVE  LET s == proc[p].s
                          c == proc[p].call
                          Below(n) == {i \in Pages : i * PGSIZE < n}
                      IN  /\ {i \in Pages : s.pte[i] # 0} = Below(IF c.k = "grow" /\ c.a > proc[p].sz THEN c.a ELSE proc[p].sz)
                          /\ \A i \in Pages : s.pte[i] # 0 => ram.holds[s.pte[i]] \in {ZERO, CODE} \cup proc[p].own
                          /\ c.k = "fork" /\ c.s # NoSpace =>
                               \A i \in Below(c.a) : /\ ram.holds[c.s.pte[i]] = ram.holds[s.pte[i]]
                                                     /\ i \in c.s.user <=> i \in s.user
    BY DEF AddressSpaces
  <2> DEFINE s == proc[p].s
             c == proc[p].call
             n == IF c.k = "grow" /\ c.a > proc[p].sz THEN c.a ELSE proc[p].sz
  <2>0. /\ Sized(proc[p]) /\ Content(p, proc[p], ram.holds) /\ proc[p].sz \in Nat /\ c.a \in Nat
    BY ProcFacts
  <2>1. n = IF c.k = "grow" THEN c.a ELSE proc[p].sz
    BY <2>0 DEF Sized
  <2>2. Mapped(s, n)
    BY <2>0, <2>1 DEF Sized
  <2> HIDE DEF n
  <2>3. {i \in Pages : s.pte[i] # 0} = {i \in Pages : i * PGSIZE < n}
    BY <2>2 DEF Mapped
  <2>4. \A i \in Pages : s.pte[i] # 0 => ram.holds[s.pte[i]] \in {ZERO, CODE} \cup proc[p].own
    BY <2>0 DEF Content, Filled
  <2>5. ASSUME c.k = "fork", NEW i \in Pages, i * PGSIZE < c.a
        PROVE  ram.holds[c.s.pte[i]] = ram.holds[s.pte[i]] /\ (i \in c.s.user <=> i \in s.user)
    <3>1. c.s.pte[i] # 0
      BY <2>0, <2>5 DEF Sized, Mapped
    <3> QED BY <2>0, <2>5, <3>1 DEF Content
  <2> QED BY <2>3, <2>4, <2>5 DEF n
<1> QED BY <1>1, MemInvariant, PTL
-----------------------------------------------------------------------------
(* Frames. *)

\* The uses of the frames of a space: each is of a frame of the space, no frame
\* has two, and every frame has one.
LEMMA UsesOfSpace ==
  ASSUME NEW x, NEW s \in Spaces, Once(s)
  PROVE  /\ \A u \in SpaceUses(x, s) : u[4] # 0 => u[4] \in FramesOf(s)
         /\ \A u, w \in SpaceUses(x, s) : u[4] # 0 /\ u[4] = w[4] => u = w
         /\ \A f \in FramesOf(s) : \E u \in SpaceUses(x, s) : u[4] = f
<1>1. /\ s.dir \in Frames0 /\ s.ktab \in Frames0 /\ \A t \in Tables : s.tab[t] \in Frames0
      /\ \A i \in Pages : s.pte[i] \in Frames0
  BY DEF Spaces
<1>2. \A u \in SpaceUses(x, s) :
        \/ u = <<x, "dir", 0, s.dir>> /\ u[4] = s.dir
        \/ u = <<x, "ktab", 0, s.ktab>> /\ u[4] = s.ktab
        \/ \E t \in Tables : u = <<x, "tab", t, s.tab[t]>> /\ u[4] = s.tab[t]
        \/ \E i \in Pages : u = <<x, "page", i, s.pte[i]>> /\ u[4] = s.pte[i]
  BY DEF SpaceUses
<1>3. /\ <<x, "dir", 0, s.dir>> \in SpaceUses(x, s)
      /\ <<x, "ktab", 0, s.ktab>> \in SpaceUses(x, s)
      /\ \A t \in Tables : <<x, "tab", t, s.tab[t]>> \in SpaceUses(x, s)
      /\ \A i \in Pages : <<x, "page", i, s.pte[i]>> \in SpaceUses(x, s)
  BY DEF SpaceUses
<1>4. \A u \in SpaceUses(x, s) : u[4] # 0 => u[4] \in FramesOf(s)
  <2> SUFFICES ASSUME NEW u \in SpaceUses(x, s), u[4] # 0 PROVE u[4] \in FramesOf(s)
    OBVIOUS
  <2>1. \/ u[4] = s.dir \/ u[4] = s.ktab \/ \E t \in Tables : u[4] = s.tab[t]
        \/ \E i \in Pages : u[4] = s.pte[i]
    BY <1>2
  <2>2. u[4] \in Frames
    BY <1>1, <2>1 DEF Frames0
  <2> QED BY <2>1, <2>2 DEF FramesOf
<1>5. ASSUME NEW u \in SpaceUses(x, s), NEW w \in SpaceUses(x, s), u[4] # 0, u[4] = w[4]
      PROVE  u = w
  <2>1. CASE u = <<x, "dir", 0, s.dir>> /\ u[4] = s.dir
    BY <1>2, <1>5, <2>1 DEF Once
  <2>2. CASE u = <<x, "ktab", 0, s.ktab>> /\ u[4] = s.ktab
    BY <1>2, <1>5, <2>2 DEF Once
  <2>3. CASE \E t \in Tables : u = <<x, "tab", t, s.tab[t]>> /\ u[4] = s.tab[t]
    BY <1>2, <1>5, <2>3 DEF Once
  <2>4. CASE \E i \in Pages : u = <<x, "page", i, s.pte[i]>> /\ u[4] = s.pte[i]
    BY <1>2, <1>5, <2>4 DEF Once
  <2> QED BY <1>2, <2>1, <2>2, <2>3, <2>4
<1>6. ASSUME NEW f \in FramesOf(s) PROVE \E u \in SpaceUses(x, s) : u[4] = f
  BY <1>3 DEF FramesOf
<1> QED BY <1>4, <1>5, <1>6

\* The uses of the frames of a holder.
UsesOf(o) ==
  IF o[1] = "kstack" THEN {<<o[2], "kstack", 0, proc[o[2]].kstack>>}
  ELSE IF o[1] = "s" THEN SpaceUses(o[2], proc[o[2]].s)
  ELSE SpaceUses(-o[2], proc[o[2]].call.s)

\* The uses of a holder's frames are as many as its frames.
LEMMA UsesOfHolder ==
  ASSUME MemInv, NEW o \in Holders
  PROVE  /\ \A u \in UsesOf(o) : u[4] # 0 => u[4] \in Held(proc, o)
         /\ \A u, w \in UsesOf(o) : u[4] # 0 /\ u[4] = w[4] => u = w
         /\ \A f \in Held(proc, o) : \E u \in UsesOf(o) : u[4] = f
<1>1. PICK k \in Kinds, p \in Procs : o = <<k, p>>
  BY DEF Holders
<1>2. k = "kstack" \/ k = "s" \/ k = "call"
  BY DEF Kinds
<1>3. /\ proc[p].s \in Spaces /\ proc[p].call.s \in Spaces /\ proc[p].kstack \in Frames0
      /\ Once(proc[p].s) /\ Once(proc[p].call.s)
  BY DEF MemInv, TypeInv, Sound, ProcSet, CallSet
<1>4. /\ Held(proc, <<"s", p>>) = FramesOf(proc[p].s)
      /\ Held(proc, <<"call", p>>) = FramesOf(proc[p].call.s)
      /\ Held(proc, <<"kstack", p>>) = {f \in Frames : f = proc[p].kstack}
  BY PartFacts
<1>5. CASE k = "kstack"
  <2>1. UsesOf(o) = {<<p, "kstack", 0, proc[p].kstack>>}
    BY <1>1, <1>5 DEF UsesOf
  <2>2. Held(proc, o) = {f \in Frames : f = proc[p].kstack}
    BY <1>1, <1>4, <1>5
  <2>3. \A u \in UsesOf(o) : u[4] = proc[p].kstack
    BY <2>1
  <2>4. \A u, w \in UsesOf(o) : u = w
    BY <2>1
  <2>5. proc[p].kstack # 0 => proc[p].kstack \in Frames
    BY <1>3 DEF Frames0
  <2>6. UsesOf(o) # {}
    BY <2>1
  <2> QED BY <2>2, <2>3, <2>4, <2>5, <2>6
<1>6. CASE k = "s"
  <2>1. UsesOf(o) = SpaceUses(p, proc[p].s) /\ Held(proc, o) = FramesOf(proc[p].s)
    BY <1>1, <1>4, <1>6 DEF UsesOf
  <2> QED BY <1>3, <2>1, UsesOfSpace
<1>7. CASE k = "call"
  <2>1. UsesOf(o) = SpaceUses(-p, proc[p].call.s) /\ Held(proc, o) = FramesOf(proc[p].call.s)
    BY <1>1, <1>4, <1>7 DEF UsesOf
  <2> QED BY <1>3, <2>1, UsesOfSpace
<1> QED BY <1>2, <1>5, <1>6, <1>7

\* What is in use is what the holders use.
LEMMA UsesSplit ==
  ASSUME NEW u
  PROVE  u \in Uses <=> u[4] # 0 /\ \E o \in Holders : u \in UsesOf(o)
<1>1. ASSUME u \in Uses PROVE u[4] # 0 /\ \E o \in Holders : u \in UsesOf(o)
  <2>1. PICK p \in Procs : \/ u \in {<<p, "kstack", 0, proc[p].kstack>>}
                           \/ u \in SpaceUses(p, proc[p].s)
                           \/ u \in SpaceUses(-p, proc[p].call.s)
    BY <1>1 DEF Uses
  <2>2. <<"kstack", p>> \in Holders /\ <<"s", p>> \in Holders /\ <<"call", p>> \in Holders
    BY DEF Holders, Kinds
  <2>3. /\ UsesOf(<<"kstack", p>>) = {<<p, "kstack", 0, proc[p].kstack>>}
        /\ UsesOf(<<"s", p>>) = SpaceUses(p, proc[p].s)
        /\ UsesOf(<<"call", p>>) = SpaceUses(-p, proc[p].call.s)
    BY DEF UsesOf
  <2>4. u[4] # 0
    BY <1>1 DEF Uses
  <2> QED BY <2>1, <2>2, <2>3, <2>4
<1>2. ASSUME u[4] # 0, NEW o \in Holders, u \in UsesOf(o) PROVE u \in Uses
  <2>1. PICK k \in Kinds, p \in Procs : o = <<k, p>>
    BY DEF Holders
  <2>2. \/ u \in {<<p, "kstack", 0, proc[p].kstack>>} \/ u \in SpaceUses(p, proc[p].s)
        \/ u \in SpaceUses(-p, proc[p].call.s)
    BY <1>2, <2>1 DEF UsesOf, Kinds
  <2> QED BY <1>2, <2>2 DEF Uses
<1> QED BY <1>1, <1>2

\* Whatever fork(), exec(), sbrk(), exit() and wait() do at the same time and
\* wherever memory runs out, every frame is free or has exactly one use, and none
\* is freed twice: no failure path of copyuvm(), allocuvm() or exec() loses or
\* shares a page.
THEOREM FramesAccounted == MemSpec => []FramesOnce
<1>1. MemInv => FramesOnce
  <2> SUFFICES ASSUME MemInv PROVE FramesOnce
    OBVIOUS
  <2>1. /\ ~ram.twice
        /\ \A o, q \in Holders, f \in Frames : f \in Held(proc, o) /\ f \in Held(proc, q) => o = q
        /\ \A o \in Holders, f \in Frames : f \in Held(proc, o) => f \notin ram.free
        /\ \A f \in Frames : f \in ram.free \/ \E o \in Holders : f \in Held(proc, o)
    BY DEF MemInv, Own
  <2>2. ram.free \subseteq Frames
    BY DEF MemInv, TypeInv, Memories
  <2>3. \A o \in Holders : Held(proc, o) \subseteq Frames
    BY DEF Held, Part, FramesOf
  <2>4. \A u \in Uses : \E o \in Holders : u \in UsesOf(o) /\ u[4] # 0 /\ u[4] \in Held(proc, o)
    BY UsesSplit, UsesOfHolder
  <2>5. \A u \in Uses : u[4] \in Frames \ ram.free
    BY <2>1, <2>3, <2>4
  <2>6. ASSUME NEW u \in Uses, NEW w \in Uses, u[4] = w[4] PROVE u = w
    <3>1. PICK o \in Holders : u \in UsesOf(o) /\ u[4] # 0 /\ u[4] \in Held(proc, o)
      BY <2>4
    <3>2. PICK q \in Holders : w \in UsesOf(q) /\ w[4] # 0 /\ w[4] \in Held(proc, q)
      BY <2>4
    <3>3. o = q
      BY <2>1, <2>3, <2>6, <3>1, <3>2
    <3> QED BY <2>6, <3>1, <3>2, <3>3, UsesOfHolder
  <2>7. ASSUME NEW f \in Frames \ ram.free PROVE \E u \in Uses : u[4] = f
    <3>1. PICK o \in Holders : f \in Held(proc, o)
      BY <2>1
    <3>2. PICK u \in UsesOf(o) : u[4] = f
      BY <3>1, UsesOfHolder
    <3>3. f # 0
      BY MemorySizes
    <3> QED BY <3>2, <3>3, UsesSplit
  <2> DEFINE F == [u \in Uses |-> u[4]]
  <2>8. F \in Injection(Uses, Frames \ ram.free)
    BY <2>5, <2>6 DEF Injection, IsInjective
  <2>9. F \in Surjection(Uses, Frames \ ram.free)
    BY <2>5, <2>7 DEF Surjection
  <2>10. IsFiniteSet(Frames \ ram.free) /\ IsFiniteSet(ram.free)
    BY <2>2, FS_Subset, MemorySizes
  <2> HIDE DEF F
  <2>11. Cardinality(Uses) = Cardinality(Frames \ ram.free)
    BY <2>8, <2>9, <2>10, FS_Injection
  <2>12. Cardinality(Frames) = Cardinality(Frames \ ram.free) + Cardinality(ram.free)
    <3> DEFINE A == Frames \ ram.free
    <3>1. A \cup ram.free = Frames /\ A \cap ram.free = {}
      BY <2>2
    <3>2. IsFiniteSet(A)
      BY <2>10
    <3> HIDE DEF A
    <3>3. Cardinality(A \cup ram.free) = Cardinality(A) + Cardinality(ram.free) - Cardinality(A \cap ram.free)
      BY <2>10, <3>2, FS_Union
    <3>4. Cardinality(A) \in Nat /\ Cardinality(ram.free) \in Nat
      BY <2>10, <3>2, FS_CardinalityType
    <3>5. Cardinality(A) + Cardinality(ram.free) - 0 = Cardinality(A) + Cardinality(ram.free)
      BY <3>4
    <3> QED BY <3>1, <3>3, <3>5, FS_EmptySet DEF A
  <2>13. {u[4] : u \in Uses} \cup ram.free = Frames
    BY <2>2, <2>5, <2>7
  <2> QED BY <2>1, <2>11, <2>12, <2>13 DEF FramesOnce
<1> QED BY <1>1, MemInvariant, PTL
=============================================================================

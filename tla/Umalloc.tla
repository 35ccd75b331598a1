------------------------------- MODULE Umalloc -------------------------------
(* malloc() and free() of os/5/umalloc.c, in units of sizeof(Header): a       *)
(* circular free list sorted by address, started at the static header base,   *)
(* over memory got from sbrk().  base lies below the heap.                    *)
EXTENDS Integers, FiniteSets

CONSTANTS HeapTop,     \* where sbrk() fails
          NALLOC,      \* 4096: the least morecore() asks for
          HEADER,      \* sizeof(Header)
          Sizes,       \* bytes malloc() is called with
          Breaks       \* units the program itself takes with sbrk()

VARIABLES hdr,         \* the word at every address, read as a header
          freep, brk,
          used,        \* blocks the program has, with their sizes
          other        \* units the program took with sbrk()

heapvars == <<hdr, freep, brk, used, other>>

base == 0
NULL == -1

\* Mutant: free() does not join the block to the one before it.
joinedNot(h, p, bp) == [h EXCEPT ![p].ptr = bp]

\* The second half of free(): bp, already linked on, follows p.
joined(h, p, bp) ==
    IF p + h[p].size = bp THEN [h EXCEPT ![p].size = @ + h[bp].size, ![p].ptr = h[bp].ptr]
    ELSE [h EXCEPT ![p].ptr = bp]

\* Where free() stops: bp lies between p and its successor, or p is the last.
RECURSIVE place(_, _, _)
place(h, p, bp) ==
    LET q == h[p].ptr IN
    IF (bp > p /\ bp < q) \/ (p >= q /\ (bp > p \/ bp < q)) THEN p ELSE place(h, q, bp)

\* free(): the headers and freep afterwards.
freed_at(h, fp, bp) ==
    LET p == place(h, fp, bp)
        q == h[p].ptr
        linked == IF bp + h[bp].size = q
                  THEN [h EXCEPT ![bp].size = @ + h[q].size, ![bp].ptr = h[q].ptr]
                  ELSE [h EXCEPT ![bp].ptr = q]
    IN  [h |-> joined(linked, p, bp), freep |-> p]

\* morecore(); p is NULL if there is no memory.
morecore(s, nu) ==
    LET n == IF nu < NALLOC THEN NALLOC ELSE nu
        f == freed_at([s.h EXCEPT ![s.brk].size = n], s.freep, s.brk)
    IN  IF s.brk + n > HeapTop THEN [s EXCEPT !.p = NULL]
        ELSE [h |-> f.h, freep |-> f.freep, brk |-> s.brk + n, p |-> f.freep]

\* The loop of malloc().
RECURSIVE search(_, _, _, _)
search(s, prevp, p, n) ==
    LET b == p + s.h[p].size - n
        m == morecore(s, n)
    IN  IF s.h[p].size = n
        THEN [s EXCEPT !.h[prevp].ptr = s.h[p].ptr, !.freep = prevp, !.p = p]
        ELSE IF s.h[p].size > n
        THEN [s EXCEPT !.h = [@ EXCEPT ![p].size = @ - n, ![b].size = n], !.freep = prevp, !.p = b]
        ELSE IF p # s.freep THEN search(s, p, s.h[p].ptr, n)
        ELSE IF m.p = NULL THEN m
        ELSE search(m, m.p, m.h[m.p].ptr, n)

nunits(nbytes) == (nbytes + HEADER - 1) \div HEADER + 1

malloc(nbytes) ==
    LET h == IF freep = NULL THEN [hdr EXCEPT ![base] = [ptr |-> base, size |-> 0]] ELSE hdr
        fp == IF freep = NULL THEN base ELSE freep
        s == search([h |-> h, freep |-> fp, brk |-> brk, p |-> fp], fp, h[fp].ptr, nunits(nbytes))
    IN  /\ hdr' = s.h /\ freep' = s.freep /\ brk' = s.brk
        /\ used' = IF s.p = NULL THEN used ELSE used \cup {<<s.p, nunits(nbytes)>>}
        /\ UNCHANGED other

free(bp) ==
    LET f == freed_at(hdr, freep, bp) IN
    /\ \E n \in 1 .. HeapTop : <<bp, n>> \in used
    /\ hdr' = f.h /\ freep' = f.freep
    /\ used' = {u \in used : u[1] # bp}
    /\ UNCHANGED <<brk, other>>

\* The program calls sbrk() itself, so that the heap gets a gap.
sbrk(n) ==
    /\ brk + n <= HeapTop
    /\ brk' = brk + n /\ other' = other \cup brk .. brk + n - 1
    /\ UNCHANGED <<hdr, freep, used>>

HeapInit ==
    /\ hdr = [a \in 0 .. HeapTop |-> [ptr |-> 0, size |-> 0]]
    /\ freep = NULL /\ brk = 1 /\ used = {} /\ other = {}

HeapNext ==
    \/ \E n \in Sizes : malloc(n)
    \/ \E u \in used : free(u[1])
    \/ \E n \in Breaks : sbrk(n)
------------------------------------------------------------------------------
\* The blocks on the free list.
RECURSIVE Listed(_, _)
Listed(p, S) == IF p \in S THEN S ELSE Listed(hdr[p].ptr, S \cup {p})

Units(p, n) == p .. p + n - 1

\* Whatever malloc() and free() did in which order: every unit of the heap is in
\* one block the program has, in one free block, or was never malloc()'s; the
\* headers of the program's blocks are intact; and the free list is one cycle in
\* the order of addresses in which no two blocks touch.
HeapSound ==
    freep # NULL =>
      LET F == Listed(freep, {})
          FreeUnits == UNION {Units(p, hdr[p].size) : p \in F \ {base}}
          UsedUnits == UNION {Units(u[1], u[2]) : u \in used}
      IN  /\ base \in F /\ \A u \in used : hdr[u[1]].size = u[2]
          /\ FreeUnits \cup UsedUnits \cup other = 1 .. brk - 1
          /\ Cardinality(FreeUnits) + Cardinality(UsedUnits) + Cardinality(other) = brk - 1
          /\ \A p \in F : LET q == hdr[p].ptr IN
               IF \E x \in F : x > p THEN q > p + hdr[p].size /\ ~\E x \in F : p < x /\ x < q ELSE q = base
=============================================================================

------------------------------- MODULE MCXv6 -------------------------------
(* Four parts of xv6 that share no state: the console and the memory of the  *)
(* kernel, malloc() and the shell's parser of its user programs.  A behaviour *)
(* is one of one of them.                                                    *)
EXTENDS Console, Memory, Umalloc, ShellParser

VARIABLE part

vars == <<part, convars, memvars, heapvars, line>>

Init ==
    /\ part \in {"console", "memory", "heap", "shell"}
    /\ ConInit /\ MemInit /\ HeapInit /\ ShInit

Next ==
    /\ UNCHANGED part
    /\ \/ part = "console" /\ ConNext /\ UNCHANGED <<memvars, heapvars, line>>
       \/ part = "memory" /\ MemNext /\ UNCHANGED <<convars, heapvars, line>>
       \/ part = "heap" /\ HeapNext /\ UNCHANGED <<convars, memvars, line>>
       \/ part = "shell" /\ getcmd /\ UNCHANGED <<convars, memvars, heapvars>>

Spec == Init /\ [][Next]_vars
------------------------------------------------------------------------------
(* Frames are alike: two states that differ only in which frame has which use *)
(* are one state to TLC.  The counts of free and used frames and of uses keep *)
(* a state with a lost, shared or freed page apart from the sound ones.       *)
(* Readers are alike as well, and no guard looks at what one got last.        *)
SpaceView(s) ==
    <<s.dir # 0, s.ktab # 0, [t \in Tables |-> s.tab[t] # 0], s.user,
      [i \in Pages |-> IF s.pte[i] = 0 THEN 0 ELSE ram.holds[s.pte[i]]]>>

ConsoleView == <<buf, r, w, e, pos, {<<rd[p], Cardinality({q \in Readers : rd[q] = rd[p]})>> : p \in Readers}>>

MemoryView ==
    <<ram.twice, Cardinality(ram.free), Cardinality(Uses), Cardinality({u[4] : u \in Uses} \cup ram.free),
      [p \in Procs |-> <<proc[p].st, proc[p].kstack # 0, proc[p].sz, proc[p].own, SpaceView(proc[p].s),
                         SpaceView(proc[p].call.s), [proc[p].call EXCEPT !.s = NoSpace]>>]>>

\* Only the headers of blocks are read.
HeapView ==
    <<freep, brk, other, {<<u, hdr[u[1]].size>> : u \in used},
      IF freep = NULL THEN {} ELSE {<<p, hdr[p]>> : p \in Listed(freep, {})}>>

View == <<part, CASE part = "console" -> ConsoleView [] part = "memory" -> MemoryView
                  [] part = "heap" -> HeapView [] OTHER -> line>>
=============================================================================

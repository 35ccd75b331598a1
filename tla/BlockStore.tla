----------------------------- MODULE BlockStore ------------------------------
(***************************************************************************)
(* What the buffer cache of xv6 (os/5/bio.c) promises: every disk block    *)
(* has one current contents, which at most one user at a time looks at or *)
(* changes, no matter how few buffers there are.  A user is a process with *)
(* one of the buffers it may have at a time.                               *)
(***************************************************************************)
CONSTANTS Users, Blocks, Vals, Nobody

VARIABLES
  contents,  \* current contents of every block
  owner      \* the user that has the block between bread() and brelse()

vars == <<contents, owner>>

Init ==
  /\ contents \in [Blocks -> Vals]
  /\ owner = [n \in Blocks |-> Nobody]

Get(u, n) ==
  /\ owner[n] = Nobody
  /\ owner' = [owner EXCEPT ![n] = u]
  /\ UNCHANGED contents

Change(u, n, v) ==
  /\ owner[n] = u
  /\ contents' = [contents EXCEPT ![n] = v]
  /\ UNCHANGED owner

Put(u, n) ==
  /\ owner[n] = u
  /\ owner' = [owner EXCEPT ![n] = Nobody]
  /\ UNCHANGED contents

Next ==
  \E u \in Users, n \in Blocks :
    Get(u, n) \/ Put(u, n) \/ \E v \in Vals : Change(u, n, v)

Spec == Init /\ [][Next]_vars
=============================================================================

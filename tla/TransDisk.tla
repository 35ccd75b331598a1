------------------------------ MODULE TransDisk ------------------------------
(***************************************************************************)
(* What the logging layer of xv6 (os/5/log.c) promises to the file system. *)
(*                                                                         *)
(* A system call brackets its updates with begin_op()/end_op().  Updates   *)
(* become durable in groups, only at moments when no system call is in     *)
(* the middle of its updates, and a crash throws away exactly the updates  *)
(* that were made since the last group became durable.                     *)
(***************************************************************************)
CONSTANTS
  Procs,    \* processes that make file system calls
  Blocks,   \* home block numbers the calls update
  Vals      \* contents of a block

VARIABLES
  current,  \* contents a running system sees, block by block
  durable,  \* contents the system has after a crash and a reboot
  active    \* processes between begin_op() and end_op()

vars == <<current, durable, active>>

Init ==
  /\ durable \in [Blocks -> Vals]
  /\ current = durable
  /\ active = {}

Begin(p) ==
  /\ p \notin active
  /\ active' = active \union {p}
  /\ UNCHANGED <<current, durable>>

Write(p, b, v) ==
  /\ p \in active
  /\ current' = [current EXCEPT ![b] = v]
  /\ UNCHANGED <<durable, active>>

End(p) ==
  /\ p \in active
  /\ active' = active \ {p}
  /\ UNCHANGED <<current, durable>>

\* All updates of all finished calls become durable in one step.
Commit ==
  /\ active = {}
  /\ durable' = current
  /\ UNCHANGED <<current, active>>

Crash ==
  /\ current' = durable
  /\ active' = {}
  /\ UNCHANGED durable

Next ==
  \/ \E p \in Procs : Begin(p) \/ End(p)
  \/ \E p \in Procs, b \in Blocks, v \in Vals : Write(p, b, v)
  \/ Commit
  \/ Crash

Spec == Init /\ [][Next]_vars
=============================================================================

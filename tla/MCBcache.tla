------------------------------ MODULE MCBcache -------------------------------
(***************************************************************************)
(* An instance of Bcache for TLC: one process has two hands, and reads a   *)
(* home block with a log block locked, as install_trans() does.            *)
(***************************************************************************)
EXTENDS Bcache

CONSTANTS p1, p2, logged, home

MCHands == [p \in Procs |-> IF p = p1 THEN 2 ELSE 1]
MCNested == {<<logged, home>>}

\* The disk before the first boot: written blocks differ from the others.
MCImage == [n \in Blocks |-> IF n \in Written THEN 0 ELSE 1]
=============================================================================

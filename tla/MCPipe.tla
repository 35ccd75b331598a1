-------------------------------- MODULE MCPipe --------------------------------
(***************************************************************************)
(* Instances of Pipe for TLC.                                              *)
(***************************************************************************)
EXTENDS Pipe, TLC

\* Processes on the same end are interchangeable.
Symmetry == Permutations(Readers) \union Permutations(Writers)
=============================================================================

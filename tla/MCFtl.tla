-------------------------------- MODULE MCFtl --------------------------------
(***************************************************************************)
(* Instances of Ftl for TLC.                                               *)
(***************************************************************************)
EXTENDS Ftl, TLC

\* The FTL does not look at the contents of a sector.
Symmetry == Permutations(Data)
=============================================================================

----------------------------- MODULE MCProcTable -----------------------------
(***************************************************************************)
(* Instances of ProcTable for TLC: the sizes are in the .cfg files.  Slots *)
(* are not interchangeable (the code scans them in order), and liveness is *)
(* checked, so there is no symmetry.                                       *)
(***************************************************************************)
EXTENDS ProcTable
=============================================================================

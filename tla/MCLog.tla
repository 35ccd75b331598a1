-------------------------------- MODULE MCLog --------------------------------
(***************************************************************************)
(* Instances of Log for TLC.  Log.cfg keeps the proportions of param.h and *)
(* mkfs.c: the log has LOGSIZE blocks with the header, and a call writes   *)
(* fewer blocks than begin_op() reserves.                                  *)
(***************************************************************************)
EXTENDS Log

\* The instance is one LogProofs speaks about.
ASSUME InstanceHasRoom == RoomEnough
=============================================================================

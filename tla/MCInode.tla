------------------------------- MODULE MCInode -------------------------------
(***************************************************************************)
(* Instances of Inode for TLC.                                             *)
(***************************************************************************)
EXTENDS Inode, TLC

CONSTANTS p1, p2

Call(op, path) == [op |-> op, path |-> path, new |-> <<>>]

\* One process makes and removes files and a directory; the other opens, links and
\* unlinks the same file, and visits the directory.
FileCalls ==
  p1 :> {Call("create", <<"f">>), Call("unlink", <<"f">>), Call("close", <<>>), Call("write", <<>>),
         Call("mkdir", <<"d">>), Call("unlink", <<"d">>), Call("create", <<"d", "f">>)}
  @@
  p2 :> {Call("open", <<"/", "f">>), Call("close", <<>>), Call("unlink", <<"g">>), Call("chdir", <<"d">>),
         [op |-> "link", path |-> <<"f">>, new |-> <<"g">>]}
=============================================================================

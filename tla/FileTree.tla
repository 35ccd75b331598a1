------------------------------ MODULE FileTree ------------------------------
(* The directory tree the tools of LinuxProgramming (P1, P2 and P3) search    *)
(* and delete from: the part of the file system they see through scandir(),   *)
(* lstat() or stat(), fopen(), remove() and rename().                         *)
(*                                                                            *)
(* An entry is a record: the directory it is in, its name, extension and stem *)
(* (the name without the extension), its kind, what lstat() reports (size,    *)
(* mtime, uid), the content of a file, the path sub a directory is known by,  *)
(* the path a symbolic link leads to; and what makes calls fail: unreadable   *)
(* (fopen() or scandir()), fixed (remove() and rename()), dev, the file       *)
(* system it is on, which rename() does not leave.  Contents are abstract     *)
(* values and a digest is the content itself: no collisions.                  *)
EXTENDS Integers, Sequences, FiniteSets, SequencesExt

CONSTANTS PathOrder,  \* the paths <<dir, name>> there can be, in strcmp() order
          TrashDir    \* the directory ~/.Trash

VARIABLES disk,      \* the set of entries that exist
          found,     \* the files the last search found
          chosen,    \* contents of the files a user named, or answered y for
          spared,    \* files taken off a list of the search that are still there
          spoilt     \* the lists of the search do not describe the disk

ftvars == <<disk, found, chosen, spared, spoilt>>

path(e) == <<e.dir, e.name>>
PathRank == [p \in ToSet(PathOrder) |-> CHOOSE i \in DOMAIN PathOrder : PathOrder[i] = p]
rank(p) == PathRank[p]
TrashFiles == TrashDir \o "/files"

\* scandir(dir, &namelist, NULL, alphasort), without "." and "..".
Listing(D, dir) ==
    LET S == {e \in D : e.dir = dir}
        before(f, e) == rank(path(f)) < rank(path(e))
    IN  IF \E d \in D : d.kind = "dir" /\ d.sub = dir /\ d.unreadable THEN <<>>
        ELSE [i \in 1 .. Cardinality(S) |->
                 CHOOSE e \in S : Cardinality({f \in S : before(f, e)}) = i - 1]

\* The directories that exist.
Dirs(D) == {e.sub : e \in {f \in D : f.kind = "dir"}}

\* remove() of the paths in P.  The callers ignore a failure: a path that is
\* gone, or one that cannot be deleted.
remove(D, P) == {e \in D : path(e) \notin P \/ e.fixed}

\* The paths of P that are on the disk.
Still(D, P) == {p \in P : \E e \in D : path(e) = p}

\* The removal of files a list then no longer has.
Delete(P) == /\ disk' = remove(disk, P)
             /\ spared' = spared \cup Still(disk', P)

\* rename() of path p into directory dir fails if p or dir is missing, if p may
\* not be moved, and from one file system to another.
CanRename(D, p, dir) ==
    \E e, d \in D : path(e) = p /\ ~e.fixed /\ d.kind = "dir" /\ d.sub = dir /\ d.dev = e.dev

\* rename() of p to a name in dir, over what has that name.
rename(D, p, dir, name) ==
    LET e == CHOOSE f \in D : path(f) = p IN
    {f \in D : path(f) \notin {p, <<dir, name>>}} \cup {[e EXCEPT !.dir = dir, !.name = name]}

Contents(D, P) == {e.content : e \in {f \in D : path(f) \in P}}

\* The files with content c.
Copies(D, c) == {e \in D : e.kind = "file" /\ e.content = c}

\* The groups of two or more equal files in F.
Groups(F) == {S \in {Copies(F, c) : c \in {e.content : e \in F}} : Cardinality(S) >= 2}

\* The last copy of a content goes only when the user named a file with it (d) or
\* answered y for one (i): the options f and t leave a copy, the most recent one.
\* Three ways round this are in the code, and the only ones: the lists do not
\* describe the disk (spoilt: see where it is set); every copy has mtime 0, which
\* get_recent_mtime() takes for no file; root's ~/.Trash/files is emptied.
CopyStays ==
    [][\A c \in {e.content : e \in disk} :
          Copies(disk, c) # {} /\ Copies(disk', c) = {}
          => \/ c \in chosen' \/ spoilt'
             \/ \A e \in Copies(disk, c) : e.mtime = 0 \/ e.dir = TrashFiles]_ftvars
=============================================================================

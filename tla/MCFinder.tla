------------------------------ MODULE MCFinder ------------------------------
(* The duplicate finders and the file index on small trees: one session of   *)
(* one of them.                                                              *)
EXTENDS Sfinder, Sdup, Sindex

VARIABLE program

Short == [md5 |-> <<>>, sha1 |-> <<>>]
Entry(kind, dir, name, ext, stem, size, content, mtime, uid, sub) ==
    [kind |-> kind, dir |-> dir, name |-> name, ext |-> ext, stem |-> stem, size |-> size, content |-> content,
     mtime |-> mtime, uid |-> uid, sub |-> sub, target |-> <<>>, cut |-> Short,
     unreadable |-> FALSE, fixed |-> FALSE, dev |-> 1]
File(dir, name, ext, size, content, mtime, uid) ==
    Entry("file", dir, name, ext, name, size, content, mtime, uid, "")
Dir(dir, name, sub) == Entry("dir", dir, name, "", name, 4096, "", 1, 0, sub)
Link(dir, name, ext, target) ==
    [Entry("link", dir, name, ext, name, 7, "", 1, 0, "") EXCEPT !.target = target]

Trash == Dir("/h", ".Trash", "/h/.Trash")
A1 == File("/h", "a.c", "c", 1000, "A", 5, 1)
A2 == File("/h", "b.c", "c", 1000, "A", 7, 2)
A3 == File("/h/s", "a.c", "c", 1000, "A", 7, 0)
B1 == File("/h/d", "a.c", "c", 1024, "B", 7, 1)
B2 == File("/h/d", "b.h", "h", 1024, "B", 8, 1)
Tree == {Dir("/", "h", "/h"), Dir("/h", "d", "/h/d"), Dir("/h", "s", "/h/s"), File("/h", "e", "", 0, "E", 4, 1)}
MCDisk == Tree \cup {Trash, A1, A2, A3, B1, B2}

\* Files that cannot be read or deleted, another file system below /h/s, and a
\* directory that cannot be read.  The path of the files in /h/d is taken to be
\* longer than a digest.
Cut(e) == [e EXCEPT !.unreadable = TRUE,
               !.cut = [fnc \in {"md5", "sha1"} |-> [hash |-> <<"cut", "/h/d">>, path |-> <<"", e.name>>]]]
Awkward == Tree \cup {Trash, A1, [A2 EXCEPT !.fixed = TRUE], [A3 EXCEPT !.dev = 2], Cut(B1), Cut(B2),
               [Dir("/h", "u", "/h/u") EXCEPT !.unreadable = TRUE], File("/h/u", "a.c", "c", 1000, "A", 9, 1)}
\* Files without a date, and a directory nothing can be made in.
Undated == {IF e = Dir("/", "h", "/h") THEN [e EXCEPT !.fixed = TRUE] ELSE e : e \in Tree}
               \cup {Trash, [A1 EXCEPT !.mtime = 0], [A2 EXCEPT !.mtime = 0]}
\* A trash can that is in use, and the names files are moved to taken.
Filled == Tree \cup {Trash, A1, A2, Dir("/h/.Trash", "files", "/h/.Trash/files"),
              File("/h/.Trash/files", "a.c", "c", 1000, "A", 6, 1), File("/h/.Trash", "filesa.c", "c", 1000, "Z", 6, 1)}
\* Symbolic links to a directory, to a file and to nothing; no trash can.
Linked == Tree \cup {A1, A2, B1, Link("/h", "k", "", <<"/h", "d">>), Link("/h", "l.c", "c", <<"/h", "a.c">>),
              Link("/h", "x", "", <<"/h", "y">>)}
MCDisks == {MCDisk, Awkward, Undated, Filled, Linked}

\* The paths there are or can be, as strcmp() orders them.
In(dir, names) == [i \in DOMAIN names |-> <<dir, names[i]>>]
MCPathOrder ==
    In("/", <<"h">>) \o In("/h", <<".Trash">>)
    \o In("/h/.Trash", <<"1a.c", "1b.c", "1b.h", "2a.c", "2b.c", "2b.h", "files">>) \o In("/h/.Trash/files", <<"a.c">>)
    \o In("/h/.Trash", <<"filesa.c", "filesb.c", "filesb.h">>)
    \o In("/h", <<".ssu_sdup_trash">>) \o In("/h/.ssu_sdup_trash", <<"a.c", "b.c", "b.h", "filesa.c", "l.c">>)
    \o In("/h", <<"a.c", "b.c", "d">>) \o In("/h/d", <<"a", "a.c", "b.h", "c", "s">>) \o In("/h/d/s", <<"a", "b">>)
    \o In("/h", <<"e">>) \o In("/h/e", <<"d">>) \o In("/h/e/d", <<"a", "b", "c", "s">>) \o In("/h/e/d/s", <<"b">>)
    \o In("/h/e/d", <<"t">>) \o In("/h", <<"k">>) \o In("/h/k", <<"a.c">>) \o In("/h", <<"l.c", "s">>)
    \o In("/h/s", <<"a.c">>) \o In("/h", <<"u">>) \o In("/h/u", <<"a.c">>) \o In("/h", <<"x">>) \o In("", <<"a.c", "b.h">>)

Pat(s, d, e) == [opt |-> "e", arg |-> [star |-> s, dot |-> d, ext |-> e]]
All == Pat(TRUE, FALSE, "")
Size(o, n, d, u) == [opt |-> o, arg |-> [tilde |-> FALSE, dot |-> FALSE, num |-> n, den |-> d, unit |-> u]]
Tilde(o) == [opt |-> o, arg |-> [tilde |-> TRUE, dot |-> FALSE, num |-> 0, den |-> 1, unit |-> "none"]]
At(d) == [opt |-> "d", arg |-> d]
Threads(n) == [opt |-> "t", arg |-> n]

MCSearches ==
    {<<All, Tilde("l"), Tilde("h"), At("/h")>>,
     <<Pat(TRUE, TRUE, "c"), Tilde("l"), Tilde("h"), At("/h"), Threads(5)>>,
     <<All, Size("l", 3, 2, "kb"), Size("h", 1, 1, "kib"), At("/h")>>,
     <<All, Size("l", 1, 1, "kib"), Size("h", 1, 1, "gib"), At("/h")>>,
     <<All, Threads(6), Size("h", 1, 1, "xb"), At("/h")>>,
     <<All, At("/none")>>, <<Pat(TRUE, TRUE, ""), At("/h")>>}

Star == [star |-> TRUE, dot |-> FALSE, ext |-> ""]
Cmd(p, l, h, d) == [pat |-> p, min |-> l.arg, max |-> h.arg, dir |-> d]
MCCommands ==
    {Cmd(Star, Tilde("l"), Tilde("h"), "/h"), Cmd(Star, Size("l", 1024, 1, "none"), Tilde("h"), "/h"),
     Cmd([Star EXCEPT !.dot = TRUE, !.ext = "c"], Tilde("l"), Size("h", 1, 1, "kb"), "/h"),
     Cmd([Star EXCEPT !.star = FALSE], Tilde("l"), Tilde("h"), "/h"),
     Cmd(Star, Size("l", 3, 2, "kb"), Tilde("h"), "/h"), Cmd(Star, Size("l", 1, 1, "gb"), Tilde("h"), "/h"), Cmd(Star, Tilde("l"), Tilde("h"), "/none")}

IndexDisk == {Dir("/", "h", "/h"), Dir("/h", "d", "/h/d"), Dir("/h", "e", "/h/e"), Dir("/h/e", "d", "/h/e/d"),
              File("/h/d", "a", "", 3, "A", 1, 1), File("/h/d", "c", "", 2, "B", 1, 1),
              Dir("/h/d", "s", "/h/d/s"), File("/h/d/s", "a", "", 4, "C", 1, 1), File("/h/d/s", "b", "", 2, "C", 1, 1),
              File("/h/e/d", "a", "", 2, "B", 1, 1), File("/h/e/d", "b", "", 2, "B", 1, 1),
              Dir("/h/e/d", "c", "/h/e/d/c"), Dir("/h/e/d", "s", "/h/e/d/s"),
              File("/h/e/d/s", "b", "", 4, "A", 1, 1), File("/h/e/d", "t", "", 3, "A", 1, 1)}
MCNameOrder == [n \in {"a", "b", "c", "d", "e", "h", "s", "t"} |->
                   CHOOSE i \in 1 .. 8 : <<"a", "b", "c", "d", "e", "h", "s", "t">>[i] = n]
TextLine(t, u) == [text |-> t, upper |-> u]
MCTexts == SeqOf({TextLine("a", FALSE), TextLine("b", FALSE)}, 4)
              \cup SeqOf({TextLine("a", FALSE), TextLine("a", TRUE), TextLine("b", FALSE)}, 3)

Init ==
    /\ program \in {"sfinder", "sdup", "sindex"}
    /\ IF program = "sindex" THEN disk = IndexDisk ELSE disk \in MCDisks
    /\ found = {} /\ chosen = {} /\ spared = {} /\ spoilt = FALSE
    /\ SfInit /\ SdInit /\ SiInit
    /\ opt.root => program = "sfinder" /\ disk \in {MCDisk, Filled}
Next ==
    \/ program = "sfinder" /\ SfNext /\ UNCHANGED <<program, sdvars, sivars>>
    \/ program = "sdup" /\ SdNext /\ UNCHANGED <<program, sfvars, sivars>>
    \/ program = "sindex" /\ SiNext /\ UNCHANGED <<program, sfvars, sdvars>>
Spec == Init /\ [][Next]_<<program, ftvars, sfvars, sdvars, sivars>>
=============================================================================

------------------------------- MODULE Sindex -------------------------------
(* LinuxProgramming/P1_20192380/ssu_sindex.c: find [FILENAME] [PATH] lists    *)
(* the files or directories below PATH that have the name and size of         *)
(* FILENAME; an index then compares one of them with it, as diff does.        *)
(*                                                                            *)
(* A file is a sequence of lines.  A line is a record of its text, letters    *)
(* folded, and whether it is in upper case, which option i ignores; a last    *)
(* line without newline is a different text.                                  *)
EXTENDS FileTree

CONSTANTS Texts,     \* the contents of the files compared
          NameOrder  \* the strcmp() order of the names

VARIABLES si_mode,   \* "main", "prompt", "shown", "crashed"
          origin,    \* the entry find was given
          filelist,  \* what it found, from index 0 on
          compared,  \* the two contents compared last
          options,   \* the options r, q, s, i given
          output     \* what the last comparison printed

sivars == <<si_mode, origin, filelist, compared, options, output>>

NoEntry == [kind |-> "none", dir |-> "", name |-> "", size |-> 0, sub |-> ""]
Silent == [says |-> "nothing", script |-> <<>>, lines |-> <<>>]

------------------------------------------------------------------------------
\* The search.

RECURSIVE get_directory_size(_)
get_directory_size(dir) ==
    LET S == Listing(disk, dir) IN
    FoldLeft(LAMBDA n, e : n + IF e.kind = "dir" THEN get_directory_size(e.sub) ELSE e.size, 0, S)

Sized(e) == IF e.kind = "dir" THEN get_directory_size(e.sub) ELSE e.size

\* Below every directory, the origin excepted; an origin directory is not entered.
RECURSIVE read_directory(_, _, _)
read_directory(depth, dir, o) ==
    LET one(e) == IF path(e) = path(o) THEN <<>>
                  ELSE (IF e.kind = o.kind /\ e.name = o.name /\ Sized(e) = Sized(o)
                        THEN <<[entry |-> e, depth |-> depth]>> ELSE <<>>)
                       \o (IF e.kind = "dir" THEN read_directory(depth + 1, e.sub, o) ELSE <<>>)
        S == Listing(disk, dir)
    IN  FlattenSeq([i \in DOMAIN S |-> one(S[i])])

compare_depth(a, b) == a.depth < b.depth \/ (a.depth = b.depth /\ rank(path(a.entry)) < rank(path(b.entry)))

command_find(o, dir) ==
    LET all == SortSeq(read_directory(0, dir, o), compare_depth)
    IN  /\ si_mode = "main" /\ dir \in Dirs(disk)
        /\ origin' = o
        /\ filelist' = IF all = <<>> THEN <<>> ELSE <<[entry |-> o, depth |-> -1]>> \o all
        /\ si_mode' = IF all = <<>> THEN "main" ELSE "prompt"
        /\ UNCHANGED <<ftvars, compared, options, output>>

------------------------------------------------------------------------------
\* The comparison of two files.

Same(a, b, i) == a.text = b.text /\ (i \/ a.upper = b.upper)

\* arr[i][j]: the longest common subsequence of the first i and j lines.
RECURSIVE arr(_, _, _, _, _)
arr(o, n, i, j, ic) ==
    IF i = 0 \/ j = 0 THEN 0
    ELSE IF Same(o[i], n[j], ic) THEN arr(o, n, i - 1, j - 1, ic) + 1
    ELSE LET up == arr(o, n, i - 1, j, ic)
             left == arr(o, n, i, j - 1, ic)
         IN  IF up >= left THEN up ELSE left

\* The pairs of lines marked common, walking back from the ends.
RECURSIVE common(_, _, _, _, _)
common(o, n, i, j, ic) ==
    IF arr(o, n, i, j, ic) = 0 THEN {}
    ELSE IF Same(o[i], n[j], ic) THEN {<<i, j>>} \cup common(o, n, i - 1, j - 1, ic)
    ELSE IF arr(o, n, i - 1, j, ic) > arr(o, n, i, j - 1, ic) THEN common(o, n, i - 1, j, ic)
    ELSE common(o, n, i, j - 1, ic)

\* The blocks of common lines, from the marks alone: the k-th mark of one file
\* need not be known to belong to the k-th of the other.
RECURSIVE find_diff_block(_, _, _, _, _, _)
find_diff_block(oc, nc, ot, nt, at, st) ==
    LET i == at[1]
        j == at[2]
        both == i \in oc /\ j \in nc
        closed == IF st.open THEN [st EXCEPT !.open = FALSE, !.blocks[Len(st.blocks)] =
                                     [@ EXCEPT !.oe = i - 1, !.ne = j - 1]]
                  ELSE st
        opened == IF st.open THEN st
                  ELSE [open |-> TRUE, blocks |-> Append(st.blocks, [os |-> i, ns |-> j, oe |-> 0, ne |-> 0])]
    IN  IF i > ot \/ j > nt THEN st.blocks
        ELSE IF both THEN find_diff_block(oc, nc, ot, nt, <<i + 1, j + 1>>, opened)
        ELSE find_diff_block(oc, nc, ot, nt,
                <<IF i \in oc THEN i ELSE i + 1, IF j \in nc THEN j ELSE j + 1>>, closed)

changeShort(b, c) ==
    LET o == c.os - b.oe > 1
        n == c.ns - b.ne > 2
        flag == IF o THEN (IF n THEN "c" ELSE "d") ELSE (IF n THEN "a" ELSE "")
    IN  [flag |-> flag, o_start |-> b.oe, o_end |-> c.os, n_start |-> b.ne, n_end |-> c.ns]

\* One change: lines os+1 .. oe-1 of the old file by ns+1 .. ne-1 of the new.
change(b, c) ==
    LET o == c.os - b.oe > 1
        n == c.ns - b.ne > 1
        flag == IF o THEN (IF n THEN "c" ELSE "d") ELSE (IF n THEN "a" ELSE "")
    IN  [flag |-> flag, o_start |-> b.oe, o_end |-> c.os, n_start |-> b.ne, n_end |-> c.ns]

print_diff(blocks, ot, nt) ==
    LET all == <<[os |-> 0, ns |-> 0, oe |-> 0, ne |-> 0]>> \o blocks \o <<[os |-> ot, ns |-> nt, oe |-> ot, ne |-> nt]>>
    IN  SelectSeq([k \in 1 .. Len(all) - 1 |-> change(all[k], all[k + 1])], LAMBDA h : h.flag # "")

find_diff(o, n, ic) ==
    LET marks == common(o, n, Len(o), Len(n), ic)
        blocks == find_diff_block({m[1] : m \in marks}, {m[2] : m \in marks}, Len(o) + 1, Len(n) + 1,
                                  <<1, 1>>, [open |-> FALSE, blocks |-> <<>>])
        same == Len(o) = Len(n) /\ Len(o) = arr(o, n, Len(o), Len(n), ic)
    IN  IF same THEN <<>> ELSE print_diff(blocks, Len(o) + 1, Len(n) + 1)

compare_file(o, n, opts) ==
    LET script == find_diff(o, n, "i" \in opts) IN
    IF script = <<>> THEN [Silent EXCEPT !.says = IF "s" \in opts THEN "identical" ELSE "nothing"]
    ELSE IF "q" \in opts THEN [Silent EXCEPT !.says = "differ"]
    ELSE [Silent EXCEPT !.says = "script", !.script = script]

------------------------------------------------------------------------------
\* The comparison of two directories, merging the two sorted listings.

only(e) == [says |-> "only", dirs |-> {e.dir}, name |-> e.name]

\* What is left of one listing when the other has ended.
rest(A, i) == [k \in 1 .. Len(A) - i + 1 |-> only(A[i + k - 1])]

belowSame(a, b) == <<a.sub, a.sub>>
\* Two subdirectories of the same name, compared in turn with option r.
below(a, b) == <<a.sub, b.sub>>

RECURSIVE compare_directory(_, _, _)
compare_directory(d1, d2, r) ==
    LET A == Listing(disk, d1)
        B == Listing(disk, d2)
        pair(a, b) ==
            LET line(what) == <<[says |-> what, dirs |-> {d1, d2}, name |-> a.name]>>
                b2 == below(a, b)
            IN
            CASE a.kind = "dir" /\ b.kind = "dir" ->
                    IF r THEN compare_directory(b2[1], b2[2], r) ELSE line("common")
              [] a.kind # b.kind -> line("kinds")
              [] OTHER -> line("compared")
        RECURSIVE merge(_, _)
        merge(i, j) ==
            IF i > Len(A) THEN rest(B, j)
            ELSE IF j > Len(B) THEN rest(A, i)
            ELSE CASE NameOrder[A[i].name] < NameOrder[B[j].name] -> <<only(A[i])>> \o merge(i + 1, j)
                   [] NameOrder[B[j].name] < NameOrder[A[i].name] -> <<only(B[j])>> \o merge(i, j + 1)
                   [] OTHER -> pair(A[i], B[j]) \o merge(i + 1, j + 1)
    IN  merge(1, 1)

\* >> idx options: the check lets list_index pass, one past the last element.
index_files(idx, opts, o, n) ==
    /\ si_mode = "prompt" /\ origin.kind = "file" /\ idx \in 1 .. Len(filelist)
    /\ idx = 1 => o = n
    /\ compared' = <<o, n>>
    /\ options' = opts
    /\ output' = compare_file(o, n, opts)
    /\ si_mode' = "shown"
    /\ UNCHANGED <<ftvars, origin, filelist>>

index_dirs(idx, opts) ==
    /\ si_mode = "prompt" /\ origin.kind = "dir" /\ idx \in 1 .. Len(filelist)
    /\ options' = opts
    /\ output' = [Silent EXCEPT !.says = "directories",
                     !.lines = compare_directory(origin.sub, filelist[idx].entry.sub, "r" \in opts)]
    /\ filelist' = <<filelist[1], filelist[idx]>>
    /\ si_mode' = "shown"
    /\ UNCHANGED <<ftvars, origin, compared>>

\* The end of command_find(): the list and the options are reset.
index_done == /\ si_mode = "shown"
              /\ si_mode' = "main" /\ origin' = NoEntry /\ filelist' = <<>> /\ compared' = <<>>
              /\ options' = {} /\ output' = Silent
              /\ UNCHANGED ftvars

index_past == /\ si_mode = "prompt"
              /\ si_mode' = "crashed"
              /\ UNCHANGED <<ftvars, origin, filelist, compared, options, output>>
------------------------------------------------------------------------------
SiInit ==
    /\ si_mode = "main" /\ origin = NoEntry /\ filelist = <<>> /\ compared = <<>>
    /\ options = {} /\ output = Silent

SiNext ==
    \/ \E o \in disk, dir \in Dirs(disk) : command_find(o, dir)
    \/ si_mode = "prompt" /\ \E idx \in DOMAIN filelist, opts \in {{}, {"i"}, {"q", "s"}}, o, n \in Texts : index_files(idx, opts, o, n)
    \/ \E idx \in DOMAIN filelist, opts \in {{}, {"r"}} : index_dirs(idx, opts)
    \/ index_past \/ index_done
------------------------------------------------------------------------------
\* The old file with the changes of the script made.
Patched(o, n, script) ==
    LET part(k) == LET h == script[k]
                       from == IF k = 1 THEN 0 ELSE script[k - 1].o_end - 1
                   IN  SubSeq(o, from + 1, h.o_start) \o SubSeq(n, h.n_start + 1, h.n_end - 1)
        end == SubSeq(o, script[Len(script)].o_end, Len(o))
    IN  FlattenSeq([k \in DOMAIN script |-> part(k)]) \o end

Alike(s, t, ic) == Len(s) = Len(t) /\ \A k \in DOMAIN s : Same(s[k], t[k], ic)

\* The longest common subsequence, by its definition.
Longest(o, n, ic) ==
    LET subs(s) == {[k \in 1 .. Cardinality(I) |-> s[CHOOSE x \in I : Cardinality({y \in I : y <= x}) = k]] : I \in SUBSET DOMAIN s}
    IN  CHOOSE k \in 0 .. Len(o) : /\ \E s \in subs(o), t \in subs(n) : Len(s) = k /\ Alike(s, t, ic)
                                   /\ \A s \in subs(o), t \in subs(n) : Alike(s, t, ic) => Len(s) <= k

\* The changes a comparison prints turn the old file into the new one (up to case
\* with option i), and print no more lines than a shortest such script; nothing
\* is printed only for files that are alike.
DiffPatches ==
    compared # <<>> /\ output.says \in {"script", "identical", "differ", "nothing"} =>
        LET o == compared[1]
            n == compared[2]
            ic == "i" \in options
            sum(F(_)) == FoldLeft(LAMBDA x, h : x + F(h), 0, output.script)
        IN  /\ output.says = "script" =>
                  /\ Alike(Patched(o, n, output.script), n, ic)
                  /\ sum(LAMBDA h : h.o_end - h.o_start - 1 + h.n_end - h.n_start - 1)
                        = Len(o) + Len(n) - 2 * Longest(o, n, ic)
            /\ output.says \in {"identical", "nothing"} <=> Alike(o, n, ic)

\* The pairs of directories a comparison goes into: the two named and, with
\* option r, the subdirectories of the same name below them.
RECURSIVE PairsBelow(_, _, _)
PairsBelow(d1, d2, r) ==
    {<<d1, d2>>} \cup
    (IF ~r THEN {}
     ELSE UNION {PairsBelow(p[1].sub, p[2].sub, r) :
                    p \in {q \in disk \X disk : /\ q[1].dir = d1 /\ q[2].dir = d2 /\ q[1].name = q[2].name
                                                /\ q[1].kind = "dir" /\ q[2].kind = "dir"}})

\* The listing of two directories is the merge of both: for every pair of
\* directories the comparison goes into (with option r the shared subdirectories
\* at every depth), each name of either is mentioned exactly once, as one side's
\* only if the other has none, but for the names of the directories entered; and
\* nothing else is mentioned.
DirectoriesMerged ==
    output.says = "directories" =>
        LET r == "r" \in options
            pairs == PairsBelow(filelist[1].entry.sub, filelist[2].entry.sub, r)
            names(d) == {e.name : e \in {f \in disk : f.dir = d}}
            entered(d) == {e.name : e \in {f \in disk : f.dir = d /\ f.kind = "dir"}}
            lines(p) == SelectSeq(output.lines, LAMBDA l : l.dirs \subseteq {p[1], p[2]})
            told(p) == (names(p[1]) \cup names(p[2])) \ (IF r THEN entered(p[1]) \cap entered(p[2]) ELSE {})
        IN  /\ \A l \in ToSet(output.lines) : \E p \in pairs : l.dirs \subseteq {p[1], p[2]}
            /\ \A p \in pairs :
                  /\ {l.name : l \in ToSet(lines(p))} = told(p)
                  /\ Len(lines(p)) = Cardinality(told(p))
                  /\ \A l \in ToSet(lines(p)) :
                        l.says = "only" <=> l.name \notin names(p[1]) \cap names(p[2])
                  /\ \A l \in ToSet(lines(p)) : \A d \in l.dirs : l.name \in names(d)
=============================================================================

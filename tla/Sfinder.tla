------------------------------- MODULE Sfinder -------------------------------
(* The duplicate finder of LinuxProgramming/P3_20192380: the prompt of        *)
(* ssu_sfinder.c, the searches fmd5 and fsha1, the delete prompt they end in, *)
(* and the commands list, trash and restore of ssu_sfinder.h.                 *)
(*                                                                            *)
(* A linked list with its dummy head is a sequence whose first element is the *)
(* head; the empty sequence is a null head pointer.  The head is kept because *)
(* sorting turns list elements into heads, and because the heads of a new     *)
(* dups_list_h and of a new list of directories are memory that malloc()      *)
(* returned and nothing cleared.                                              *)
EXTENDS FileTree

CONSTANTS Searches,     \* the option lists a user gives to fmd5 and fsha1
          MaxSearches   \* bound: searches in one session

VARIABLES mode,        \* "main", "delete" (the >> prompt), "ask" ([y/n]), "end"
          dups_list_h, trash_list_h,
          opt,         \* the globals extension, minbsize, maxbsize, thread_num and
                       \* trash_path; root: getuid() is 0; dirs: what the next
                       \* pointers of the freed list nodes of directories lead to
          ask,         \* -i: the set, the next file asked about, questions left
          freed,       \* a set node has been freed: malloc() may return it
          now,         \* CLOCK_REALTIME
          searches

sfvars == <<mode, dups_list_h, trash_list_h, opt, ask, freed, now, searches>>

SIZE_ERROR == -2
NoAsk == [set |-> 0, at |-> 0, left |-> 0]

Unit == [none |-> 1, kb |-> 1000, mb |-> 1000000, gb |-> 1000000000,
         kib |-> 1024, mib |-> 1048576, gib |-> 1073741824]

\* A size is "~", or num/den in a unit; dot: a '.' no digit follows.
get_size(a) ==
    IF a.tilde THEN -1
    ELSE IF a.dot \/ a.unit \notin DOMAIN Unit THEN SIZE_ERROR
    ELSE (a.num * Unit[a.unit]) \div a.den

------------------------------------------------------------------------------
\* Lists.

\* A path that lstat() does not find leaves the rest of a cleared node as it is.
NoInfo == [path |-> <<>>, size |-> 0, uid |-> 0, mtime |-> 0]
Info(p) == IF \E e \in disk : path(e) = p
           THEN LET e == CHOOSE f \in disk : path(f) = p
                IN  [path |-> p, size |-> e.size, uid |-> e.uid, mtime |-> e.mtime]
           ELSE [NoInfo EXCEPT !.path = p]

Head0(next) == <<[filesize |-> 0, hash |-> <<>>, files |-> <<>>]>> \o next

fileinfo_append(head, info) == Append(head, info)
fileinfo_delete_node(head, p) ==
    <<head[1]>> \o RemoveFirstMatch(Tail(head), LAMBDA i : i.path = p)
list_size(head) == Len(head) - 1

\* A new set goes before the first set that is not smaller.
filelist_append(head, filesize, info, hash) ==
    LET k == 1 + Cardinality({i \in 2 .. Len(head) :
                    \A j \in 2 .. i : head[j].filesize < filesize})
        set == [filesize |-> filesize, hash |-> hash, files |-> <<NoInfo, info>>]
    IN  InsertAt(head, k + 1, set)

filelist_delete_node(head, hash) ==
    <<head[1]>> \o RemoveFirstMatch(Tail(head), LAMBDA s : s.hash = hash)

\* The index of the first set with the hash, counting the head as 0; 0 if none.
filelist_search(head, hash) ==
    LET same == {i \in DOMAIN head : head[i].hash = hash} IN
    IF same = {} THEN 0 ELSE (CHOOSE i \in same : \A j \in same : i <= j) - 1

------------------------------------------------------------------------------
\* fmd5() and fsha1().

get_opt(g, o) ==
    IF g.bad THEN g
    ELSE CASE o.opt = "e" -> [g EXCEPT !.temp = o.arg]
           [] o.opt = "l" -> [g EXCEPT !.minb = IF get_size(o.arg) = -1 THEN 0 ELSE get_size(o.arg)]
           [] o.opt = "h" -> [g EXCEPT !.maxb = get_size(o.arg)]
           [] o.opt = "d" -> [g EXCEPT !.dir = o.arg]
           [] o.opt = "t" -> [g EXCEPT !.thread = o.arg, !.bad = o.arg \notin 1 .. 5]

\* The globals after the options, and whether the search goes ahead.  Without -e
\* or -d the local buffer is uninitialised: Searches gives every such call any
\* pattern or a directory that does not exist.
check_args(options) ==
    LET g == FoldLeft(get_opt, [opt EXCEPT !.bad = FALSE], options)
        h == IF ~g.bad /\ g.temp.star /\ g.temp.dot THEN [g EXCEPT !.extension = g.temp.ext] ELSE g
    IN  [h EXCEPT !.bad = \/ g.bad
                          \/ ~g.temp.star
                          \/ g.temp.dot /\ g.temp.ext = ""
                          \/ SIZE_ERROR \in {g.minb, g.maxb}
                          \/ g.maxb # -1 /\ g.minb > g.maxb
                          \/ g.dir \notin Dirs(disk)]

\* The size limits apply to directories as well; trash_path is empty until the
\* first search is over.
traversed(e, g) ==
    /\ ~(e.kind = "dir" /\ e.sub \in {"/proc", "/run", "/sys", g.trash_path})
    /\ e.size # 0 /\ e.size >= g.minb
    /\ g.maxb # -1 => e.size <= g.maxb

seen(dirlist, g) ==
    SelectSeq(FlattenSeq([i \in DOMAIN dirlist |-> Listing(disk, dirlist[i])]), LAMBDA e : traversed(e, g))

\* The lists of directories, level by level; each is freed in the end.
RECURSIVE levels(_, _)
levels(dirlist, g) ==
    IF dirlist = <<>> THEN <<>>
    ELSE LET subdirs == SelectSeq(seen(dirlist, g), LAMBDA e : e.kind = "dir")
         IN  <<dirlist>> \o levels([i \in DOMAIN subdirs |-> subdirs[i].sub], g)

\* The files with a line in same_size_files_dir; lstat() makes a symbolic link
\* neither a file nor a directory.  (The lines are written to files in the home
\* directory, which may be searched itself; no two of those are ever equal.)
dir_traverse(dirlists, g) ==
    SelectSeq(FlattenSeq([k \in DOMAIN dirlists |-> seen(dirlists[k], g)]),
              LAMBDA e : e.kind = "file" /\ g.extension \in {"", e.ext})

\* What is read from the line of a file.  If fopen() failed in the hash function
\* the line is a space and the path: cut gives its first hash_max - 1 characters,
\* taken for the hash, and what follows one further on, taken for the path.  (A
\* path too short for that has a "hash" like no other, and is dropped with it.)
Line(fnc, e) == IF e.unreadable THEN e.cut[fnc] ELSE [hash |-> <<fnc, e.content>>, path |-> path(e)]

insert_dup(head, filesize, line) ==
    LET idx == filelist_search(head, line.hash) IN
    IF idx = 0 THEN filelist_append(head, filesize, Info(line.path), line.hash)
    ELSE [head EXCEPT ![idx + 1].files = fileinfo_append(@, Info(line.path))]

\* The lines of one size are together in one file, in the order they were written.
find_duplicates(fnc, head, files) ==
    FoldLeft(LAMBDA h, e : insert_dup(h, e.size, Line(fnc, e)), head, files)

remove_no_duplicates(head) ==
    <<head[1]>> \o SelectSeq(Tail(head), LAMBDA s : list_size(s.files) >= 2)

DeletePrompt(head) == IF list_size(head) > 0 THEN "delete" ELSE "main"

\* malloc() of the head: clear memory, or a freed set whose next pointer is one
\* of the sets of the old list.
NewNext == {<<>>} \cup (IF freed THEN {SubSeq(dups_list_h, k, Len(dups_list_h)) : k \in 2 .. Len(dups_list_h)}
                        ELSE {})

\* malloc() of the head of the directories: the same, with a freed list node.
NewDirs == {<<>>} \cup opt.dirs

\* For root, what is in ~/.Trash/files is deleted, or the directory made.
get_trash_path ==
    LET inside == {e \in disk : e.dir = TrashFiles /\ (e.kind = "dir" => \A f \in disk : f.dir # e.sub)} IN
    IF ~opt.root THEN disk
    ELSE IF TrashFiles \in Dirs(disk) THEN remove(disk, {path(e) : e \in inside})
    ELSE disk \cup {[e EXCEPT !.dir = TrashDir, !.name = "files", !.sub = TrashFiles] :
                        e \in {f \in disk : f.kind = "dir" /\ f.sub = TrashDir}}

\* The lists do not describe the disk if one of them goes on in freed memory, or
\* if root's trash was searched before it was emptied.  (A list of freed nodes is
\* freed again, which may end the program: then nothing more happens.)
find(fnc, options) ==
    LET g == check_args(options)
    IN  /\ mode = "main" /\ searches < MaxSearches
        /\ searches' = searches + 1
        /\ UNCHANGED <<ask, now, chosen>>
        /\ IF g.bad
           THEN /\ \E next \in NewNext : dups_list_h' = Head0(next)
                /\ mode' = "main" /\ opt' = g
                /\ UNCHANGED <<disk, trash_list_h, freed, found, spared, spoilt>>
           ELSE \E old \in NewDirs :
                LET dirlists == levels(old \o <<g.dir>>, g)
                    files == dir_traverse(dirlists, g)
                IN  \E next \in NewNext :
                    LET all == find_duplicates(fnc, Head0(next), files)
                        h == remove_no_duplicates(all)
                    IN  /\ dups_list_h' = h /\ mode' = DeletePrompt(h)
                        /\ opt' = [g EXCEPT
                              !.trash_path = TrashFiles,
                              !.dirs = @ \cup UNION {{SubSeq(l, k, Len(l)) : k \in 2 .. Len(l)} : l \in ToSet(dirlists)}]
                        /\ trash_list_h' = <<NoInfo>> /\ found' = {e \in ToSet(files) : ~e.unreadable}
                        /\ freed' = (freed \/ Len(h) < Len(all))
                        /\ disk' = get_trash_path
                        /\ spared' = {} /\ spoilt' = (next # <<>> \/ old # <<>> \/ ~(found' \subseteq disk'))

fmd5 == \E options \in Searches : find("md5", options)
fsha1 == \E options \in Searches : find("sha1", options)

------------------------------------------------------------------------------
\* The delete prompt.

get_recent_mtimeNone(files) == <<>>

\* The first of the most recent files.  One of mtime 0 is never it: last_filepath
\* is then what it was, nothing or a file of an earlier set with an mtime above 0,
\* and so no file of this one.
get_recent_mtime(files) ==
    LET dated == {i \in 2 .. Len(files) : files[i].mtime > 0}
        best == {i \in dated : \A j \in dated :
                    files[j].mtime < files[i].mtime \/ (files[j].mtime = files[i].mtime /\ i <= j)}
    IN  IF best = {} THEN <<>> ELSE files[CHOOSE i \in best : TRUE].path

\* After a command: the list is shown and the loop looks for sets again.
Left(head) == /\ dups_list_h' = head
              /\ mode' = DeletePrompt(head)

\* >> ... -l k, where k is a set of the list.
Set == 2 .. Len(dups_list_h)

option_f(k) ==
    LET files == dups_list_h[k].files
        last == get_recent_mtime(files)
        others == {files[i].path : i \in 2 .. Len(files)} \ {last}
    IN  /\ mode = "delete"
        /\ Delete(others)
        /\ Left(filelist_delete_node(dups_list_h, dups_list_h[k].hash))
        /\ freed' = TRUE
        /\ UNCHANGED <<trash_list_h, opt, ask, spoilt, found, now, searches, chosen>>

\* The name in the trash: "files" before the name, as TRASH_PATH has no '/' at
\* its end; if that is taken the name with a number, counted in the directory
\* ~/.Trash/files that no file is moved to.
TrashName(D, e) ==
    IF <<TrashDir, "files" \o e.name>> \notin {path(f) : f \in D} THEN "files" \o e.name
    ELSE ToString(1 + Cardinality({f \in ToSet(Listing(D, TrashFiles)) : f.stem = e.stem})) \o e.name

\* Moving one file: rename(), then the node for the trash list, whose lstat()
\* fails as the path is gone.  A rename that fails ends the program.
to_trash(st, p) ==
    IF st.failed \/ ~CanRename(st.disk, p, TrashDir) THEN [st EXCEPT !.failed = TRUE]
    ELSE LET name == TrashName(st.disk, CHOOSE e \in st.disk : path(e) = p)
         IN  [disk |-> rename(st.disk, p, TrashDir, name),
              trash |-> fileinfo_append(st.trash, [NoInfo EXCEPT !.path = p, !.mtime = st.now]),
              now |-> st.now + 1, failed |-> FALSE,
              replaced |-> st.replaced \/ Still(st.disk, {<<TrashDir, name>>}) # {}]

option_t(k) ==
    LET files == dups_list_h[k].files
        last == get_recent_mtime(files)
        others == SelectSeq([i \in 1 .. list_size(files) |-> files[i + 1].path], LAMBDA p : p # last)
        st == FoldLeft(to_trash, [disk |-> disk, trash |-> trash_list_h, now |-> now, failed |-> FALSE, replaced |-> FALSE], others)
    IN  /\ mode = "delete"
        /\ disk' = st.disk /\ trash_list_h' = st.trash /\ now' = st.now
        /\ IF st.failed
           THEN mode' = "end" /\ UNCHANGED <<dups_list_h, freed>>
           ELSE /\ Left(filelist_delete_node(dups_list_h, dups_list_h[k].hash))
                /\ freed' = TRUE
        /\ spoilt' = (spoilt \/ st.replaced)
        /\ UNCHANGED <<opt, ask, found, spared, searches, chosen>>

option_i(k) ==
    /\ mode = "delete"
    /\ mode' = "ask"
    /\ ask' = [set |-> k, at |-> 2, left |-> list_size(dups_list_h[k].files)]
    /\ UNCHANGED <<disk, dups_list_h, trash_list_h, opt, freed, spared, spoilt, found, now, searches, chosen>>

DroppedLate(head, k) ==
    IF list_size(head[k].files) < 1 THEN filelist_delete_node(head, head[k].hash) ELSE head

\* The set after a deletion from it: dropped when fewer than two files are left.
Dropped(head, k) ==
    IF list_size(head[k].files) < 2 THEN filelist_delete_node(head, head[k].hash) ELSE head

\* The answer to one question of -i; other: anything but y, Y, n or N ends it.
answer(a) ==
    LET k == ask.set
        p == dups_list_h[k].files[ask.at].path
        head == IF a = "y" THEN [dups_list_h EXCEPT ![k].files = fileinfo_delete_node(@, p)]
                ELSE dups_list_h
        at == IF a = "n" THEN ask.at + 1 ELSE ask.at
        done == a = "other" \/ at > Len(head[k].files) \/ ask.left = 1
    IN  /\ mode = "ask"
        /\ Delete(IF a = "y" THEN {p} ELSE {})
        /\ chosen' = IF a = "y" THEN chosen \cup Contents(disk, {p}) ELSE chosen
        /\ IF done
           THEN /\ Left(Dropped(head, k))
                /\ freed' = (freed \/ list_size(head[k].files) < 2)
                /\ ask' = NoAsk
           ELSE /\ dups_list_h' = head
                /\ ask' = [ask EXCEPT !.at = at, !.left = @ - 1]
                /\ UNCHANGED <<mode, freed>>
        /\ UNCHANGED <<trash_list_h, opt, spoilt, found, now, searches>>

\* -d i: an index out of range changes nothing.
option_d(k, i) ==
    LET p == dups_list_h[k].files[i + 1].path
        head == [dups_list_h EXCEPT ![k].files = fileinfo_delete_node(@, p)]
    IN  /\ mode = "delete"
        /\ i \in 1 .. list_size(dups_list_h[k].files)
        /\ Delete({p})
        /\ chosen' = chosen \cup Contents(disk, {p})
        /\ Left(Dropped(head, k))
        /\ freed' = (freed \/ list_size(head[k].files) < 2)
        /\ UNCHANGED <<trash_list_h, opt, ask, spoilt, found, now, searches>>

delete_exit ==
    /\ mode = "delete"
    /\ mode' = "main"
    /\ UNCHANGED <<disk, dups_list_h, trash_list_h, opt, ask, freed, spared, spoilt, found, now, searches, chosen>>

------------------------------------------------------------------------------
\* list and trash.

Key(i, c) == CASE c = "filename" -> (IF i.path = <<>> THEN 0 ELSE rank(i.path))
               [] c = "size" -> i.size
               [] c \in {"uid", "gid", "mode"} -> i.uid
               [] c = "date" -> i.mtime \div 10
               [] c = "time" -> i.mtime

sort_func(p1, p2, c, order) == IF order = 1 THEN ~(Key(p1, c) < Key(p2, c)) ELSE Key(p1, c) < Key(p2, c)

\* What is compared: a file's information, or for a set the head of its list.
InfoOf(x) == IF "files" \in DOMAIN x THEN x.files[1] ELSE x

\* From element j on: an element that belongs before its predecessor becomes the
\* first of the list and its head, and the old head is lost.
RECURSIVE sorted(_, _, _, _)
sorted(l, j, c, order) ==
    IF j >= Len(l) THEN l
    ELSE IF sort_func(InfoOf(l[j]), InfoOf(l[j + 1]), c, order)
         THEN sorted(<<l[j + 1]>> \o SubSeq(l, 2, j) \o SubSeq(l, j + 2, Len(l)), 1, c, order)
         ELSE sorted(l, j + 1, c, order)

insert_sort_fileset(head, c, order) == sorted(head, 2, c, order)

\* l = "fileset" sorts the files of every set but the last, "filelist" the sets.
insert_sort_filelist(head, c, order, l) ==
    IF l = "fileset"
    THEN [k \in DOMAIN head |-> IF k \in 2 .. Len(head) - 1
              THEN [head[k] EXCEPT !.files = insert_sort_fileset(@, c, order)] ELSE head[k]]
    ELSE sorted(head, 2, c, order)

list(l, c, order) ==
    /\ mode = "main" /\ Len(dups_list_h) > 1
    /\ dups_list_h' = insert_sort_filelist(dups_list_h, c, order, l)
    /\ UNCHANGED <<disk, mode, trash_list_h, opt, ask, freed, spared, spoilt, found, now, searches, chosen>>

trash(c, order) ==
    /\ mode = "main" /\ Len(trash_list_h) > 1
    /\ trash_list_h' = insert_sort_fileset(trash_list_h, c, order)
    /\ UNCHANGED <<disk, mode, dups_list_h, opt, ask, freed, spared, spoilt, found, now, searches, chosen>>

sf_exit ==
    /\ mode = "main"
    /\ mode' = "end"
    /\ UNCHANGED <<disk, dups_list_h, trash_list_h, opt, ask, freed, spared, spoilt, found, now, searches, chosen>>
------------------------------------------------------------------------------
SfInit ==
    /\ mode = "main"
    /\ dups_list_h = <<>> /\ trash_list_h = <<>>
    /\ \E root \in BOOLEAN :
          /\ root => \A e \in disk : ~e.unreadable
          /\ opt = [extension |-> "", minb |-> 0, maxb |-> 0, thread |-> 1, bad |-> FALSE,
                    temp |-> [star |-> FALSE, dot |-> FALSE, ext |-> ""], dir |-> "",
                    trash_path |-> "", root |-> root, dirs |-> {}]
    /\ ask = NoAsk /\ freed = FALSE /\ now = 50 /\ searches = 0

\* restore() changes nothing whatever the list, nor do help and a wrong command.
SfNext ==
    \/ fmd5 \/ fsha1
    \/ \E k \in Set : option_f(k) \/ option_t(k) \/ option_i(k)
    \/ \E k \in Set : \E i \in 1 .. list_size(dups_list_h[k].files) : option_d(k, i)
    \/ \E a \in {"y", "n", "other"} : answer(a)
    \/ delete_exit
    \/ \E l \in {"fileset", "filelist"}, c \in {"filename", "size", "uid"}, order \in {1, -1} : list(l, c, order)
    \/ \E c \in {"filename", "size", "date", "time"}, order \in {1, -1} : trash(c, order)
    \/ sf_exit
------------------------------------------------------------------------------
Listed(set) == {set.files[i].path : i \in 2 .. Len(set.files)}

\* At the delete prompt the numbered list matches the disk: its sets are exactly
\* the groups of two or more equal files of the search that are still there and
\* were not taken off the list (a remove() may fail), each file once, the sets by
\* size.  What a user deletes by number is a duplicate.  Files that could not be
\* read are in no such set; the condition is that no list head went on in freed
\* memory, no file was moved over another, and root's trash, if it was searched,
\* was empty (spoilt: there the code's list is wrong).
ListMatchesDisk ==
    mode = "delete" /\ ~spoilt =>
        LET sets == SelectSeq(Tail(dups_list_h), LAMBDA s : s.hash[1] # "cut")
            left == {e \in found \cap disk : path(e) \notin spared}
        IN  /\ {Listed(sets[k]) : k \in DOMAIN sets} = {{path(e) : e \in S} : S \in Groups(left)}
            /\ \A k \in DOMAIN sets : list_size(sets[k].files) = Cardinality(Listed(sets[k]))
            /\ \A j, k \in DOMAIN sets : j < k => sets[j].filesize <= sets[k].filesize /\ sets[j].hash # sets[k].hash
=============================================================================

-------------------------------- MODULE Sdup --------------------------------
(* The duplicate finder of LinuxProgramming/P2_20192380: ssu_sdup.c runs each *)
(* search in a process of its own, find.c searches and prompts, my_structs.c  *)
(* keeps the directory queue and the list of lists.  As a search is a new     *)
(* process, nothing but the disk is kept from one to the next.                *)
EXTENDS FileTree

CONSTANTS Commands,      \* the arguments a user gives to fmd5 and fsha1
          MaxCommands    \* bound: searches in one session

VARIABLES sd_mode,    \* "main", "prompt", "ask" ([y/n])
          sets,       \* myFileListSet
          sd_ask,     \* i: the set and the next file asked about
          trash_can,  \* TRASH_CAN_PATH, in the directory searched
          commands

sdvars == <<sd_mode, sets, sd_ask, trash_can, commands>>

FILE_MAX_SIZE == 2000000000   \* 5 GB in the build: above every size there is
NoQuestion == [set |-> 0, at |-> 0]

\* kb, mb and gb of decimal digits; anything else behind the digits is an error.
decimalize_byte_string(a) ==
    IF a.tilde THEN -1
    ELSE IF a.den # 1 \/ a.dot THEN -2
    ELSE CASE a.unit = "none" -> a.num
           [] a.unit = "kb" -> a.num * 1000
           [] a.unit = "mb" -> a.num * 1000000
           [] a.unit = "gb" -> a.num * 1000000000
           [] OTHER -> -2

------------------------------------------------------------------------------
\* my_structs.c.

\* path: as the search came to the file; real: the entry that path leads to, its
\* last component not followed, which is what remove() and rename() act on.
create_fileInfo(p, real, depth, mtime) == [path |-> p, real |-> real, depth |-> depth, mtime |-> mtime]
create_list_linked_node(info, size, hash) == [list |-> <<info>>, size |-> size, hash |-> hash]

\* The files of a list are by depth, then by path.
Before(a, b) == a.depth < b.depth \/ (a.depth = b.depth /\ rank(a.path) < rank(b.path))

insert_myFileLinkedListFirst(list, info) == <<info>> \o list

insert_myFileLinkedList(list, info) ==
    LET skipped == {i \in DOMAIN list : \A j \in 1 .. i : Before(list[j], info)} IN
    InsertAt(list, Cardinality(skipped) + 1, info)

\* The lists are by size; the first of equal size and hash takes the file.
insert_myFileListLinkedList(head, info, size, hash) ==
    LET same == {i \in DOMAIN head : head[i].size = size /\ head[i].hash = hash}
        skipped == {i \in DOMAIN head : \A j \in 1 .. i : head[j].size <= size}
    IN  IF same # {}
        THEN [head EXCEPT ![CHOOSE i \in same : TRUE].list = insert_myFileLinkedList(@, info)]
        ELSE InsertAt(head, Cardinality(skipped) + 1, create_list_linked_node(info, size, hash))

remove_only_one_node(head) == SelectSeq(head, LAMBDA s : Len(s.list) > 1)

------------------------------------------------------------------------------
\* find.c: the search.

\* stat(): what the entry is, or the file or directory a link leads to; no entry
\* if that is gone.
stat(e) == IF e.kind = "link" THEN {f \in disk : path(f) = e.target} ELSE {e}

\* e: the entry, for its name; f: the file.  fopen() is the last test.
matches(e, f, c) ==
    /\ f.kind = "file" /\ f.size # 0
    /\ c.ext # "any" => e.ext = c.ext
    /\ f.size >= c.min /\ f.size <= c.max
    /\ ~f.unreadable

\* One entry of directory q: a directory joins the queue, a file the sets.  (A
\* link that leads to a directory above it, followed until its path is too long
\* for stat(), is left out.)
visit(q, c, st, e) ==
    LET followed == [st EXCEPT !.linked = @ \/ e.kind = "link"]
        one(f) ==
            IF f.kind = "dir"
            THEN [followed EXCEPT
                     !.queue = Append(@, [dir |-> f.sub, shown |-> q.shown \o "/" \o e.name, depth |-> q.depth + 1])]
            ELSE IF ~matches(e, f, c) THEN st
            ELSE [followed EXCEPT
                     !.sets = insert_myFileListLinkedList(@,
                         create_fileInfo(<<q.shown, e.name>>, path(e), q.depth, f.mtime), f.size, f.content),
                     !.found = @ \cup {f}]
    IN  IF stat(e) = {} THEN st ELSE one(CHOOSE f \in stat(e) : TRUE)

\* The queue of directories, as they are and as the search came to them.
RECURSIVE search(_, _)
search(st, c) ==
    IF st.queue = <<>> THEN st
    ELSE LET q == Head(st.queue)
             all == IF q.shown \in {"/proc", "/run", "/sys"} THEN <<>> ELSE Listing(disk, q.dir)
         IN  search(FoldLeft(LAMBDA s, e : visit(q, c, s, e), [st EXCEPT !.queue = Tail(@)], all), c)

\* realpath() of the directory named: it has no links.
find_dup(dir, c) ==
    search([queue |-> <<[dir |-> dir, shown |-> dir, depth |-> 0]>>, sets |-> <<>>, found |-> {}, linked |-> FALSE], c)

\* find_command() exits on a wrong argument; the parent waits for the child.
find_command(a) ==
    LET low == decimalize_byte_string(a.min)
        high == decimalize_byte_string(a.max)
    IN  [ok |-> a.dir \in Dirs(disk) /\ low # -2 /\ high # -2 /\ a.pat.star /\ (a.pat.dot => a.pat.ext # "none"),
         c |-> [min |-> IF low = -1 THEN 0 ELSE low, max |-> IF high = -1 THEN FILE_MAX_SIZE ELSE high,
                ext |-> IF a.pat.dot THEN a.pat.ext ELSE "any"]]

\* The prompt makes the trash can if it is missing (if it cannot, the search ends),
\* and ends when no set is left.
TrashCan(dir) ==
    {[d EXCEPT !.dir = dir, !.name = ".ssu_sdup_trash", !.sub = dir \o "/.ssu_sdup_trash"] :
        d \in {e \in disk : e.kind = "dir" /\ e.sub = dir /\ ~e.fixed /\ <<dir, ".ssu_sdup_trash">> \notin {path(f) : f \in disk}}}

main(a) ==
    LET f == find_command(a)
        st == find_dup(a.dir, f.c)
        made == disk \cup TrashCan(a.dir)
        head == IF Still(made, {<<a.dir, ".ssu_sdup_trash">>}) = {} THEN <<>> ELSE remove_only_one_node(st.sets)
    IN  /\ sd_mode = "main" /\ commands < MaxCommands
        /\ commands' = commands + 1
        /\ IF ~f.ok THEN UNCHANGED <<disk, sd_mode, sets, found, spared, spoilt, trash_can>>
           ELSE /\ sets' = head
                /\ sd_mode' = IF head = <<>> THEN "main" ELSE "prompt"
                /\ found' = st.found /\ spared' = {} /\ spoilt' = st.linked
                /\ disk' = made
                /\ trash_can' = a.dir \o "/.ssu_sdup_trash"
        /\ UNCHANGED <<chosen, sd_ask>>

------------------------------------------------------------------------------
\* find.c: the prompt.  n is the number typed, the index n - 1; 0 acts on the
\* first set as 1 does.  One past the end passes the check and dereferences NULL.

get_list_in_set(n) == IF n = 0 THEN 1 ELSE n

\* The lists of one file or none go, and with the last one the prompt.
Shown(head) ==
    /\ sets' = remove_only_one_node(head)
    /\ sd_mode' = IF remove_only_one_node(head) = <<>> THEN "main" ELSE "prompt"

\* A fault ends the search process; the parent's prompt goes on.
Fault == /\ sets' = <<>> /\ sd_mode' = "main"
         /\ UNCHANGED <<disk, found, chosen, spared, spoilt, sd_ask, trash_can, commands>>

past_end == sd_mode = "prompt" /\ Fault

\* d m: the first file of a list is taken off the list without remove().
option_D(n, m) ==
    LET s == get_list_in_set(n)
        i == IF m = 0 THEN 1 ELSE m
        p == sets[s].list[i].real
    IN  /\ sd_mode = "prompt" /\ s \in DOMAIN sets /\ i \in DOMAIN sets[s].list
        /\ IF i = 1 THEN spared' = spared \cup {p} /\ UNCHANGED <<disk, chosen>>
           ELSE Delete({p}) /\ chosen' = chosen \cup Contents(disk, {p})
        /\ Shown([sets EXCEPT ![s].list = RemoveAt(@, i)])
        /\ UNCHANGED <<found, spoilt, sd_ask, trash_can, commands>>

option_I(n) ==
    /\ sd_mode = "prompt" /\ get_list_in_set(n) \in DOMAIN sets
    /\ sd_mode' = "ask"
    /\ sd_ask' = [set |-> get_list_in_set(n), at |-> 1]
    /\ UNCHANGED <<disk, found, chosen, spared, spoilt, sets, trash_can, commands>>

reply(y) ==
    LET s == sd_ask.set
        p == sets[s].list[sd_ask.at].real
        head == IF y THEN [sets EXCEPT ![s].list = RemoveAt(@, sd_ask.at)] ELSE sets
        at == IF y THEN sd_ask.at ELSE sd_ask.at + 1
    IN  /\ sd_mode = "ask"
        /\ Delete(IF y THEN {p} ELSE {})
        /\ chosen' = IF y THEN chosen \cup Contents(disk, {p}) ELSE chosen
        /\ IF at > Len(head[s].list)
           THEN Shown(head) /\ sd_ask' = NoQuestion
           ELSE sets' = head /\ sd_ask' = [sd_ask EXCEPT !.at = at] /\ UNCHANGED sd_mode
        /\ UNCHANGED <<found, spoilt, trash_can, commands>>

\* The most recent file, the first of them; mtimes are compared as text.
get_current_file(list) ==
    CHOOSE i \in DOMAIN list : \A j \in DOMAIN list :
        list[j].mtime < list[i].mtime \/ (list[j].mtime = list[i].mtime /\ i <= j)

\* A file of that name in the trash can is replaced.  Where rename() fails the
\* file is removed instead.
move_trash(st, p) ==
    LET there == Still(st.disk, {<<trash_can, p[2]>>} \ {p}) # {} IN
    IF CanRename(st.disk, p, trash_can)
    THEN [disk |-> rename(st.disk, p, trash_can, p[2]), replaced |-> st.replaced \/ there]
    ELSE [st EXCEPT !.disk = remove(@, {p})]

option_ft(n, trash_flag) ==
    LET s == get_list_in_set(n)
        rest == RemoveAt(sets[s].list, get_current_file(sets[s].list))
        others == [i \in DOMAIN rest |-> rest[i].real]
        st == FoldLeft(move_trash, [disk |-> disk, replaced |-> FALSE], others)
    IN  /\ sd_mode = "prompt" /\ s \in DOMAIN sets
        /\ IF trash_flag
           THEN /\ disk' = st.disk /\ spoilt' = (spoilt \/ st.replaced)
                /\ spared' = spared \cup Still(disk', ToSet(others))
           ELSE Delete(ToSet(others)) /\ UNCHANGED spoilt
        /\ Shown(RemoveAt(sets, s))
        /\ UNCHANGED <<found, chosen, sd_ask, trash_can, commands>>

prompt_exit ==
    /\ sd_mode = "prompt"
    /\ sets' = <<>> /\ sd_mode' = "main"
    /\ UNCHANGED <<disk, found, chosen, spared, spoilt, sd_ask, trash_can, commands>>
------------------------------------------------------------------------------
SdInit ==
    /\ sd_mode = "main" /\ sets = <<>> /\ sd_ask = NoQuestion
    /\ trash_can = "" /\ commands = 0

SdNext ==
    \/ \E a \in Commands : main(a)
    \/ \E n \in 0 .. Len(sets) : option_I(n) \/ option_ft(n, TRUE) \/ option_ft(n, FALSE)
    \/ \E n \in 0 .. Len(sets), m \in 0 .. Cardinality(found) : option_D(n, m)
    \/ \E y \in BOOLEAN : reply(y)
    \/ past_end
    \/ prompt_exit
------------------------------------------------------------------------------
Paths(list) == {list[i].path : i \in DOMAIN list}

\* At the prompt the lists are exactly the groups of two or more equal files of
\* the search that are still on disk and were not taken off a list (remove() may
\* fail, and "d 1" leaves the file, against the help text "delete [LIST_IDX]
\* file"), by size; the files of a list by depth and path, each once.  The
\* condition is that the search followed no symbolic link and no file was moved
\* over another in the trash can: there the list shows files that are gone.
SetsMatchDisk ==
    sd_mode = "prompt" /\ ~spoilt =>
        /\ {Paths(sets[k].list) : k \in DOMAIN sets}
              = {{path(e) : e \in S} : S \in Groups({e \in found \cap disk : path(e) \notin spared})}
        /\ \A k \in DOMAIN sets : \A i \in DOMAIN sets[k].list : i > 1 => Before(sets[k].list[i - 1], sets[k].list[i])
        /\ \A j, k \in DOMAIN sets : j < k => sets[j].size <= sets[k].size
=============================================================================

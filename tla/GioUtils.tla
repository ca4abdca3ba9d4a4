---- MODULE GioUtils ----
(* What File Roller does with whole folders by itself (gio-utils.c): it lists the files of a
   folder that are to be added, copies files from a remote place before they are added, and
   copies what was extracted to a remote place.  Everything is asked of GIO and answered in
   callbacks of the main loop; anything asked may fail or be cancelled.  What a folder holds is
   read some files at a time, and its folders are visited after it, those behind links too: a
   link to a folder above it is followed as far as the system follows links.

   A path is the sequence of names from the base folder, which is << >>. Left out: progress,
   priorities, names that need escaping, files that come and go while they are read. *)
EXTENDS Naturals, FiniteSets, SequencesExt

CONSTANTS
    Trees,       \* the folders looked at
    Operations,  \* what is asked for
    MaxLinks,    \* the links in a path that the system follows
    Batch,       \* N_FILES_PER_REQUEST
    None         \* what a broken link leads to

\* A tree has the kind of each name, what is in each folder, and where each link leads:
\* names are told apart, so that a path is found by its last one.  No folder is in itself.
IsTree(t) ==
    LET names == DOMAIN t.kind
        kind(n) == t.kind[n]
    IN /\ IsFiniteSet(names) /\ {"base", None} \cap names = {}
       /\ t.kind \in [names -> {"dir", "file", "link", "special"}]
       /\ DOMAIN t.children = {"base"} \cup {n \in names : kind(n) = "dir"}
       /\ \A f \in DOMAIN t.children : t.children[f] \in Seq(names) /\ IsInjective(t.children[f])
       /\ \A n \in names : kind(n) = "link" => t.target[n] \in {None} \cup {m \in names : kind(m) # "link"}
       /\ \E depth \in [DOMAIN t.children -> 0..Cardinality(names)] :
            \A f, g \in DOMAIN t.children : g \in ToSet(t.children[f]) => depth[g] > depth[f]

ASSUME GioAssumption ==
    /\ \A t \in Trees : IsTree(t)
    /\ \A o \in Operations : o.name \in {"copy", "list", "items"} /\ (o.name = "copy" => o.directory = <<>>)
    /\ MaxLinks \in Nat /\ Batch \in Nat \ {0}

VARIABLES
    tree,
    op,         \* the operation
    phase,      \* the callback that is waited for
    walk,       \* ForEachChildData
    list,       \* GetFileListData: files and folders found, items left
    to_copy,    \* what is left to copy
    dest,       \* what there is at the destination
    told,       \* what the callback of the caller was told
    faulted,    \* something failed, and not for want of a folder
    refused     \* a folder could not be made, which is not looked at

vars == <<tree, op, phase, walk, list, to_copy, dest, told, faulted, refused>>

----
(* The file system. *)

Links(path) == Cardinality({i \in DOMAIN path : tree.kind[path[i]] = "link"})

\* What a path leads to, when links are followed.
Behind(path) ==
    IF path = <<>> THEN "base"
    ELSE IF tree.kind[Last(path)] = "link" THEN tree.target[Last(path)] ELSE Last(path)

\* A link that cannot be followed is told to be one.
TypeOf(path) ==
    IF path = <<>> THEN "dir"
    ELSE IF tree.kind[Last(path)] # "link" THEN tree.kind[Last(path)]
    ELSE IF ~op.follow_links \/ Behind(path) = None \/ Links(path) > MaxLinks THEN "link"
    ELSE tree.kind[Behind(path)]

IsFolder(path) == TypeOf(path) = "dir"

Children(path) == [i \in DOMAIN tree.children[Behind(path)] |-> Append(path, tree.children[Behind(path)][i])]

\* Lists put one after the other.
Joined(lists, length) ==
    LET all[n \in 0..length] == IF n = 0 THEN <<>> ELSE all[n - 1] \o lists[n]
    IN all[length]

\* The paths of a list that are in a set, in their order.
Only(paths, set) == Joined([n \in 1..Len(paths) |-> IF paths[n] \in set THEN <<paths[n]>> ELSE <<>>], Len(paths))

Name(path) == IF path = <<>> THEN "base" ELSE Last(path)

----
(* g_directory_foreach_child *)

WalkOf(directory) ==
    [current |-> directory, already_visited |-> {}, to_visit |-> <<>>, left |-> <<>>, error |-> FALSE]

\* filter_matches; a filter without a pattern may leave out backup files.
Matches(filter, path) == Name(path) \in filter.names
Filtered == op.include.pattern \/ op.exclude.pattern

\* get_file_list_for_each_file, for some files.
ListFiles(l, files) ==
    LET passed == {path \in ToSet(files) : /\ TypeOf(path) = "file" /\ Matches(op.include, path)
                                          /\ ~(op.exclude.pattern /\ Matches(op.exclude, path))}
    IN [l EXCEPT !.files = Reverse(Only(files, passed)) \o @]

Excluded(path) == op.exclude_folders.pattern /\ Matches(op.exclude_folders, path)

\* The folders among the children are put to be visited, once for each path.
Visit(w, files) ==
    LET new == {path \in ToSet(files) : IsFolder(path) /\ path \notin w.already_visited}
    IN [w EXCEPT !.already_visited = @ \cup new, !.to_visit = @ \o Only(files, new)]

WalkDone(w) == walk' = w /\ phase' = "walk_done"

\* for_each_child_start_next_sub_directory
NextSubDirectory(w) ==
    IF w.to_visit # <<>>
    THEN /\ walk' = [w EXCEPT !.current = Head(w.to_visit), !.to_visit = Tail(@)]
         /\ phase' = "start"
    ELSE WalkDone(w)

\* Mutant: a folder that is skipped starts no other.
Skip_Returns == UNCHANGED walk /\ phase' = "skipped"

\* DIR_OP_SKIP
Skip == NextSubDirectory(walk)

\* for_each_child_start_current, with get_file_list_start_dir or
\* g_directory_copy_start_dir.
StartDirectory ==
    /\ phase = "start"
    /\ IF op.name # "copy" /\ Excluded(walk.current)
       THEN Skip /\ UNCHANGED <<list, to_copy>>
       ELSE /\ phase' = "enumerate" /\ UNCHANGED walk
            /\ IF op.name = "copy"
               THEN to_copy' = << walk.current >> \o to_copy /\ UNCHANGED list
               ELSE list' = [list EXCEPT !.dirs = << walk.current >> \o @] /\ UNCHANGED to_copy
    /\ UNCHANGED <<tree, op, dest, told, faulted, refused>>

\* for_each_child_ready
Enumerated(ok) ==
    /\ phase = "enumerate"
    /\ IF ok
       THEN walk' = [walk EXCEPT !.left = Children(walk.current)] /\ phase' = "next_files"
       ELSE WalkDone([walk EXCEPT !.error = TRUE])
    /\ faulted' = (faulted \/ ~ok)
    /\ UNCHANGED <<tree, op, list, to_copy, dest, told, refused>>

\* for_each_child_next_files_ready, with n files or none: at the end, or when it failed.
NextFiles(n, ok) ==
    /\ phase = "next_files"
    /\ n <= Len(walk.left) /\ (n = 0 <=> ~ok \/ walk.left = <<>>)
    /\ LET files == SubSeq(walk.left, 1, n)
           w == Visit(walk, files)
       IN /\ walk' = [w EXCEPT !.left = SubSeq(@, n + 1, Len(@)), !.error = ~ok]
          /\ IF op.name = "copy"
             THEN to_copy' = Reverse(files) \o to_copy /\ UNCHANGED list
             ELSE list' = ListFiles(list, files) /\ UNCHANGED to_copy
    /\ phase' = IF n = 0 THEN "close" ELSE "next_files"
    /\ faulted' = (faulted \/ ~ok)
    /\ UNCHANGED <<tree, op, dest, told, refused>>

\* for_each_child_close_enumerator
Closed(ok) ==
    /\ phase = "close"
    /\ IF walk.error \/ ~ok THEN WalkDone([walk EXCEPT !.error = TRUE]) ELSE NextSubDirectory(walk)
    /\ faulted' = (faulted \/ ~ok)
    /\ UNCHANGED <<tree, op, list, to_copy, dest, told, refused>>

----
(* g_directory_list_async, g_list_items_async *)

Upward(path) == IF path = <<>> THEN <<>> ELSE [n \in 1..Len(path) - 1 |-> SubSeq(path, 1, Len(path) - n)]

\* Mutant: folders that are known are added again.
NewAbove_Twice(h_dirs, paths, n) == ToSet(Upward(paths[n]))

\* The folders above a path, but the base, those known and those above a path before it.
NewAbove(h_dirs, paths, n) ==
    {d \in ToSet(Upward(paths[n])) : d \notin h_dirs /\ \A i \in 1..n - 1 : d \notin ToSet(Upward(paths[i]))}

\* get_dir_list_from_file_list, which puts each before those it has.
ParentsOf(h_dirs, paths) ==
    Reverse(Joined([n \in 1..Len(paths) |-> Only(Upward(paths[n]), NewAbove(h_dirs, paths, n))], Len(paths)))

\* get_file_list_done, for what was found in one folder.  The base folder is put before
\* the folders and has no path relative to itself (get_relative_file_list).  Folders above
\* those that are added for a file are added with them; what is above these is known.
ListDone(l) ==
    LET started == IF Filtered THEN <<>> ELSE Only(Reverse(l.dirs), ToSet(l.dirs) \ {<<>>})
        h_dirs == ToSet(started) \cup UNION {ToSet(Upward(path)) : path \in ToSet(l.files)}
        dirs == started \o ParentsOf(ToSet(started), Reverse(l.files))
                        \o (IF op.include.pattern THEN <<>> ELSE ParentsOf(h_dirs, started))
    IN [files |-> l.files, dirs |-> Reverse(dirs)]

\* The caller is told; a remote place is copied from before (copy_remote_files).
Listed(files, dirs) ==
    IF op.remote
    THEN /\ phase' = "copy_files" /\ to_copy' = files \o dirs
         /\ dest' = {<<>>} \cup UNION {{SubSeq(p, 1, n) : n \in 0..Len(p) - 1} : p \in ToSet(files \o dirs)}
         /\ UNCHANGED told
    ELSE phase' = "over" /\ told' = "ok" /\ UNCHANGED <<to_copy, dest>>

\* for_each_child_done_cb, for a list.  An error of one folder is the end of all.
WalkListed ==
    /\ phase = "walk_done" /\ op.name # "copy"
    /\ IF walk.error
       THEN told' = "error" /\ phase' = "over" /\ UNCHANGED <<list, to_copy, dest>>
       ELSE LET found == ListDone(list)
                files == list.all_files \o found.files
                dirs == list.all_dirs \o found.dirs
            IN /\ list' = [list EXCEPT !.files = <<>>, !.dirs = <<>>, !.all_files = files, !.all_dirs = dirs]
               /\ IF op.name = "items"
                  THEN phase' = "next_item" /\ UNCHANGED <<told, to_copy, dest>>
                  ELSE Listed(files, dirs)
    /\ UNCHANGED <<tree, op, walk, faulted, refused>>

\* get_items_for_current_dir, begun by g_list_items_async and by its idle callback.
NextItem ==
    /\ phase = "next_item"
    /\ IF list.items = <<>>
       THEN Listed(list.all_files, list.all_dirs) /\ UNCHANGED <<walk, list>>
       ELSE /\ walk' = WalkOf(Head(list.items)) /\ phase' = "start"
            /\ list' = [list EXCEPT !.items = Tail(@)]
            /\ UNCHANGED <<told, to_copy, dest>>
    /\ UNCHANGED <<tree, op, faulted, refused>>

----
(* g_copy_files_async *)

\* g_copy_current_file and g_copy_files_ready_cb: of a folder only the folder is made
\* (WOULD_RECURSE), or nothing when there is one (WOULD_MERGE).
CopyFile(ok) ==
    /\ phase = "copy_files" /\ to_copy # <<>>
    /\ LET path == Head(to_copy)
           copied == ok /\ Front(path) \in dest /\ TypeOf(path) \in {"file", "dir"}
       IN IF copied
          THEN dest' = dest \cup {path} /\ to_copy' = Tail(to_copy) /\ UNCHANGED <<phase, told>>
          ELSE told' = "error" /\ phase' = "over" /\ UNCHANGED <<dest, to_copy>>
    /\ faulted' = (faulted \/ ~ok)
    /\ UNCHANGED <<tree, op, walk, list, refused>>

CopyFilesEnd ==
    /\ phase = "copy_files" /\ to_copy = <<>>
    /\ told' = "ok" /\ phase' = "over"
    /\ UNCHANGED <<tree, op, walk, list, to_copy, dest, faulted, refused>>

----
(* g_directory_copy_async *)

\* Mutant: the list is not reversed.
InOrder_Not(paths) == paths

\* g_directory_copy_start_copying
InOrder(paths) == Reverse(paths)

\* g_directory_copy_list_ready
WalkCopied ==
    /\ phase = "walk_done" /\ op.name = "copy"
    /\ phase' = IF walk.error THEN "copy_done" ELSE "copy_child"
    /\ to_copy' = InOrder(to_copy)
    /\ UNCHANGED <<tree, op, walk, list, dest, told, faulted, refused>>

\* g_directory_copy_current_child, of a folder: made, or not, and nobody looks.
MakeDirectory(ok) ==
    /\ phase = "copy_child" /\ to_copy # <<>> /\ IsFolder(Head(to_copy))
    /\ LET path == Head(to_copy)
           new == path \notin dest /\ (path = <<>> \/ Front(path) \in dest)
       IN /\ dest' = IF new /\ ok THEN dest \cup {path} ELSE dest
          /\ refused' = (refused \/ (new /\ ~ok))
    /\ to_copy' = Tail(to_copy)
    /\ UNCHANGED <<tree, op, phase, walk, list, told, faulted>>

\* g_directory_copy_child_done_cb
CopyChild(ok) ==
    /\ phase = "copy_child" /\ to_copy # <<>> /\ TypeOf(Head(to_copy)) = "file"
    /\ LET path == Head(to_copy)
       IN IF ok /\ Front(path) \in dest
          THEN dest' = dest \cup {path} /\ UNCHANGED <<phase, walk>>
          ELSE phase' = "copy_done" /\ walk' = [walk EXCEPT !.error = TRUE] /\ UNCHANGED dest
    /\ faulted' = (faulted \/ ~ok)
    /\ to_copy' = Tail(to_copy)
    /\ UNCHANGED <<tree, op, list, told, refused>>

\* A link is made to where it leads to, which was not asked for: none is made.  Nothing
\* is done about what is neither.
PassOver ==
    /\ phase = "copy_child" /\ to_copy # <<>> /\ TypeOf(Head(to_copy)) \notin {"dir", "file"}
    /\ to_copy' = Tail(to_copy)
    /\ UNCHANGED <<tree, op, phase, walk, list, dest, told, faulted, refused>>

NoneLeft ==
    /\ phase = "copy_child" /\ to_copy = <<>>
    /\ phase' = "copy_done"
    /\ UNCHANGED <<tree, op, walk, list, to_copy, dest, told, faulted, refused>>

\* g_directory_copy_done
CopyDone ==
    /\ phase = "copy_done"
    /\ told' = (IF walk.error THEN "error" ELSE "ok") /\ phase' = "over"
    /\ UNCHANGED <<tree, op, walk, list, to_copy, dest, faulted, refused>>

----
\* g_list_items_async puts the files aside at once.
Init ==
    /\ tree \in Trees
    /\ op \in {o \in Operations : \/ o.directory = <<>>
                                  \/ \E n \in ToSet(tree.children.base) :
                                       o.directory = <<n>> /\ tree.kind[n] = "dir"}
    /\ phase = IF op.name = "items" THEN "next_item" ELSE "start"
    /\ walk = WalkOf(op.directory)
    /\ LET items == Children(<<>>)
       IN list = [files |-> <<>>, dirs |-> <<>>, all_dirs |-> <<>>,
                  items |-> IF op.name = "items" THEN Reverse(Only(items, {p \in ToSet(items) : IsFolder(p)})) ELSE <<>>,
                  all_files |-> IF op.name = "items"
                                THEN Reverse(Only(items, {p \in ToSet(items) : ~IsFolder(p)})) ELSE <<>>]
    /\ to_copy = <<>>
    /\ dest \in {{}, {<<>>}} /\ (op.name # "copy" => dest = {})
    /\ told = "nothing" /\ faulted = FALSE /\ refused = FALSE

Next ==
    \/ StartDirectory
    \/ \E ok \in BOOLEAN : \/ Enumerated(ok)
                           \/ \E n \in 0..Batch : NextFiles(n, ok)
                           \/ Closed(ok)
                           \/ CopyFile(ok)
                           \/ MakeDirectory(ok)
                           \/ CopyChild(ok)
    \/ WalkListed \/ NextItem \/ CopyFilesEnd \/ WalkCopied \/ PassOver \/ NoneLeft \/ CopyDone

Spec == Init /\ [][Next]_vars

----
(* Properties. *)

\* No folder is found as deep as that.
Deepest == (Cardinality(DOMAIN tree.kind) + 1) * (MaxLinks + 1)

Entered(p) == IsFolder(p) /\ (op.name = "copy" \/ ~Excluded(p))

\* The folders from a path down, as deep as links lead, but the excluded ones and what
\* is in them.
Folders(start) ==
    LET deep[n \in 0..Deepest] ==
          {p \in IF n = 0 THEN {start} ELSE UNION {ToSet(Children(p)) : p \in deep[n - 1]} : Entered(p)}
    IN UNION {deep[n] : n \in 0..Deepest}

Within(folders) == UNION {ToSet(Children(p)) : p \in folders}
FilesIn(folders) == {p \in Within(folders) : TypeOf(p) = "file"}

Items == ToSet(Children(<<>>))
Roots == IF op.name = "items" THEN {p \in Items : IsFolder(p)} ELSE {op.directory}
AllFolders == UNION {Folders(p) : p \in Roots}

ToBeListed ==
    {p \in FilesIn(AllFolders) : Matches(op.include, p) /\ ~(op.exclude.pattern /\ Matches(op.exclude, p))}
        \cup (IF op.name = "items" THEN {p \in Items : ~IsFolder(p)} ELSE {})

Above(p) == {SubSeq(p, 1, n) : n \in 1..Len(p) - 1}

FoldersToBeListed ==
    IF Filtered THEN UNION {Above(p) : p \in ToBeListed} ELSE AllFolders \ {<<>>}

OnceEach(paths, set) == ToSet(paths) = set /\ IsInjective(paths)

\* The list of a folder has every file that the filters let pass and is not in an
\* excluded folder, and every folder on the way to it, which has to be there when an
\* archive is unpacked; and each once, though folders are found in two ways.  Without
\* filters it has empty folders, too; but never the base folder, which it is said to
\* have always ("this way empty base directories are added to the archive as well").
ListedWhole ==
    op.name # "copy" /\ told = "ok" =>
        /\ OnceEach(list.all_files, ToBeListed)
        /\ OnceEach(list.all_dirs, FoldersToBeListed)

\* What is there to be copied: a link that stays one, and what is neither a file nor a
\* folder, with the rest.
Copied ==
    IF op.name = "copy" THEN AllFolders \cup Within(AllFolders) ELSE ToBeListed \cup FoldersToBeListed

\* What a copy may leave out without a word.
LeftOut(p) ==
    \/ op.name = "copy" /\ TypeOf(p) \notin {"dir", "file"}
    \/ refused /\ IsFolder(p) /\ ~\E q \in dest : IsPrefix(p, q)

\* When a copy is told to be done everything is at the destination, unless it is a link
\* that cannot be followed (that it is not made is not looked at), a socket or the like
\* (nothing is done about it), or a folder that could not be made, which is not looked at
\* either: but nothing is at the destination below that, so that there was no file in it.
\* Files that are copied for an archive are all there, with no such exception.  And nothing
\* is reported to have failed unless something did: every file comes after its folder.  A
\* broken link or a socket that was chosen for an archive cannot be copied.
CopiedOrFailedUnless ==
    op.name = "copy" \/ op.remote =>
        /\ told = "ok" => \A p \in Copied : p \in dest \/ LeftOut(p)
        /\ told = "error" =>
             faulted \/ refused \/ \E p \in ToBeListed : TypeOf(p) # "file"
====

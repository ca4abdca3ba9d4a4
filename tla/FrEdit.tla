---- MODULE FrEdit ----
(* What the user of a File Roller window changes in the archive by way of what it shows: members
   deleted (dlg-delete.c), renamed, copied or cut and pasted (fr-window.c), and opened in other
   programs, whose changes are offered to be saved (open-file.c, dlg-update.c).

   Each of these is a script of commands made from the entries listed, which the process then
   runs to its end or to the first that fails; the archive is listed again after it.  There is no
   way back: what a script has removed is only in its temporary folder until it is added again.
   One window, with its own archive; what is asked for by way of the tree is asked for when
   nothing runs. *)
EXTENDS FrBrowse

CONSTANTS
    Archives,   \* the archives that there may be at first, sets of members
    MaxEdits,   \* operations that change the archive: a bound
    MaxOpens,   \* times that members are opened: a bound
    Garbled     \* a name that is no member's, cut out of a path at the wrong place

\* Nothing has the path of a file, or is below it.
Sound(members) ==
    \A m, n \in members : m.kind = "file" /\ IsPrefix(m.path, n.path) => n = m

\* A format stores folders with a "/" at their end or without, if it does.
Uniform(members) == \E kind \in {"folder", "folder/"} : \A m \in members : m.kind \in {"file", kind}

ASSUME EditAssumption ==
    /\ MaxEdits \in Nat /\ MaxOpens \in Nat /\ Garbled \in Names \ NewNames
    /\ \A members \in Archives :
          /\ Sound(members) /\ Uniform(members)
          /\ \A m \in members :
                /\ m.path # <<>> /\ m.path \in Seq(Names) /\ m.rooted \in BOOLEAN
                /\ m.kind = "file" => m.data = <<m.data[1], 0>>   \* which it is, and what is in it
    /\ None \notin Seq([path : Seq(Names), slash : BOOLEAN, rooted : BOOLEAN])

VARIABLE e      \* the clipboard, the files opened, the operation that runs: a record

----
(* Commands of a script, on the archive and on its temporary folder. *)

\* original_path; a leading "/" is kept where the format keeps it.
Name(entry) == [path |-> entry.path, slash |-> Slash(entry), rooted |-> entry.rooted]
NamesOf(entries) == [i \in DOMAIN entries |-> Name(entries[i])]

Node(path, kind, data) == [path |-> path, kind |-> kind, data |-> data]

IsFolderIn(tree, path) ==
    path = <<>> \/ \E t \in tree : IsPrefix(path, t.path) /\ (t.path = path => t.kind # "file")

\* The folders that the format stores, with a "/" or without.
FolderKind(members) == IF \E m \in members : m.kind = "folder" THEN "folder" ELSE "folder/"

\* A file is not extracted where there is a folder.
Extract(r, names) ==
    LET found == { m \in r.disk : names = None \/ Name(m) \in Range(names) }
    IN [r EXCEPT !.tmp = @ \cup { Node(m.path, m.kind, m.data) : m \in found },
                 !.ok = /\ names = None \/ Range(names) \subseteq { Name(m) : m \in r.disk }
                        /\ ~\E m \in found : m.kind = "file" /\ IsFolderIn(r.tmp, m.path)]

TakeOut(r, names) ==
    [r EXCEPT !.disk = { m \in @ : names # None /\ Name(m) \notin Range(names) }, !.removed = TRUE]

\* "mv -f": into what it finds there, if that is a folder; a file replaces only a file, a
\* folder only one with nothing in it.
Move(r, from, to) ==
    LET moved == { t \in r.tmp : IsPrefix(from, t.path) }
        file == \E t \in moved : t.path = from /\ t.kind = "file"
        into == IF IsFolderIn(r.tmp, to) THEN Append(to, Last(from)) ELSE to
        there(t) == into \o SubSeq(t.path, Len(from) + 1, Len(t.path))
    IN [r EXCEPT !.ok = /\ moved # {} /\ IsFolderIn(r.tmp, Front(to)) /\ ~IsPrefix(from, into)
                        /\ \A t \in r.tmp : IsPrefix(into, t.path) =>
                                              t.path = into /\ (t.kind = "file") = file,
                 !.tmp = { t \in @ : ~IsPrefix(from, t.path) /\ t.path # into }
                           \cup { [t EXCEPT !.path = there(t)] : t \in moved }]

\* Mutant: the folder above is made, not the folder itself.
MakeFolders_Above(r, paths) ==
    [r EXCEPT !.tmp = @ \cup { Node(path, FolderKind(r.disk), None) :
                               path \in (UNION { Ancestors(Front(p)) : p \in paths \ {<<>>} }) \ {<<>>} }]

MakeFolders(r, paths) ==
    [r EXCEPT !.tmp = @ \cup { Node(path, FolderKind(r.disk), None) :
                               path \in (UNION { Ancestors(p) : p \in paths }) \ {<<>>} }]


Put(members, path, kind, data) ==
    { m \in members : m.path # path }
      \cup { [path |-> path, kind |-> kind, rooted |-> FALSE, data |-> data] }

Add(r, paths) ==
    LET here == { t \in r.tmp : t.path \in Range(paths) }
        kept == { m \in r.disk : m.path \notin { t.path : t \in here } }
    IN [r EXCEPT !.ok = \A p \in Range(paths) : \E t \in r.tmp : IsPrefix(p, t.path),
                 !.disk = kept \cup { [path |-> t.path, kind |-> t.kind, rooted |-> FALSE,
                                       data |-> t.data] : t \in here }]

\* One command; after one that fails the others are left out.
Perform(r, step) ==
    IF ~r.ok THEN r
    ELSE LET t == CASE step.do = "extract" -> Extract(r, step.of)
                    [] step.do = "remove" -> TakeOut(r, step.of)
                    [] step.do = "move" -> Move(r, step.of[1], step.of[2])
                    [] step.do = "folders" -> MakeFolders(r, step.of)
                    [] step.do = "add" -> Add(r, step.of)
                    [] OTHER -> [r EXCEPT !.ok = ~step.of.rooted,
                                 !.disk = Put(@, step.of.path, "file", step.of.data)]
         IN IF t.ok THEN [t EXCEPT !.done = @ + 1] ELSE [r EXCEPT !.ok = FALSE]

\* What there is after the first n steps.
Executed(members, steps, n) ==
    LET r[i \in 0..n] ==
          IF i = 0
          THEN [disk |-> members, tmp |-> {}, ok |-> TRUE, removed |-> FALSE, done |-> 0]
          ELSE Perform(r[i - 1], steps[i])
    IN r[n]

Do(what, of) == [do |-> what, of |-> of]
OrNull(list) == IF list = <<>> THEN None ELSE list   \* an empty GList is NULL

----
(* Operations begun and ended. *)

\* What there is of a list in a set, in its order.
Only(list, set) ==
    LET kept[n \in 0..Len(list)] ==
          IF n = 0 THEN <<>>
          ELSE IF list[n] \in set THEN Append(kept[n - 1], list[n]) ELSE kept[n - 1]
    IN kept[Len(list)]

Listed(s, entries) == Only(s.files, entries)

\* Mutant: it is only cleared when nothing is left.
ClipboardRemove_Last(c, names) ==
    IF c.copy_data # None /\ Range(c.copy_data.files) \subseteq Range(names)
    THEN [c EXCEPT !.copy_data = None] ELSE c

\* fr_window_clipboard_remove_file_list
ClipboardRemove(c, names) ==
    IF c.copy_data = None THEN c
    ELSE LET left == Only(c.copy_data.files, Range(c.copy_data.files) \ Range(names))
         IN [c EXCEPT !.copy_data = IF names = <<>> \/ left = <<>> THEN None
                                    ELSE [@ EXCEPT !.files = left]]

Reading == {"open", "drag"}

NoOp == [kind |-> "none", steps |-> <<>>, apart |-> 0]
NoDrag == [from |-> "none"]
Runs(c) == c.op.kind # "none"

\* The first part of a script may be run for the other archive, which is not listed again.
Begin(c, kind, steps, apart, excuses) ==
    /\ e' = [c EXCEPT !.edits = @ + (IF kind \in Reading THEN 0 ELSE 1),
                      !.op = [kind |-> kind, steps |-> steps, apart |-> apart],
                      !.excuses = @ \cup excuses]
    /\ w' = StartActivity(IF kind \in Reading THEN w ELSE Act(w))
    /\ UNCHANGED disk

\* Nothing more is asked for that does not come to an edit, or after a loss; and while the
\* user drags nothing else is done.
Going == ~e.crashed /\ e.drag = NoDrag /\ MayAct /\ e.edits < MaxEdits /\ e.excuses = {}
MayEdit == Going /\ Idle /\ w.archive_present /\ ~Runs(e)

Ids(members) == { m.data[1] : m \in { m \in members : m.kind = "file" } }
Below(path) == { m \in disk : IsPrefix(path, m.path) }

\* What is in the way of a file at that place, or of a folder.
InTheWay(path, folder) ==
    { m \in disk : (m.kind = "file" /\ IsPrefix(m.path, path)) \/ (~folder /\ IsPrefix(path, m.path)) }

\* dlg_delete: what is selected, or everything when that comes to nothing, which the
\* dialog then says.
Delete ==
    /\ MayEdit /\ w.selected # {}
    /\ LET entries == UNION { RowFiles(w, row) : row \in w.selected }
           names == NamesOf(Listed(w, entries))
           meant == IF names = <<>> THEN disk ELSE UNION { Below(row.shown) : row \in w.selected }
       IN Begin([ClipboardRemove(e, names) EXCEPT !.asked = @ \cup Ids(meant)],
                "delete", << Do("remove", OrNull(names)) >>, 0,
                IF entries \subseteq meant THEN {} ELSE {"elsewhere"})

\* rename_selection; the part of each path below the folder that is renamed is cut out by
\* its place, which is one off when the paths begin with "/".
RenameSteps(parent, old_name, new_name, trailing, entries, folder, is_dir) ==
    LET list == NamesOf(entries)
        n == Len(parent) + 1
        off(name) == name.rooted /\ parent # <<>> /\ ~trailing
        renamed(name) ==
            (IF off(name) THEN parent \o <<new_name, Garbled>> ELSE Append(parent, new_name))
              \o SubSeq(name.path, n + 1, Len(name.path))
        added == IF folder = None \/ folder \in Range(list) THEN <<>> ELSE <<folder>>
        moves == IF is_dir THEN << <<Append(parent, old_name), Append(parent, new_name)>> >>
                 ELSE [i \in DOMAIN list |-> <<list[i].path, renamed(list[i])>>]
    IN << Do("extract", OrNull(list)), Do("remove", OrNull(added \o list)) >>
         \o [i \in DOMAIN moves |-> Do("move", moves[i])]
         \o (IF list = <<>> THEN <<>> ELSE << Do("add", [i \in DOMAIN list |-> renamed(list[i])]) >>)

\* name_is_present and valid_name
MayBecome(parent, old_name, new_name) ==
    /\ new_name # old_name
    /\ ~\E entry \in Range(w.files) : IsPrefix(Append(parent, new_name), entry.path)

RenameTo(path, trailing, entries, folder, is_dir, excuses) ==
    \E new_name \in NewNames :
       LET steps == RenameSteps(Front(path), Last(path), new_name, trailing, entries, folder, is_dir)
           removed == IF steps[2].of = None THEN <<>> ELSE steps[2].of
       IN /\ MayBecome(Front(path), Last(path), new_name)
          /\ Begin(ClipboardRemove(e, removed), "rename", steps, 0, excuses)

\* What the row of a folder stands for is renamed when that is a folder that is stored.
RenamePath(s, row) ==
    LET m == ListName(s, row.entry)
    IN IF m.list_dir /\ ~IsDir(row.entry) THEN Append(Location(s), m.name) ELSE row.entry.path

RenameExcuses(entries) == IF \E i \in DOMAIN entries : entries[i].rooted THEN {"rooted"} ELSE {}

\* fr_window_rename_selection for a row.
RenameRow ==
    /\ MayEdit
    /\ \E row \in w.selected :
          LET entry == row.entry
              path == RenamePath(w, row)
              is_dir == IsDir(entry) \/ ListName(w, entry).list_dir
              entries == IF is_dir THEN Listed(w, DirList(w, path)) ELSE <<entry>>
          IN /\ w.selected = {row}
             /\ RenameTo(path, is_dir /\ ~IsDir(entry), entries,
                         IF IsDir(entry) THEN Name(entry) ELSE None, is_dir,
                         RenameExcuses(entries)
                           \cup (IF entries = <<>> /\ ~IsDir(entry) THEN {"empty"} ELSE {}))

\* The same for a folder of the tree, which is not known to be stored.
RenameFolder ==
    /\ MayEdit /\ w.tree_selection \notin {None, <<>>}
    /\ LET entries == Listed(w, DirList(w, w.tree_selection))
       IN RenameTo(w.tree_selection, FALSE, entries, None, TRUE,
                   RenameExcuses(entries) \cup (IF entries = <<>> THEN {"empty"} ELSE {}))

\* fr_window_copy_or_cut_selection
CopyOrCut ==
    /\ MayEdit /\ w.list_mode = "AS_DIR" /\ w.selected # {}
    /\ \E op \in {"COPY", "CUT"} :
          LET entries == UNION { RowFiles(w, row) : row \in w.selected }
          IN e' = [e EXCEPT !.clipboard = TRUE,
                            !.copy_data = [files |-> Reverse(NamesOf(Listed(w, entries))),
                                           op |-> op, base_dir |-> Location(w),
                                           pasted |-> FALSE]]
    /\ w' = UpdateSensitivity(w) /\ UNCHANGED disk

\* fr_window_paste_from_clipboard_data, copy_from_archive_action_performed_cb and
\* add_pasted_files: members cut are removed before they are added.
PasteSteps(data, current_dir) ==
    LET n == Len(data.base_dir)
        new(name) == current_dir \o SubSeq(name.path, n + 1, Len(name.path))
        same(name) == new(name) = name.path /\ ~name.rooted
        moved == Only(data.files, { name \in Range(data.files) : ~same(name) /\ ~name.slash })
        dirs == { IF name.slash THEN new(name) ELSE Front(new(name)) : name \in Range(data.files) }
    IN << Do("folders", dirs), Do("extract", OrNull(data.files)) >>
         \o (IF data.op = "CUT" THEN << Do("remove", data.files) >> ELSE <<>>)
         \o [i \in DOMAIN moved |-> Do("move", <<moved[i].path, new(moved[i])>>)]
         \o (IF data.files = <<>> THEN <<>>
             ELSE << Do("add", [i \in DOMAIN data.files |-> new(data.files[i])]) >>)

\* The contents of the clipboard are asked of the window, which may have dropped them; and
\* when nothing is to be removed, the end of nothing ends the extraction again, without end.
Paste ==
    /\ MayEdit /\ w.list_mode = "AS_DIR" /\ e.clipboard
    /\ \E current_dir \in {Location(w)} \cup { <<name>> : name \in NewNames } :
          LET data == e.copy_data
              new(name) == current_dir \o SubSeq(name.path, Len(data.base_dir) + 1, Len(name.path))
              over == UNION { InTheWay(new(name), name.slash) : name \in Range(data.files) }
              gone == { name \in Range(data.files) : ~IsPrefix(data.base_dir, name.path) }
              moved == { m \in disk : m.kind = "folder" /\ Name(m) \in Range(data.files) }
          IN IF data = None \/ (data.op = "CUT" /\ data.files = <<>>)
             THEN e' = [e EXCEPT !.crashed = TRUE] /\ UNCHANGED <<disk, w>>
             ELSE Begin([e EXCEPT !.copy_data.pasted = data.op = "CUT"],
                        "paste", PasteSteps(data, current_dir),
                        IF data.op = "CUT" THEN 3 ELSE 2,
                        (IF over # {} THEN {"over"} ELSE {}) \cup (IF gone # {} THEN {"gone"} ELSE {})
                          \cup (IF moved # {} /\ data.op = "CUT" THEN {"moved"} ELSE {})
                          \cup (IF \E name \in Range(data.files) : name.rooted THEN {"rooted"} ELSE {}))

\* The process ends, or stops at a command that fails.  What the archive is listed for
\* again is its own process; not that of the archive copied from.
Finish ==
    /\ Runs(e) /\ e.op.kind \notin Reading
    /\ \E k \in 0..Len(e.op.steps) :
          LET r == Executed(disk, e.op.steps, k)
              s == StopActivity(w)
              copies == { f \in e.updating : ~\E m \in r.disk :
                             m.path = f.extracted.path /\ m.data = e.temps[f.temp][f.extracted] }
          IN /\ r.ok \/ k = r.done + 1
             /\ disk' = r.disk
             /\ e' = [e EXCEPT !.op = NoOp, !.updating = {},
                               !.unsaved = IF k = Len(e.op.steps) /\ r.ok THEN @ \cup copies ELSE @,
                               !.excuses = @ \cup IF r.ok /\ k < Len(e.op.steps) /\ r.removed
                                                  THEN {"failed"} ELSE {}]
             /\ w' = IF r.done < e.op.apart \/ s.activity_ref > 0 THEN s ELSE StartLoad(s)

----
(* Members opened in other programs. *)

\* fr_window_open_files
OpenFiles ==
    /\ MayEdit /\ w.selected # {}
    /\ Len(e.temps) < MaxOpens
    /\ \A row \in w.selected : ~IsDir(row.entry) /\ ~ListName(w, row.entry).list_dir
    /\ LET list == NamesOf(Listed(w, { row.entry : row \in w.selected }))
       IN Begin(e, "open", << Do("extract", list) >>, 0, {})

\* open_files_data_new makes the list of the extracted files the other way round.
Extracted(list) == Reverse(list)

\* fr_window_open_files__extract_done_cb and monitor_extracted_files
FilesOpened ==
    /\ Runs(e) /\ e.op.kind = "open"
    /\ LET list == e.op.steps[1].of
           temp == Len(e.temps) + 1
           files == { [path |-> list[i], extracted |-> Extracted(list)[i], temp |-> temp] :
                      i \in DOMAIN list }
           data(name) == (CHOOSE m \in disk : Name(m) = name).data
       IN \/ e' = [e EXCEPT !.op = NoOp, !.open_files = @ \cup files,
                            !.temps = Append(@, [name \in Range(list) |-> data(name)])]
          \/ e' = [e EXCEPT !.op = NoOp]
    /\ w' = StopActivity(w) /\ UNCHANGED disk

\* open_file_modified_cb and dlg_update_add_file
Modified ==
    /\ Going
    /\ \E file \in e.open_files :
          /\ e.temps[file.temp][file.extracted][2] = 0
          /\ e' = [e EXCEPT !.temps[file.temp][file.extracted][2] = 1, !.dialog = @ \cup {file}]
    /\ UNCHANGED <<disk, w>>

\* Where the file was opened there is something else now, or another file opened there.
Displaced(file, files) ==
    \/ \E m \in InTheWay(file.path.path, FALSE) :
          Name(m) # file.path \/ m.data[1] # e.temps[file.temp][file.path][1]
    \/ \E other \in files : IsStrictPrefix(other.path.path, file.path.path)

\* update_cb and fr_window_update_files; the dialog may show files that were freed.
Update ==
    /\ MayEdit
    /\ \E files \in (SUBSET e.dialog) \ {{}} :
          LET update(f) == Do("update", [path |-> f.path.path, rooted |-> f.path.rooted,
                                         data |-> e.temps[f.temp][f.path]])
              list == SetToSeq(files)
          IN IF files \subseteq e.open_files
             THEN Begin([e EXCEPT !.dialog = {}, !.updating = files], "update",
                        [i \in DOMAIN list |-> update(list[i])], 0,
                        IF \E f \in files : Displaced(f, files) THEN {"over"} ELSE {})
             ELSE e' = [e EXCEPT !.crashed = TRUE] /\ UNCHANGED <<disk, w>>

CancelUpdate == Going /\ e.dialog # {} /\ e' = [e EXCEPT !.dialog = {}] /\ UNCHANGED <<disk, w>>

----
(* Rows of the list, or the folder selected in the tree, dragged to a folder of the file manager
   (fr-window.c, eggtreemultidnd.c).  Drags are numbered, and each is dropped in its own folder. *)

\* egg_tree_multi_drag_button_press_event: a press on a row that is selected selects nothing
\* until the button is released.
Pressed(s, row) ==
    IF row \in s.selected THEN s ELSE UpdateSensitivity([s EXCEPT !.selected = {row}])

\* fr_window_get_folder_tree_selection
FolderFiles(s) == IF s.tree_selection = None THEN {} ELSE DirList(s, s.tree_selection)

\* fr_window_get_file_list_from_path_list
RowsFiles(s, rows) == UNION { RowFiles(s, row) : row \in rows }

\* Mutant: where the last one was dropped is not forgotten.
DragBegun_Kept(s, from) ==
    [e EXCEPT !.drag = [number |-> s.acts, from |-> from, asked |-> FALSE, remade |-> FALSE,
                        busy |-> s.activity_ref > 0, folder |-> s.tree_selection,
                        meant |-> IF from = "tree" THEN FolderFiles(s) ELSE RowsFiles(s, s.selected)]]

\* file_list_drag_begin: in a busy window where the last one was dropped is not forgotten,
\* nor is the file manager offered anything; but the drag goes on.
DragBegun(s, from) ==
    [e EXCEPT !.destination = IF s.activity_ref > 0 THEN @ ELSE 0,
              !.drag = [number |-> s.acts, from |-> from, asked |-> FALSE, remade |-> FALSE,
                        busy |-> s.activity_ref > 0, folder |-> s.tree_selection,
                        meant |-> IF from = "tree" THEN FolderFiles(s) ELSE RowsFiles(s, s.selected)]]

\* egg_tree_multi_drag_motion_event keeps references to the rows selected.
DragRows ==
    /\ Going /\ w.archive_present /\ w.rows_live
    /\ \E row \in w.rows :
          LET s == Pressed(Act(w), row)
          IN w' = [s EXCEPT !.refs = s.selected] /\ e' = DragBegun(s, "list")
    /\ UNCHANGED disk

DragFolder ==
    /\ Going /\ w.archive_present /\ w.tree_selection # None
    /\ w' = Act(w) /\ e' = DragBegun(w', "tree")
    /\ UNCHANGED disk

\* What a drop is answered with: an error when the folder cannot be written to, or that it
\* is well, and then these files will be extracted.
Answered(list) ==
    \/ e' = [e EXCEPT !.drag.asked = TRUE, !.drag_error = TRUE]
    \/ e' = [e EXCEPT !.drag.asked = TRUE,
                      !.drag.remade = IF e.drag.from = "tree" THEN w.tree_selection # e.drag.folder
                                      ELSE w.refs = {},
                      !.destination = e.drag.number, !.drag_list = OrNull(NamesOf(Listed(w, list)))]

\* The file manager asks once, if it was offered the name of a file to drop.
MayAnswer(from) ==
    /\ ~e.crashed /\ e.drag # NoDrag
    /\ e.drag.from = from /\ ~e.drag.asked /\ ~e.drag.busy /\ Idle

\* fr_window_file_list_drag_data_get, for the rows that are still there; the references are
\* not used again.
ListDragDataGet ==
    /\ MayAnswer("list") /\ Answered(RowsFiles(w, w.refs))
    /\ w' = [ReadRows(w, w.refs) EXCEPT !.refs = {}] /\ UNCHANGED disk

\* fr_window_folder_tree_drag_data_get, for the folder that is selected now.
TreeDragDataGet ==
    /\ MayAnswer("tree") /\ FolderFiles(w) # {} /\ Answered(FolderFiles(w))
    /\ UNCHANGED <<disk, w>>

\* file_list_drag_end.  An extraction begun while something runs takes its process from it:
\* that is not followed further, nor is one from an archive that was closed.
DragEnd ==
    /\ ~e.crashed /\ e.drag # NoDrag
    /\ LET dropped == [e EXCEPT !.drag = NoDrag, !.drag_error = FALSE]
       IN IF e.drag_error \/ e.destination = 0
          THEN e' = dropped /\ w' = [w EXCEPT !.refs = {}] /\ UNCHANGED disk
          ELSE IF Runs(e) \/ w.loading \/ ~w.archive_present
          THEN e' = [dropped EXCEPT !.crashed = TRUE] /\ UNCHANGED <<disk, w>>
          ELSE Begin([dropped EXCEPT !.drag_list = None, !.dragged = e.drag, !.dropped = e.destination],
                     "drag", << Do("extract", e.drag_list) >>, 0, {})

\* action_performed for EXTRACTING_FILES
DraggedOut ==
    /\ Runs(e) /\ e.op.kind = "drag"
    /\ e' = [e EXCEPT !.op = NoOp, !.dragged = None, !.dropped = 0] /\ w' = StopActivity(w) /\ UNCHANGED disk

----
EditInit ==
    e = [op |-> NoOp, edits |-> 0, copy_data |-> None, clipboard |-> FALSE, crashed |-> FALSE,
         temps |-> <<>>, open_files |-> {}, dialog |-> {}, updating |-> {},
         first |-> Ids(disk), asked |-> {}, excuses |-> {}, unsaved |-> {}, closed |-> FALSE,
         drag |-> NoDrag, destination |-> 0, drag_list |-> None, drag_error |-> FALSE,
         dragged |-> None, dropped |-> 0]

\* fr_window_archive_close drops what is copied and the files opened, not their dialog.
Closed(c) ==
    [c EXCEPT !.copy_data = None, !.open_files = {}, !.closed = TRUE]

BrowseStep ==
    /\ ~e.crashed
    /\ (Going /\ Browse) \/ ReadMember \/ EndLoad \/ (e.drag # NoDrag /\ (ThemeChanged \/ IconsChanged))
    /\ e' = IF w.archive_present /\ ~w'.archive_present THEN Closed(e) ELSE e

Next ==
    \/ BrowseStep
    \/ Delete \/ RenameRow \/ RenameFolder \/ CopyOrCut \/ Paste \/ Finish
    \/ OpenFiles \/ FilesOpened \/ Modified \/ Update \/ CancelUpdate
    \/ DragRows \/ DragFolder \/ ListDragDataGet \/ TreeDragDataGet \/ DragEnd \/ DraggedOut

Init == BrowseInit /\ disk \in Archives /\ EditInit
vars == <<disk, w, e>>
Spec == Init /\ [][Next]_vars

----
(* Properties. *)

Settled == Idle /\ w.archive_present /\ ~e.crashed

\* No file is lost that the user did not ask to be deleted.  It may be when a command that
\* comes after its removal fails, as it must where paths begin with "/"; when what is
\* pasted, or an opened file that is saved, has the place of another; when what is pasted was
\* cut in a folder that was gone, or folders in it are stored without a "/" and so are moved
\* as well; when a folder with nothing in it is renamed, or one of a folder that is gone; and
\* when one is deleted in the flat list, where it is looked for in the wrong place.
\* Nor are the changes that were saved in an opened file, unless several were opened
\* together, or it twice; until the archive is closed the dialog shows files that are open.
NothingLostUnless ==
    /\ (Settled /\ e.excuses = {}) => e.first \subseteq (Ids(disk) \cup e.asked)
    /\ \A file \in e.unsaved :
          \/ Cardinality(DOMAIN e.temps[file.temp]) > 1
          \/ \E temp \in DOMAIN e.temps \ {file.temp} : file.path \in DOMAIN e.temps[temp]
    /\ e.dialog \subseteq e.open_files \/ e.closed

\* What is copied is in the archive: what is deleted or renamed is taken from the
\* clipboard.  Unless what was cut has been pasted: it stays there.
ClipboardNamesMembersUnlessPasted ==
    (Settled /\ e.copy_data # None /\ e.excuses = {}) =>
        e.copy_data.pasted \/ Range(e.copy_data.files) \subseteq { Name(m) : m \in disk }

\* What a drag extracts is what was dragged, where it was dropped.  But it is everything when
\* it came to nothing, or the list was made again on the way; and it is everything, where
\* the drag before it was dropped, when the window was busy when it was begun.  Of the tree it
\* is the folder that is selected then, which the tree made again may have changed.
DragsOutWhatWasDragged ==
    (Runs(e) /\ e.op.kind = "drag") =>
        LET drag == e.dragged
            list == e.op.steps[1].of
        IN /\ \/ list = None \/ (drag.from = "tree" /\ drag.remade)
              \/ Range(list) = { Name(m) : m \in drag.meant }
           /\ IF drag.busy THEN list = None /\ e.dropped < drag.number
              ELSE /\ e.dropped = drag.number
                   /\ list = None => (drag.meant = {} \/ (drag.from = "list" /\ drag.remade))

\* An operation on a row is for what the row shows: the file, or all there is in the folder;
\* and it is what gets renamed.  But a folder stored without its "/" is not in itself; for a
\* folder in the flat list it is looked in the wrong place; where a row stands for a folder
\* that has only folders stored, the folder in it is renamed; and a file may have been pasted
\* where a folder is.  And it can be acted on: the window is busy only while there is
\* something that goes on, unless the icons changed.  So it is with what is dragged out.
ActsOnWhatIsShownUnless ==
    /\ DragsOutWhatWasDragged
    /\ w.activity_ref > 0 => (w.loading \/ Runs(e) \/ w.icons_changed)
    /\ (Settled /\ DirExists(w.files, Location(w)) /\ "over" \notin e.excuses) =>
          \A row \in w.rows :
             LET below == { m \in disk : IsPrefix(row.shown, m.path) }
                 itself == { m \in below : m.kind = "folder" /\ m.path = row.shown }
             IN /\ (w.list_mode = "FLAT" /\ IsDir(row.entry)) \/ RowFiles(w, row) = below \ itself
                /\ RenamePath(w, row) = row.shown
                   \/ (IsDir(row.entry) /\ IsPrefix(row.shown, row.entry.path))
====

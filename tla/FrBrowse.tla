---- MODULE FrBrowse ----
(* What a window of File Roller shows of its archive (fr-window.c): the list of the location it
   is at, the folder tree beside it, the history of locations, the flat list and the filter, and
   how all of these follow the archive when it is listed again.

   A location is the sequence of the folders that lead to it, the full path of a member the same
   with its own name: "/a/" and "/a/x" are <<"a">> and <<"a", "x">>.  A folder is stored with a
   "/" at its end by some formats and without by others, and FullPath texts are compared here as
   the code compares them.  The rows of the list hold pointers to the entries of the back end,
   which are freed whenever the archive is listed. A drag keeps references to rows (refs), which
   end when the list is made again. *)
EXTENDS Naturals, SequencesExt

CONSTANTS
    NameOrder,  \* the names, in the order of strcmp
    NewNames,   \* those of them that the user may type
    Texts,      \* the texts that may be typed as a filter
    Begins,     \* the pairs of a text and a name that it begins
    MaxActs,    \* times that the user moves, sets something or loads the archive: a bound
    None        \* NULL

Names == Range(NameOrder)
Kinds == {"file", "folder", "folder/"}   \* folder/: stored with its "/"

ASSUME BrowseAssumption ==
    /\ NameOrder \in Seq(Names) /\ IsInjective(NameOrder) /\ NewNames \subseteq Names
    /\ Begins \subseteq (Names \cup Texts) \X Names
    /\ \A name \in Names : <<name, name>> \in Begins
    /\ MaxActs \in Nat
    /\ None \notin Texts \cup Names /\ None \notin Seq(Names)

VARIABLES
    disk,   \* the members of the archive on disk
    w       \* the window, a record

----
(* The entries of the archive, and the text of their full paths. *)

IsDir(entry) == entry.kind # "file"    \* fdata->dir
Slash(entry) == entry.kind = "folder/"

\* strncmp of the location, which ends with "/", and the full path.
Inside(location, entry) ==
    /\ IsPrefix(location, entry.path)
    /\ Len(entry.path) > Len(location) \/ Slash(entry)

\* The same without that "/": also "/ab/x" for the location "/a/".
InsideText(location, entry) ==
    /\ Len(entry.path) >= Len(location)
    /\ IsPrefix(Front(location), entry.path)
    /\ <<Last(location), entry.path[Len(location)]>> \in Begins

\* fr_window_dir_exists_in_archive
DirExists(files, location) ==
    \/ location = <<>>
    \/ \E entry \in Range(files) :
          \/ Inside(location, entry)
          \/ entry.kind = "folder" /\ InsideText(location, entry)

\* file_data_compare_by_path: the text of a comes before that of b.
ComparePath(a, b) ==
    LET Rank(name) == CHOOSE i \in DOMAIN NameOrder : NameOrder[i] = name
    IN \E n \in 0..Len(a.path) :
          /\ IsPrefix(SubSeq(a.path, 1, n), b.path)
          /\ IF n = Len(a.path) THEN Len(b.path) > n \/ (Slash(b) /\ ~Slash(a))
             ELSE Len(b.path) > n /\ Rank(a.path[n + 1]) < Rank(b.path[n + 1])

\* The entries in that order; those with the same text as they were.
First(files, j, i) ==
    ComparePath(files[j], files[i]) \/ (~ComparePath(files[i], files[j]) /\ j < i)

Sorted(files) ==
    LET place == [i \in DOMAIN files |-> Cardinality({ j \in DOMAIN files : First(files, j, i) }) + 1]
    IN [n \in DOMAIN files |-> files[CHOOSE i \in DOMAIN files : place[i] = n]]

\* file_data_respects_filter
RespectsFilter(s, entry) ==
    \/ s.filter = None
    \/ ~IsDir(entry) /\ <<s.filter, Last(entry.path)>> \in Begins

----
(* History and location. *)

\* fr_window_get_current_location; the first location is added by who asks for it.
Location(s) == IF s.history_current = 0 THEN <<>> ELSE s.history[s.history_current]

\* fr_window_history_clear
HistoryClear(s) ==
    [s EXCEPT !.history = <<>>, !.history_current = 0, !.last_location = None]

\* fr_window_history_add, with the locations gone back over.
HistoryAdd(s, location) ==
    IF s.history_current # 0 /\ Location(s) = location THEN s
    ELSE LET again == IF s.history_current > 1
                      THEN Reverse(SubSeq(s.history, 2, s.history_current)) ELSE <<>>
         IN [s EXCEPT !.history = <<location>> \o again \o @, !.history_current = 1]

\* fr_window_history_pop, of the newest location, which may not be the current one.
HistoryPop(s) ==
    IF s.history = <<>> THEN s
    ELSE [s EXCEPT !.history = Tail(@),
                   !.history_current = IF @ > 1 THEN @ - 1
                                       ELSE IF Len(s.history) > 1 THEN @ ELSE 0]

Located(s) == IF s.history_current = 0 THEN HistoryAdd(s, <<>>) ELSE s

----
(* The busy state of the window, and whoever reads the entries of the rows. *)

\* The rows are read through pointers that may be to entries freed; a ghost.
ReadRows(s, rows) == [s EXCEPT !.freed_read = @ \/ (rows # {} /\ ~s.rows_live)]

\* fr_window_update_sensitivity and the status bar, for which the selection is read.
UpdateSensitivity(s) == ReadRows(s, s.selected)

\* fr_window_start_activity_mode
StartActivity(s) ==
    LET t == [s EXCEPT !.activity_ref = @ + 1]
    IN IF s.activity_ref > 0 THEN t ELSE UpdateSensitivity(t)

\* fr_window_stop_activity_mode
StopActivity(s) ==
    LET t == [s EXCEPT !.activity_ref = @ - 1]
    IN IF s.activity_ref = 0 THEN s ELSE IF t.activity_ref > 0 THEN t ELSE UpdateSensitivity(t)

----
(* The list. *)

\* fr_window_compute_list_names: which entries are named in the list.  The first entry
\* of a folder stands for it, and an entry of elsewhere ends the search.
ComputeListNames(s) ==
    LET here == Location(s)
        n == Len(here) + 1
        Passes(i) == RespectsFilter(s, s.files[i])
        Below(i) == Passes(i) /\ Inside(here, s.files[i]) /\ Len(s.files[i].path) >= n
        Folder(i) == Len(s.files[i].path) > n \/ IsDir(s.files[i])
        Reached(i) == ~\E j, k \in 1..(i - 1) :
                          j < k /\ Below(j) /\ Passes(k) /\ ~Inside(here, s.files[k])
        Named(i) ==
            /\ Below(i) /\ Reached(i)
            /\ Folder(i) => ~\E j \in 1..(i - 1) :
                                Below(j) /\ Folder(j) /\ s.files[j].path[n] = s.files[i].path[n]
        named == IF s.list_mode = "FLAT" THEN { i \in DOMAIN s.files : Passes(i) }
                 ELSE { i \in DOMAIN s.files : Named(i) }
    IN [s EXCEPT !.names =
          { [entry |-> s.files[i],
             name |-> IF s.list_mode = "FLAT" THEN Last(s.files[i].path) ELSE s.files[i].path[n],
             list_dir |-> s.list_mode # "FLAT" /\ Len(s.files[i].path) > n] : i \in named }]

\* What list_name and list_dir of an entry are now.
ListName(s, entry) ==
    LET named == { m \in s.names : m.entry = entry }
    IN IF named = {} THEN [entry |-> entry, name |-> None, list_dir |-> FALSE]
       ELSE CHOOSE m \in named : TRUE

ClearList(s) ==
    LET t == IF s.selected = {} THEN s ELSE UpdateSensitivity(s)
    IN [t EXCEPT !.rows = {}, !.selected = {}, !.refs = {}, !.rows_live = TRUE]

\* fr_window_populate_file_list; a row shows a name and where the member is.
PopulateFileList(s) ==
    LET at(m) == IF m.list_dir THEN Location(s) ELSE Front(m.entry.path)
        rows == { [entry |-> m.entry, shown |-> Append(at(m), m.name)] : m \in s.names }
    IN StopActivity([ClearList(s) EXCEPT !.rows = rows])

\* Mutant: the location is left as it was, even when there is no such folder any more.
UpdateFileList_Stays(s, update_view) ==
    IF ~s.archive_present
    THEN IF update_view THEN ClearList(s) ELSE s
    ELSE LET named == ComputeListNames(Located(StartActivity(s)))
         IN IF update_view THEN PopulateFileList(named) ELSE named

\* fr_window_update_file_list, after going up to a folder that there is.
UpdateFileList(s, update_view) ==
    IF ~s.archive_present
    THEN IF update_view THEN ClearList(s) ELSE s
    ELSE LET t == Located(StartActivity(s))
             here == Location(t)
             depths == { i \in 0..Len(here) : DirExists(t.files, SubSeq(here, 1, i)) }
             depth == IF t.list_mode = "FLAT" THEN Len(here)
                      ELSE CHOOSE i \in depths : \A j \in depths : j <= i
             up[i \in 0..(Len(here) - depth)] ==
                IF i = 0 THEN t
                ELSE HistoryAdd(HistoryPop(up[i - 1]), SubSeq(here, 1, Len(here) - i))
             named == ComputeListNames(up[Len(here) - depth])
         IN IF update_view THEN PopulateFileList(named) ELSE named

----
(* The tree of folders, and moving about. *)

\* Selecting a folder in the tree goes there, unless that is where it is.
SelectLocation(s) ==
    LET here == Location(s)
        t == [Located(s) EXCEPT !.tree_selection = here]
    IN IF s.list_mode = "FLAT" \/ here \notin s.tree \/ s.tree_selection = here THEN Located(s)
       ELSE IF s.last_location = here THEN t
       ELSE UpdateFileList([t EXCEPT !.last_location = here], TRUE)

\* fr_window_update_current_location; what it selects may move it, once.
UpdateCurrentLocation(s) == SelectLocation(SelectLocation(s))

Ancestors(path) == { SubSeq(path, 1, i) : i \in 0..Len(path) }

\* fr_window_update_dir_tree
UpdateDirTree(s) ==
    IF ~s.view_folders \/ ~s.archive_present \/ s.list_mode = "FLAT"
    THEN [s EXCEPT !.tree = {}, !.tree_selection = None]
    ELSE LET shown == { entry \in Range(s.files) : RespectsFilter(s, entry) }
             folders == { IF IsDir(entry) THEN entry.path ELSE Front(entry.path) : entry \in shown }
         IN UpdateCurrentLocation(
              [s EXCEPT !.tree = {<<>>} \cup UNION { Ancestors(path) : path \in folders },
                        !.tree_selection = None])

\* fr_window_go_to_location
GoToLocation(s, location, force_update) ==
    IF ~force_update /\ s.last_location = location THEN s
    ELSE UpdateCurrentLocation(
           UpdateFileList(HistoryAdd([s EXCEPT !.last_location = location], location), TRUE))

Refresh(s) == UpdateCurrentLocation(UpdateDirTree(UpdateFileList(s, TRUE)))

----
(* The archive is listed, and listed again after every change. *)

\* fr_window_archive_close; the rows stay, and the pointers in them.
ArchiveClose(s) ==
    IF ~s.archive_present THEN s
    ELSE UpdateCurrentLocation(UpdateDirTree(UpdateFileList(
           [HistoryClear(UpdateSensitivity(s)) EXCEPT !.archive_present = FALSE], FALSE)))

\* A load ends the operation LOADING with the new back end, and begins LISTING.
StartLoad(s) ==
    LET t == StartActivity(s)
        freed == [t EXCEPT !.files = <<>>, !.names = {}, !.rows_live = s.rows = {},
                           !.loading = TRUE, !.selected_then = @ \/ s.selected # {}]
    IN StartActivity(UpdateSensitivity(StopActivity(freed)))

\* Mutant: the list is not made again when the location is the same.
ListingDone_Unforced(s) ==
    LET t == [StopActivity(s) EXCEPT !.loading = FALSE, !.files = Sorted(@)]
        u == IF t.archive_present THEN t
             ELSE HistoryAdd(HistoryClear([t EXCEPT !.archive_present = TRUE]), <<>>)
    IN UpdateSensitivity(UpdateDirTree(GoToLocation(Located(u), Location(u), FALSE)))

\* action_performed for LISTING_CONTENT
ListingDone(s) ==
    LET t == [StopActivity(s) EXCEPT !.loading = FALSE, !.files = Sorted(@)]
        u == IF t.archive_present THEN t
             ELSE HistoryAdd(HistoryClear([t EXCEPT !.archive_present = TRUE]), <<>>)
    IN UpdateSensitivity(UpdateDirTree(GoToLocation(Located(u), Location(u), TRUE)))


ListingFailed(s) == ArchiveClose([StopActivity(s) EXCEPT !.loading = FALSE])

Idle == w.activity_ref = 0
MayAct == w.acts < MaxActs
Act(s) == [s EXCEPT !.acts = @ + 1]

\* A window that has an archive opens another in a window of its own.
Open == Idle /\ MayAct /\ ~w.archive_present /\ w' = StartLoad(Act(w)) /\ UNCHANGED disk
Reload == Idle /\ MayAct /\ w.archive_present /\ w' = StartLoad(Act(w)) /\ UNCHANGED disk

\* A line of the listing is read; here the members come in one order.
ReadMember ==
    /\ w.loading /\ Range(w.files) # disk
    /\ w' = [w EXCEPT !.files = Append(@, CHOOSE entry \in disk \ Range(@) : TRUE)]
    /\ UNCHANGED disk

EndLoad ==
    /\ w.loading
    /\ \/ Range(w.files) = disk /\ w' = ListingDone(w)
       \/ w' = ListingFailed(w)
    /\ UNCHANGED disk

----
(* What the user does, whether the archive is being listed or not. *)

\* get_parent_dir and fr_window_go_up_one_level
GoUp ==
    LET s == Located(Act(w))
        here == Location(s)
    IN MayAct /\ w' = GoToLocation(s, SubSeq(here, 1, Len(here) - 1), FALSE) /\ UNCHANGED disk

\* fr_window_go_back and fr_window_go_forward: to a location that may be the last one.
GoBack ==
    /\ MayAct /\ w.history_current # 0 /\ w.history_current < Len(w.history)
    /\ LET s == [Act(w) EXCEPT !.history_current = @ + 1]
       IN w' = GoToLocation(s, Location(s), FALSE)
    /\ UNCHANGED disk

GoForward ==
    /\ MayAct /\ w.history_current > 1
    /\ LET s == [Act(w) EXCEPT !.history_current = @ - 1]
       IN w' = GoToLocation(s, Location(s), FALSE)
    /\ UNCHANGED disk

GoHome == MayAct /\ w' = GoToLocation(Located(Act(w)), <<>>, FALSE) /\ UNCHANGED disk

\* The location entry, which the flat list hides.
TypeLocation ==
    /\ MayAct /\ w.archive_present
    /\ \E location \in {<<>>} \cup { <<name>> : name \in NewNames } :
          /\ w.list_mode = "FLAT" => location = <<>>
          /\ w' = GoToLocation(Act(w), location, FALSE)
    /\ UNCHANGED disk

\* dir_tree_selection_changed_cb
SelectFolder ==
    /\ MayAct
    /\ \E folder \in w.tree \ {w.tree_selection} :
          w' = GoToLocation([Act(w) EXCEPT !.tree_selection = folder], folder, FALSE)
    /\ UNCHANGED disk

UnselectFolder ==
    w.tree_selection # None /\ w' = [w EXCEPT !.tree_selection = None] /\ UNCHANGED disk

\* row_activated_cb for a folder; with no name it is where the window is.
ActivateRow ==
    /\ MayAct
    /\ \E row \in w.rows :
          LET m == ListName(w, row.entry)
              s == Located(Act(w))
              name == IF m.name = None THEN <<>> ELSE <<m.name>>
          IN IF ~w.rows_live THEN w' = [ReadRows(w, w.rows) EXCEPT !.selected_then = TRUE]
             ELSE /\ (IsDir(row.entry) \/ m.list_dir) /\ w.list_mode = "AS_DIR"
                  /\ w' = GoToLocation(s, Location(s) \o name, FALSE)
    /\ UNCHANGED disk

\* selection_changed_cb, of one row or of all.
Select ==
    /\ \E rows \in {{}, w.rows} \cup { {row} : row \in w.rows } :
          /\ rows # w.selected
          /\ w' = UpdateSensitivity([w EXCEPT !.selected = rows,
                                              !.selected_then = @ \/ ~w.rows_live])
    /\ UNCHANGED disk

\* fr_window_set_list_mode
SetListMode ==
    /\ MayAct /\ ~w.filter_mode
    /\ \E mode \in {"FLAT", "AS_DIR"} \ {w.list_mode} :
          LET s == [Act(w) EXCEPT !.list_mode = mode, !.last_list_mode = mode]
          IN w' = Refresh(IF mode = "FLAT" THEN HistoryAdd(HistoryClear(s), <<>>) ELSE s)
    /\ UNCHANGED disk

\* fr_window_find shows the filter entry, where a text is typed.
TypeFilter ==
    /\ MayAct /\ w.archive_present
    /\ \E prefix \in Texts : w' = [Act(w) EXCEPT !.filter_mode = TRUE, !.filter = prefix]
    /\ UNCHANGED disk

\* fr_window_activate_filter
ActivateFilter ==
    /\ MayAct /\ w.filter_mode /\ w.list_mode # "FLAT"
    /\ w' = Refresh([ClearList(Act(w)) EXCEPT !.list_mode = "FLAT"])
    /\ UNCHANGED disk

\* fr_window_deactivate_filter
DeactivateFilter ==
    /\ w.filter_mode
    /\ w' = Refresh([ClearList(w) EXCEPT !.filter_mode = FALSE, !.filter = None,
                                         !.list_mode = w.last_list_mode])
    /\ UNCHANGED disk

\* fr_window_set_folders_visibility
ViewFolders ==
    /\ MayAct
    /\ w' = UpdateDirTree([Act(w) EXCEPT !.view_folders = ~@])
    /\ UNCHANGED disk

\* theme_changed_cb
ThemeChanged == w' = UpdateDirTree(UpdateFileList(w, TRUE)) /\ UNCHANGED disk

\* pref_use_mime_icons_changed, which does not show the list that it makes.
IconsChanged ==
    /\ MayAct /\ ~w.icons_changed
    /\ w' = UpdateDirTree(UpdateFileList([Act(w) EXCEPT !.icons_changed = TRUE],
                                        FALSE))
    /\ UNCHANGED disk

\* Keys and mouse buttons; Escape also stops what runs, which then fails.
KeyPress == GoUp \/ GoBack \/ GoForward \/ GoHome \/ DeactivateFilter
FileButtonPress == Select \/ GoBack \/ GoForward
TreeButtonPress == SelectFolder \/ UnselectFolder \/ GoBack \/ GoForward

\* The archive has begun to be listed.
BrowseInit ==
    w = StartLoad(
        [files |-> <<>>, names |-> {}, rows |-> {}, rows_live |-> TRUE, selected |-> {},
         refs |-> {},
         tree |-> {}, tree_selection |-> None,
         history |-> << <<>> >>, history_current |-> 1, last_location |-> None,
         list_mode |-> "AS_DIR", last_list_mode |-> "AS_DIR", filter_mode |-> FALSE,
         filter |-> None, view_folders |-> TRUE,
         archive_present |-> FALSE, activity_ref |-> 0, loading |-> FALSE, acts |-> 0,
         freed_read |-> FALSE, selected_then |-> FALSE, icons_changed |-> FALSE])

Browse ==
    \/ Open \/ Reload \/ ReadMember \/ EndLoad
    \/ KeyPress \/ FileButtonPress \/ TreeButtonPress \/ TypeLocation \/ ActivateRow
    \/ SetListMode \/ TypeFilter \/ ActivateFilter
    \/ ViewFolders \/ ThemeChanged \/ IconsChanged

----
(* The members that an operation on a row is for. *)

\* Mutant: the folder is compared without its "/".
DirList_Text(s, folder) ==
    { entry \in Range(s.files) : folder = <<>> \/ InsideText(folder, entry) }

\* get_dir_list_from_path
DirList(s, folder) == { entry \in Range(s.files) : Inside(folder, entry) }

\* fr_window_get_file_list_selection and get_dir_list_from_file_data, for one row.
RowFiles(s, row) ==
    LET m == ListName(s, row.entry)
        name == IF m.name = None THEN <<>> ELSE <<m.name>>
    IN IF IsDir(row.entry) \/ m.list_dir THEN DirList(s, Location(s) \o name) ELSE {row.entry}

----
(* Properties. *)

\* While nothing runs, the rows are what the location holds: every file and folder in
\* it once, and nothing of elsewhere; unless the location is gone, and the last one too.
\* An entry that was freed is read only when rows were selected, or gone into, when the
\* archive was listed.
ShowsLocationUnlessGone ==
    LET here == Location(w)
        inside == { e \in disk : IsPrefix(here, e.path) /\ Len(e.path) > Len(here) }
    IN /\ w.freed_read => w.selected_then
       /\ (Idle /\ w.archive_present /\ w.list_mode = "AS_DIR" /\ w.filter = None
             /\ DirExists(w.files, here))
            => /\ w.rows_live
               /\ { row.shown : row \in w.rows }
                    = { SubSeq(e.path, 1, Len(here) + 1) : e \in inside }

\* When the archive has been listed again the window is where it was, or at the nearest
\* folder above it that there still is.
StaysNear ==
    [][ (w.loading /\ w.archive_present /\ ~w'.loading /\ w'.archive_present
           /\ w'.list_mode = "AS_DIR")
          => LET was == Location(w)
                 here == Location(w')
             IN /\ IsPrefix(here, was) /\ DirExists(w'.files, here)
                /\ \A i \in (Len(here) + 1)..Len(was) : ~DirExists(w'.files, SubSeq(was, 1, i))
      ]_<<disk, w>>
====

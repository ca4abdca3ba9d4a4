---- MODULE FrWindow ----
(* A window of File Roller (fr-window.c) as the one that decides what the archive does next: the
   batch it was started with by the command line or over D-Bus, what its user asks, and the
   dialogs that stand between the two (extract, compress, new archive, password, overwrite,
   search for a package, error).  Every end of an operation comes to action_performed, which
   reports it and, if it may, goes on to the next action of a batch.

   A handler is one step of the main loop.  What it calls last, the next action of the batch, is
   a step of its own that nothing else can precede. FrArchive has the parts of an operation and
   what they leave in the archive; FrBrowse and FrEdit what is shown of it and changed by way of
   that.  Left out: the progress. *)
EXTENDS Naturals, SequencesExt

CONSTANTS
    Archives,   \* names of archives
    Kind,       \* what each name stands for
    Files,      \* what every archive holds
    There,      \* what is at the destination under the name of each of them
    Selections, \* what may be chosen of them, <<>> for all: a bound
    None        \* NULL

Kinds == {"plain", "encrypted", "read_only", "absent", "foreign", "unsupported"}

\* FrAction: what takes time
Actions == {"LOADING", "LISTING", "GETTING_FILE_LIST", "ADDING", "DELETING", "EXTRACTING",
            "TESTING"}

ASSUME WindowAssumption ==
    /\ Kind \in [Archives -> Kinds]
    /\ There \in [Files -> {"nothing", "file", "folder"}]
    /\ <<>> \in Selections /\ \A l \in Selections : l \in Seq(Files) /\ IsInjective(l)
    /\ None \notin Archives \cup {"GETTING_FILE_LIST", "ADDING"}
    /\ None \notin [action : Actions, files : Seq(Files), replaced : SUBSET Files,
                    unasked : BOOLEAN, stopped : BOOLEAN]

VARIABLE w  \* the window, a record

----
(* Actions of a batch, and the batches there are. *)

\* FRBatchAction and its data; the empty list of files is NULL, that is all.  The
\* destination is looked for when it runs; allowed, what may be replaced, is a ghost.
Act(type, archive) ==
    [type |-> type, archive |-> archive, files |-> <<>>, overwrite |-> "NO",
     dir |-> "unknown", allowed |-> {}]
NoAct == Act("NONE", None)

\* fr_window_set_batch__extract_here, fr_window_set_batch__extract and
\* fr_window_set_batch__add; for each archive named, then QUIT.
ExtractBatch(type, archives) ==
    FlattenSeq([i \in DOMAIN archives |->
        << Act("LOAD", archives[i]), Act(type, archives[i]), Act("CLOSE", None) >>])
      \o << Act("QUIT", None) >>
AddBatch(archive) ==
    << IF archive = None THEN Act("OPEN", None) ELSE Act("LOAD", archive),
       Act("ADD", archive), Act("CLOSE", None), Act("QUIT", None) >>

Working == {"ADD", "EXTRACT", "EXTRACT_HERE", "EXTRACT_INTERACT"}

----
(* The window, its batch and its dialogs. *)

Busy(s) == s.op # None \/ s.converted # None   \* activity_ref > 0

\* The window is freed; whoever goes on to use it reads freed memory, and what
\* happens then is not followed.
Destroy(s) == [s EXCEPT !.alive = FALSE, !.dialogs = {}, !.todo = "nothing",
                        !.op = None, !.converted = None, !.current = NoAct, !.asker = "nothing"]
Use(s) == [s EXCEPT !.touched = @ \/ ~s.alive]

\* Nothing is left that would go on with a batch.
Abandon(s) == [s EXCEPT !.abandoned = @ \/ ~s.shown]

Show(s, dialog) == [s EXCEPT !.dialogs = @ \cup {dialog}]

\* fr_window_archive_close
Close(s) ==
    IF ~s.present THEN s
    ELSE [s EXCEPT !.present = FALSE, !.new = FALSE, !.password = FALSE]

\* Mutant: a batch that is stopped leaves its window, as a user's does.
StopBatch_KeepsWindow(s) ==
    LET t == [s EXCEPT !.use_default_dir = FALSE] IN
      IF ~s.non_interactive THEN s
      ELSE IF s.batch_mode THEN [t EXCEPT !.batch_mode = FALSE]
      ELSE Close([t EXCEPT !.shown = TRUE])

\* fr_window_stop_batch
StopBatch(s) ==
    LET t == [s EXCEPT !.use_default_dir = FALSE] IN
      IF ~s.non_interactive THEN s
      ELSE IF s.batch_mode /\ ~s.showing_error_dialog THEN Destroy(t)
      ELSE IF s.batch_mode THEN [t EXCEPT !.batch_mode = FALSE]
      ELSE Close([t EXCEPT !.shown = TRUE])

\* fr_window_exec_next_batch_action; NULL is 0, after which comes the first again.
ExecNext(s) ==
    LET next == IF s.batch_action < Len(s.list) THEN s.batch_action + 1 ELSE 0
    IN [s EXCEPT !.batch_action = next,
                 !.batch_mode = @ /\ next # 0,
                 !.todo = IF next # 0 THEN "list" ELSE "nothing"]


\* fr_window_show_error_dialog
ShowError(s) ==
    IF s.batch_mode /\ ~s.use_progress_dialog
    THEN Destroy([s EXCEPT !.replies = Append(@, "error")])
    ELSE [Show(s, "error") EXCEPT !.showing_error_dialog = TRUE,
                                  !.destroy_with_error_dialog = @ \/ s.batch_mode]

AskPassword(s, asker) ==
    [Show(s, "password") EXCEPT !.asker = asker, !.left = @ \/ s.converting]

----
(* Operations begun, and the end of each of them. *)

\* What it replaces, and whether it adds what was not meant for the archive, are ghosts.
Op(action) ==
    [action |-> action, files |-> <<>>, replaced |-> {}, unasked |-> FALSE, stopped |-> FALSE]

Start(s, op) == [s EXCEPT !.overlap = @ \/ s.op # None, !.op = op]

StartLoad(s) == Start(s, Op("LOADING"))

\* fr_window_archive_reload
Reload(s) == IF Busy(s) \/ s.new THEN s ELSE StartLoad(s)

\* handle_errors, but for a format that is not supported.
HandleErrors(s, action, error) ==
    CASE error = "ASK_PASSWORD" -> AskPassword(s, action)
      [] error = "GENERIC" -> ShowError(IF action \in {"LISTING", "LOADING"} THEN Close(s) ELSE s)
      [] OTHER -> s

\* How action_performed ends: only what was done, or stopped, goes on.
Continue(s, error) ==
    CASE error = "NONE" -> ExecNext(s) [] error = "STOPPED" -> StopBatch(s) [] OTHER -> s

\* Mutant: a batch goes on when its archive is loaded, before it is listed.
LoadingDone_Continues(s, error) ==
    IF error = "NONE" THEN ExecNext(s)
    ELSE IF s.non_interactive THEN Use(StopBatch(Close(s))) ELSE s

\* The archive_loaded signal is emitted whatever became of the window.
LoadingDone(s, error) ==
    IF error # "NONE" /\ s.non_interactive THEN Use(StopBatch(Close(s))) ELSE s

ListingDone(s, error) ==
    IF error = "NONE"
    THEN Continue([s EXCEPT !.new = @ /\ s.present, !.present = TRUE,
                            !.shown = @ \/ (s.non_interactive /\ ~s.batch_mode)], error)
    ELSE Continue([Close(s) EXCEPT !.password = FALSE], error)

\* Mutant: a batch that was stopped while adding goes on.
AddingDone_StoppedIsDone(s, error) ==
    LET t == IF error = "NONE" THEN [s EXCEPT !.new = FALSE, !.meant = None,
                                                !.saved = IF s.new THEN @ \cup {s.uri} ELSE @] ELSE s
    IN IF ~s.batch_mode THEN Reload(t)
       ELSE Continue(t, IF error = "STOPPED" THEN "NONE" ELSE error)

AddingDone(s, error) ==
    LET t == IF error = "NONE" THEN [s EXCEPT !.new = FALSE, !.meant = None,
                                                !.saved = IF s.new THEN @ \cup {s.uri} ELSE @] ELSE s
    IN IF ~s.batch_mode THEN Reload(t) ELSE Continue(t, error)

\* fr_window_convert_data_free; the other archive is freed while it lists files.
ConvertDataFree(s) ==
    [s EXCEPT !.converting = FALSE, !.converted = None, !.whole = FALSE, !.left = FALSE,
              !.orphaned = IF s.converted = None THEN @ ELSE "replaced"]


ExtractingDone(s, error) ==
    IF error # "NONE" THEN Continue(IF s.converting THEN ConvertDataFree(s) ELSE s, error)
    ELSE Continue(IF s.converting THEN [s EXCEPT !.converted = "GETTING_FILE_LIST"] ELSE s, error)

\* action_performed
Done(s, action, error) ==
    LET h == HandleErrors(s, action, error) IN
      IF ~h.alive THEN Use(h)
      ELSE IF error = "ASK_PASSWORD" THEN h
      ELSE CASE action = "CREATING"   -> Continue(h, error)
             [] action = "LOADING"    -> LoadingDone(h, error)
             [] action = "LISTING"    -> ListingDone(h, error)
             [] action = "DELETING"   -> Reload(h)
             [] action = "ADDING"     -> AddingDone(h, error)
             [] action = "EXTRACTING" -> ExtractingDone(h, error)
             [] OTHER                 -> h

\* dlg_package_installer finds nothing to install: the end it reports replaces
\* the error it was called for, and the first handler takes the end for its own.
UnsupportedDone(s) == LoadingDone(Done(s, "LOADING", "GENERIC"), "GENERIC")

----
(* What a window is asked, by a batch or by its user. *)

Exists(s, archive) == Kind[archive] \notin {"absent", "foreign"} \/ archive \in s.saved

\* fr_window_archive_open; a window that shows an archive opens it in another.
ArchiveOpen(s, archive) ==
    IF s.present THEN s
    ELSE StartLoad([s EXCEPT !.uri = archive, !.current = Act("LOAD", archive)])

\* fr_window_archive_new
ArchiveNew(s, archive) ==
    IF Kind[archive] = "foreign" THEN Done(s, "CREATING", "GENERIC")
    ELSE Done([s EXCEPT !.uri = archive, !.present = TRUE, !.new = TRUE,
                          !.meant = IF s.list = <<>> THEN None ELSE archive],
              "CREATING", "NONE")

\* fr_window_archive_add_dropped_items; own is set when the archive is one of them.
AddDropped(s, own, unasked) ==
    IF Kind[s.uri] = "read_only" \/ own THEN Done(s, "ADDING", "GENERIC")
    ELSE Start(s, [Op("GETTING_FILE_LIST") EXCEPT !.unasked = unasked])

NeedsPassword(s) == Kind[s.uri] = "encrypted" /\ ~s.password

\* _fr_window_archive_extract_from_edata; what is replaced is known when it starts.
StartExtract(s) ==
    LET act      == s.current
        asked    == IF act.files = <<>> THEN Files ELSE ToSet(act.files)
        replaced == IF act.dir = "there" /\ act.overwrite = "YES"
                    THEN {f \in asked : There[f] = "file"} ELSE {}
    IN Start([s EXCEPT !.ask = 0],
             [Op("EXTRACTING") EXCEPT !.files = act.files, !.replaced = replaced])

\* Mutant: a file that is not there ends the asking.
AskOverwrite_StopsAtFree(s, from) ==
    LET files == s.current.files
        taken == {i \in from .. Len(files) : There[files[i]] # "nothing"}
    IN IF taken = {} \/ There[files[from]] = "nothing"
       THEN StartExtract([s EXCEPT !.current.overwrite = "YES"])
       ELSE [Show(s, "overwrite") EXCEPT !.ask = from]

\* _fr_window_ask_overwrite_dialog, from one of the files to the next that is
\* there.  A folder that is there is looked at again, and again.
AskOverwrite(s, from) ==
    LET files == s.current.files
        taken == {i \in from .. Len(files) : There[files[i]] # "nothing"}
        next  == CHOOSE i \in taken : \A j \in taken : i <= j
    IN IF taken = {} THEN StartExtract([s EXCEPT !.current.overwrite = "YES"])
       ELSE IF There[files[next]] = "folder" THEN [s EXCEPT !.hung = TRUE]
       ELSE [Show(s, "overwrite") EXCEPT !.ask = next]

\* fr_window_archive_extract; dir says whether the destination is there, is made
\* or cannot be.
ArchiveExtract(s, act, dir) ==
    LET t == [s EXCEPT !.current = [act EXCEPT !.type = "EXTRACT", !.dir = dir]] IN
      IF NeedsPassword(s) THEN AskPassword([s EXCEPT !.current = [act EXCEPT !.type = "EXTRACT"]], "EXTRACT")
      ELSE IF dir = "refused" THEN LET e == ShowError(t) IN StopBatch(Use(e))
      ELSE IF act.overwrite # "ASK" THEN StartExtract(t)
      ELSE IF dir = "made" THEN StartExtract([t EXCEPT !.current.overwrite = "YES"])
      ELSE AskOverwrite(t, 1)

\* fr_window_archive_extract_here, into a folder of its own.
ExtractHere(s, made) ==
    LET t == [s EXCEPT !.current = [Act("EXTRACT", None) EXCEPT !.dir = "made"]] IN
      IF NeedsPassword(s) THEN AskPassword(t, "EXTRACT_HERE")
      ELSE IF made THEN StartExtract(t) ELSE Done(t, "EXTRACTING", "GENERIC")

\* fr_window_archive_save_as
SaveAs(s, created) ==
    LET t == ConvertDataFree(s) IN
      IF ~created THEN t
      ELSE Start([t EXCEPT !.current = Act("SAVE_AS", None), !.converting = TRUE],
                 Op("EXTRACTING"))

\* fr_window_archive_test
ArchiveTest(s) == Start([s EXCEPT !.current = Act("TEST", None)], Op("TESTING"))

\* fr_window_exec_batch_action; what it finds outside is chosen.
ExecBatchAction(s, act, dir, ok) ==
    CASE act.type = "LOAD" -> IF Exists(s, act.archive)
                              THEN ArchiveOpen([s EXCEPT !.meant = act.archive], act.archive)
                              ELSE ArchiveNew(s, act.archive)
      [] act.type = "ADD" -> AddDropped(s, ~ok, s.meant # s.uri)
      [] act.type = "OPEN" -> [Show(s, "batch_add") EXCEPT !.clicked = FALSE]
      [] act.type = "EXTRACT" -> ArchiveExtract(s, act, dir)
      [] act.type = "EXTRACT_HERE" -> ExtractHere(s, ok)
      [] act.type = "EXTRACT_INTERACT" ->
           IF s.use_default_dir
           THEN ArchiveExtract(s, [act EXCEPT !.overwrite = "ASK"], dir)
           ELSE [Show(s, "extract") EXCEPT !.clicked = FALSE]
      [] act.type = "SAVE_AS" -> SaveAs(s, ok)
      [] act.type = "TEST" -> ArchiveTest(s)
      [] act.type = "CLOSE" -> ExecNext(Close(s))
      [] act.type = "QUIT" -> Destroy([s EXCEPT !.replies = Append(@, "done")])
      [] OTHER -> s

----
(* The main loop: what is under way ends. *)

\* The program is here to do something: not at the end of one of its faults.
Sound == w.alive /\ ~w.hung /\ ~w.overlap /\ w.orphaned = "no"
Idle == Sound /\ w.todo = "nothing"

\* The next action of the batch, or the one a dialog has held up.
ExecNextAction ==
    /\ Sound /\ w.todo # "nothing"
    /\ LET act == IF w.todo = "list" THEN w.list[w.batch_action] ELSE w.current IN
         \E dir \in {"there", "made", "refused"}, ok \in BOOLEAN :
           /\ act.dir # "unknown" => dir = act.dir
           /\ w' = ExecBatchAction([w EXCEPT !.todo = "nothing"], act, dir, ok)

\* The errors an operation may end with.
Errors(op) ==
    {"NONE", "GENERIC"}
      \cup (IF op.stopped THEN {"STOPPED"} ELSE {})
      \cup (IF Kind[w.uri] = "encrypted" /\ op.action \notin {"LOADING", "GETTING_FILE_LIST"}
            THEN {"ASK_PASSWORD"} ELSE {})

\* What a batch has done, and a conversion has to work with.
Record(s, action, error) ==
    IF error # "NONE" \/ action \notin {"ADDING", "EXTRACTING"} THEN s
    ELSE [s EXCEPT !.effects = IF s.batch_mode THEN @ \cup {<<s.batch_action, s.uri>>} ELSE @,
                   !.whole = @ \/ s.current.type = "SAVE_AS"]

\* The archive has told the end of what it did.
OperationEnds ==
    /\ Idle /\ w.op # None /\ w.op.action \notin {"LOADING", "GETTING_FILE_LIST"}
    /\ \E error \in Errors(w.op) :
         /\ error = "NONE" => w.op.action = "ADDING" \/ Exists(w, w.uri)
         /\ w' = Done(Record([w EXCEPT !.op = None], w.op.action, error), w.op.action, error)

\* load_local_archive lists what it has loaded.
LoadEnds ==
    /\ Idle /\ w.op # None /\ w.op.action = "LOADING"
    /\ LET s == [w EXCEPT !.op = None] IN
         \/ Kind[w.uri] # "unsupported" /\ Exists(w, w.uri)
            /\ w' = Start(Done(s, "LOADING", "NONE"), Op("LISTING"))
         \/ Kind[w.uri] # "unsupported" /\ w' = Done(s, "LOADING", "GENERIC")
         \/ Kind[w.uri] = "unsupported"
            /\ w' \in {UnsupportedDone(s), [Show(s, "install") EXCEPT !.asker = "LOADING"]}

\* The files to add are added, if there are any.
FileListEnds ==
    /\ Idle /\ w.op # None /\ w.op.action = "GETTING_FILE_LIST"
    /\ LET s == [w EXCEPT !.op = None] IN
         \/ w' = Start(Done(s, "GETTING_FILE_LIST", "NONE"), [w.op EXCEPT !.action = "ADDING"])
         \/ w' = Abandon(Done(s, "GETTING_FILE_LIST", "NONE"))
         \/ w' = Done(s, "GETTING_FILE_LIST", "GENERIC")

\* convert__action_performed; the files it lists are added to the new archive.
ConversionEnds ==
    /\ Idle /\ w.converted # None
    /\ \/ w.converted = "GETTING_FILE_LIST" /\ w' \in {[w EXCEPT !.converted = "ADDING"],
                                                       [w EXCEPT !.converted = None]}
       \/ w.converted = "ADDING" /\ \E failed \in BOOLEAN :
            LET s == [w EXCEPT !.converted = None]
            IN w' = ConvertDataFree(IF failed THEN ShowError(s) ELSE s)

----
(* The main loop: a dialog is answered. *)

Answers(dialog) == Idle /\ dialog \in w.dialogs
Answered(dialog) == [w EXCEPT !.dialogs = @ \ {dialog}]

\* Mutant: what was last begun is begun again, also in a batch.
Again_Current(s) == [s EXCEPT !.todo = "current"]

\* What a batch goes on with, or what was last asked of a window.
Again(s) ==
    [s EXCEPT !.todo = IF ~s.batch_mode THEN "current"
                       ELSE IF s.batch_action # 0 THEN "list" ELSE "nothing",
              !.batch_mode = @ /\ s.batch_action # 0]

\* error_dialog_response_cb
AnswerError ==
    /\ Answers("error")
    /\ LET s == [Answered("error") EXCEPT !.showing_error_dialog = FALSE]
       IN w' = IF s.destroy_with_error_dialog THEN Destroy(s) ELSE s

\* ask_password__response_cb
AnswerPassword ==
    /\ Answers("password")
    /\ LET s == [Answered("password") EXCEPT !.asker = "nothing"] IN
         \/ w' = Again([s EXCEPT !.password = TRUE])
         \/ w' = IF s.batch_mode THEN Destroy(s) ELSE [s EXCEPT !.current = NoAct]

\* confirm_search_dialog_response_cb
AnswerInstall ==
    /\ Answers("install")
    /\ LET s == Answered("install") IN
         \/ w' = [s EXCEPT !.installing = TRUE]
         \/ w' = StopBatch([s EXCEPT !.asker = "nothing"])

\* packagekit_install_package_names_ready_cb and package_installer_terminated; the
\* window may have been used in the meantime, and is not freed before the end.
InstallEnds ==
    /\ Idle /\ w.installing
    /\ LET s == [w EXCEPT !.installing = FALSE, !.asker = "nothing"] IN
         \/ w' = Again(s)
         \/ \E error \in {"STOPPED", "GENERIC"} :
              w' = [Done(s, "LOADING", error) EXCEPT !.touched = w.touched]

\* overwrite_dialog_response_cb
AnswerOverwrite ==
    /\ Answers("overwrite")
    /\ LET s == Answered("overwrite")
           f == s.current.files[s.ask]
       IN \/ w' = StartExtract([s EXCEPT !.current.overwrite = "YES",
                                         !.current.allowed = @ \cup ToSet(s.current.files)])
          \/ w' = AskOverwrite([s EXCEPT !.current.allowed = @ \cup {f}], s.ask + 1)
          \/ w' = AskOverwrite([s EXCEPT !.current.files = RemoveAt(@, s.ask)], s.ask)
          \/ w' = StopBatch([s EXCEPT !.ask = 0])

\* destroy_cb of a dialog that was closed: the batch is stopped if its button was
\* never clicked.
Closed(dialog) ==
    LET s == [Answered(dialog) EXCEPT !.clicked = FALSE]
    IN IF w.clicked THEN Abandon(s) ELSE StopBatch(s)

\* extract_cb and destroy_cb of dlg-extract.c.  A folder that cannot be used leaves
\* the dialog as it was, but for a batch if the folder is not to be made.
AnswerExtract ==
    /\ Answers("extract")
    /\ LET s == [Answered("extract") EXCEPT !.clicked = FALSE] IN
         \/ w' = Closed("extract")
         \/ w' = [w EXCEPT !.clicked = TRUE]
         \/ w' = Abandon(s)
         \/ \E files \in Selections, overwrite \in BOOLEAN, dir \in {"there", "made"} :
              w' = ArchiveExtract([s EXCEPT !.use_default_dir = s.non_interactive],
                                  [Act("EXTRACT", None) EXCEPT !.files = files,
                                     !.overwrite = IF overwrite THEN "YES" ELSE "NO",
                                     !.allowed = IF overwrite THEN Files ELSE {}], dir)

\* add_clicked_cb and destroy_cb of dlg-batch-add.c; an archive of that name that
\* was there is deleted.
AnswerBatchAdd ==
    /\ Answers("batch_add")
    /\ LET s == [Answered("batch_add") EXCEPT !.clicked = FALSE] IN
         \/ w' = Closed("batch_add")
         \/ w' = [w EXCEPT !.clicked = TRUE]
         \/ \E archive \in Archives : Kind[archive] = "absent" /\ w' = ArchiveNew(s, archive)

\* new_file_response_cb and new_archive, of a window or for files that were dropped.
AnswerNew ==
    /\ Answers("new")
    /\ \/ w' = Done(Answered("new"), "CREATING", "STOPPED")
       \/ w.present /\ w' = Answered("new")   \* in another window
       \/ \E archive \in Archives :
            /\ ~w.present /\ ~Exists(w, archive)
            /\ w' = IF Kind[archive] = "foreign" THEN ArchiveNew(w, archive)
                    ELSE ArchiveNew(Answered("new"), archive)

----
(* The main loop: what the user may ask of a window that is shown. *)

MayAsk == Idle /\ w.shown /\ w.dialogs = {} /\ ~Busy(w)
AsksIdle == MayAsk /\ ~w.installing
AsksArchive == AsksIdle /\ w.present
CanExtract == AsksArchive /\ ~w.new
Writable(s) == Kind[s.uri] # "read_only"

\* While a package is searched for, he opens another archive and no more: a bound.
RequestOpen ==
    /\ MayAsk
    /\ \E archive \in Archives :
         w' = ArchiveOpen([w EXCEPT !.meanwhile = w.installing], archive)

RequestNew == AsksIdle /\ w' = Show(w, "new")

\* fr_window_drag_data_received
RequestDrop ==
    /\ AsksIdle
    /\ w' = IF w.present /\ Writable(w) THEN AddDropped(w, FALSE, FALSE)
            ELSE Show([w EXCEPT !.list = << Act("ADD", None) >>, !.batch_action = 0,
                                    !.meant = None], "new")

RequestRemove ==
    /\ CanExtract /\ Writable(w) /\ w' = Start(w, Op("DELETING"))

RequestExtract == CanExtract /\ w' = [Show(w, "extract") EXCEPT !.clicked = FALSE]

\* file_list_drag_end
RequestDragOut ==
    /\ CanExtract
    /\ \E files \in Selections \ {<<>>}, dir \in {"there", "made", "refused"} :
         w' = ArchiveExtract(w, [Act("EXTRACT", None) EXCEPT !.files = files, !.overwrite = "ASK"], dir)

RequestTest == AsksArchive /\ w' = ArchiveTest(w)

RequestSaveAs == AsksArchive /\ \E created \in BOOLEAN : w' = SaveAs(w, created)

RequestReload == AsksArchive /\ w' = Reload(w)

\* fr_window_close
RequestClose == AsksIdle /\ w' = Destroy(w)

\* fr_window_stop, where it may be asked: not while an archive that was there is
\* changed.  It reaches the commands that are run, not GIO.
RequestStop ==
    /\ Idle /\ w.dialogs = {}
    /\ \/ w.op # None /\ (w.op.action \notin {"DELETING", "ADDING"} \/ (w.op.action = "ADDING" /\ w.new))
       \/ w.converted = "GETTING_FILE_LIST"
    /\ LET s == IF w.op = None \/ w.op.action \in {"LOADING", "GETTING_FILE_LIST"} THEN w
                ELSE [w EXCEPT !.op.stopped = TRUE]
       IN w' = IF w.converting THEN [ConvertDataFree(s) EXCEPT
                                          !.orphaned = IF w.converted = None THEN @ ELSE "stopped"]
                ELSE s

----
\* fr_window_init, then fr_window_new_batch and fr_window_start_batch for a batch.
Window(batch, use_progress_dialog) ==
    [ alive |-> TRUE, shown |-> batch = <<>>, non_interactive |-> batch # <<>>,
      use_progress_dialog |-> use_progress_dialog,
      batch_mode |-> batch # <<>>, list |-> batch, batch_action |-> IF batch = <<>> THEN 0 ELSE 1,
      todo |-> IF batch = <<>> THEN "nothing" ELSE "list",
      current |-> NoAct, use_default_dir |-> FALSE,
      uri |-> None, present |-> FALSE, new |-> FALSE, password |-> FALSE,
      op |-> None, converting |-> FALSE, converted |-> None,
      dialogs |-> {}, clicked |-> FALSE, showing_error_dialog |-> FALSE,
      destroy_with_error_dialog |-> FALSE, installing |-> FALSE, ask |-> 0,
      hung |-> FALSE, saved |-> {},
      \* what follows only observes
      replies |-> <<>>, effects |-> {}, touched |-> FALSE, orphaned |-> "no", overlap |-> FALSE,
      meant |-> None, asker |-> "nothing", meanwhile |-> FALSE, abandoned |-> FALSE,
      whole |-> FALSE, left |-> FALSE ]

Batches ==
    {ExtractBatch(type, archives) : type \in Working \ {"ADD"}, archives \in SeqOf(Archives, 2) \ {<<>>}}
      \cup {AddBatch(archive) : archive \in Archives \cup {None}}

\* A window of the user, or one for a batch; only D-Bus asks for no dialogs.
Init ==
    \/ w = Window(<<>>, TRUE)
    \/ \E batch \in Batches, use_progress_dialog \in BOOLEAN : w = Window(batch, use_progress_dialog)

Next ==
    \/ ExecNextAction
    \/ OperationEnds \/ LoadEnds \/ FileListEnds \/ ConversionEnds \/ InstallEnds
    \/ AnswerError \/ AnswerPassword \/ AnswerInstall \/ AnswerOverwrite
    \/ AnswerExtract \/ AnswerBatchAdd \/ AnswerNew
    \/ RequestOpen \/ RequestNew \/ RequestDrop \/ RequestRemove \/ RequestExtract
    \/ RequestDragOut \/ RequestTest \/ RequestSaveAs \/ RequestReload
    \/ RequestClose \/ RequestStop

Spec == Init /\ [][Next]_w

----
(* Properties. *)

\* Files are added to the archive they were meant for, once, and one operation at a
\* time is under way.  Unless files were dropped on a window that cannot take them:
\* they stay in its list, and whatever it lists or extracts next adds them.  Or the
\* window was used while a package was searched for, to go on when it is found.
Dropped == ~w.non_interactive /\ w.list # <<>>
AddsAskedAndOneAtATimeUnless ==
    w.overlap \/ (w.op # None /\ w.op.unasked) => Dropped \/ w.meanwhile

AskedBy(asker) ==
    CASE asker \in {"LOADING", "LISTING"} -> {"LOAD"}
      [] asker = "ADDING" -> {"ADD"}
      [] asker = "TESTING" -> {"TEST"}
      [] asker = "EXTRACT_HERE" -> {"EXTRACT_HERE"}
      [] asker = "EXTRACT" -> {"EXTRACT", "EXTRACT_INTERACT"}
      [] OTHER -> {"EXTRACT", "EXTRACT_HERE", "EXTRACT_INTERACT", "SAVE_AS"}

\* The action begun again when a password was given, or a package installed, is the
\* one that could not go on without it.  Unless that was not kept (an archive that is
\* changed, or listed again), or another was asked for while the package was searched.
ResumesWhatAskedUnlessEdit ==
    [][w.asker # "nothing" /\ w'.asker = "nothing" /\ w'.todo # "nothing" =>
         \/ (IF w'.todo = "list" THEN w.list[w'.batch_action] ELSE w'.current).type \in AskedBy(w.asker)
         \/ ~w.batch_mode /\ (w.meanwhile \/ (w.asker = "LISTING" /\ w.present)
                               \/ w.asker \in {"ADDING", "DELETING"})]_w

\* An extraction of chosen files replaces those the user agreed to, in the one dialog
\* or in the other, and no others.
OverwritesOnlyAllowedUnlessAll ==
    w.op # None /\ w.op.files # <<>> => w.op.replaced \subseteq w.current.allowed

\* A batch is told to be done once, when each of its actions was, on its archive; and
\* an archive is saved under another name from all that the first one holds.  Unless
\* the password for it was asked for, and not given.
DoneMeansDone ==
    /\ Len(w.replies) <= 1
    /\ w.replies = <<"done">> =>
         \A i \in DOMAIN w.list : w.list[i].type \in Working =>
           \E e \in w.effects : e[1] = i /\ w.list[i].archive \in {None, e[2]}
    /\ w.converted # None => w.whole \/ w.left

\* A batch has no window to be closed: it is under way, or a dialog is shown, till it
\* is gone.  Unless a dialog that refused something was closed, or there was nothing to
\* add, or a folder is there where one is to be extracted: then it stays for ever.
\* And a window is not used when it was destroyed, but to tell an error over D-Bus; nor is
\* the new archive of a conversion freed while its files are listed, but to stop it.
LivesWhileNeededUnless ==
    /\ w.alive /\ ~w.shown /\ w.todo = "nothing" =>
         Busy(w) \/ w.dialogs # {} \/ w.installing \/ w.abandoned \/ w.hung
    /\ w.touched => w.replies = <<"error">>
    /\ w.orphaned = "replaced" => Dropped \/ w.meanwhile
====

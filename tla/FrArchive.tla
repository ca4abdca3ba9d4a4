---- MODULE FrArchive ----
(* The archive of a File Roller window (fr-archive.c) and what the window does when it is told
   that something ended (fr-window.c): an operation is a chain of scripts run by the process and
   of GIO transfers, each begun by the handler of the end of the one before.  A remote archive is
   changed in a local copy that is sent back.  Items dropped from several folders are added a
   part at a time.

   A handler is one step of the main loop, built from one operator per C function.  FrProcess has
   the detail of a script and of its stop, FrTar what a script that fails leaves.  Left out:
   passwords, formats without a command, archives that cannot be written, volumes, "update",
   extract here, batches, conversion. *)
EXTENDS Naturals, SequencesExt

CONSTANTS
    Items,         \* what may be added
    Folders,       \* those that are folders
    Home,          \* where each item is
    RemotePlaces,  \* places that are not local
    None           \* NULL, or a file or folder that does not exist

ASSUME ArchiveAssumption ==
    Folders \subseteq Items /\ DOMAIN Home = Items /\ \A items \in SUBSET Items : items # None

VARIABLE fr  \* the archive, its process, its transfer and its window, a record

Contents == {None} \cup SUBSET Items
Lists == {l \in SeqOf(Items, Cardinality(Items)) : IsInjective(l)}  \* of dropped items

\* A script has the action that it is for, its items, and where they are taken from: they are
\* "local", in "temp", or, for tar, in a folder that is "nowhere".  A transfer has its kind,
\* "load", "list", "copy_from", "upload" or "copy_extracted", its items and XferData.action.
\* The fields of fr are named for what they stand for: is_remote, what the archive the user
\* named holds (file) and its local copy (local), whether the command's name is that of the copy
\* (bound), continue_adding_dropped_items, what is left of the dropped items, the folders for
\* what is copied, the script that runs and the transfer that GIO will call back for; and, as
\* ghosts, what the archive is to hold (wanted), whether something was left by operations
\* before (inherited), and what success was told of (told).
Busy(s) == s.script # None \/ s.transfer # None
Held(content) == IF content = None THEN {} ELSE content

----
(* What the window does at START and DONE. *)

StartActivity(s) == [s EXCEPT !.activity_ref = @ + 1]

StopActivity(s) == [s EXCEPT !.activity_ref = IF @ = 0 THEN 0 ELSE @ - 1]

\* Starting the process, which emits START.
StartScript(s, action, items, from) ==
    [StartActivity(s) EXCEPT
        !.script = [action |-> action, items |-> items, from |-> from]]

\* Calling GIO; START, where there is one, is emitted by the caller.
StartTransfer(s, kind, items, action) ==
    [s EXCEPT !.transfer = [kind |-> kind, items |-> items, action |-> action]]

\* fr_archive_set_uri: the local copy of a remote archive is removed, and the
\* command keeps its name until load_local_archive makes another.
SetUri(s) == IF s.remote THEN [s EXCEPT !.local = None, !.bound = FALSE] ELSE s

\* fr_archive_load; that the archive is not there is found by the transfer.
Load(s) == StartTransfer(SetUri(StartActivity(s)), "load", {}, "none")

\* fr_window_archive_reload
Reload(s) == IF s.activity_ref > 0 \/ s.archive_new THEN s ELSE Load(s)

Close(s) == [s EXCEPT !.present = FALSE, !.archive_new = FALSE]

\* The user is told of an end, and of how it ended.
Tell(s, action, failed) ==
    [StopActivity(s) EXCEPT
        !.told = IF ~failed /\ action \in {"ADDING", "DELETING", "EXTRACTING"} THEN action ELSE @]

\* A listing is there to show, for the first time if the archive was being opened.
Show(s) == IF s.present THEN s ELSE [s EXCEPT !.present = TRUE, !.archive_new = FALSE]

\* Mutant: the window does not reload after an add that failed.
WindowDone_ReloadsIfDone(s, action, failed) ==
    LET t == Tell(s, action, failed) IN
      CASE action = "LISTING" -> IF failed THEN Close(t) ELSE Show(t)
        [] action = "DELETING" -> Reload(t)
        [] action = "ADDING" -> IF failed THEN t ELSE Reload([t EXCEPT !.archive_new = FALSE])
        [] OTHER -> t

\* Mutant: an archive that cannot be loaded is loaded again.
WindowDone_RetriesLoad(s, action, failed) ==
    LET t == Tell(s, action, failed) IN
      CASE action = "LISTING" -> IF failed THEN Close(t) ELSE Show(t)
        [] action = "DELETING" -> Reload(t)
        [] action = "ADDING" -> Reload(IF failed THEN t ELSE [t EXCEPT !.archive_new = FALSE])
        [] action = "LOADING" -> IF failed THEN Reload(t) ELSE t
        [] OTHER -> t

\* action_performed of the window.
WindowDone(s, action, failed) ==
    LET t == Tell(s, action, failed) IN
      CASE action = "LISTING" -> IF failed THEN Close(t) ELSE Show(t)
        [] action = "DELETING" -> Reload(t)
        [] action = "ADDING" -> Reload(IF failed THEN t ELSE [t EXCEPT !.archive_new = FALSE])
        [] OTHER -> t

----
(* Adding. *)

\* copy_remote_files, into a new folder that takes the place of the last one.
CopyRemoteFiles(s, items, made) ==
    LET t == [s EXCEPT !.temp_dir = TRUE]
    IN IF made THEN StartTransfer(StartActivity(t), "copy_from", items, "none")
       ELSE WindowDone(t, "COPYING_FROM_REMOTE", TRUE)

\* fr_archive_add_files; made says whether the folders for the copies were made.
AddFiles(s, items, place, made) ==
    IF place \in RemotePlaces THEN CopyRemoteFiles(s, items, made)
    ELSE StartScript(s, "ADDING", items, "local")

\* fr_archive_add_items, fr_archive_add_directory, fr_archive_add_with_wildcard
AddItems(s, items) == StartTransfer(StartActivity(s), "list", items, "none")

SameDir(list) == \A i, j \in DOMAIN list : Home[list[i]] = Home[list[j]]
FirstFolder(list) == SelectInSeq(list, LAMBDA item : item \in Folders)

\* add_dropped_items.  Items of several folders, none of them a folder, are each
\* added from its own: tar is sent to a URI, which is not the name of a folder.
AddDroppedItems(s) ==
    LET list == s.dropped IN
      IF list = None THEN [s EXCEPT !.crashed = TRUE]
      ELSE IF list = <<>> THEN WindowDone([s EXCEPT !.dropped = None], "ADDING", FALSE)
      ELSE IF SameDir(list) THEN [AddItems(s, ToSet(list)) EXCEPT !.dropped = None]
      ELSE IF FirstFolder(list) # 0
      THEN AddItems([s EXCEPT !.dropped = RemoveAt(@, FirstFolder(list)), !.continue = TRUE],
                    {list[FirstFolder(list)]})
      ELSE [StartScript(s, "ADDING", ToSet(list), "nowhere") EXCEPT !.dropped = <<>>]

----
(* What the archive does when a script has ended (action_performed). *)

\* What changed the archive is told only when it is where the user has it.
Save(s, action) ==
    IF s.remote THEN StartTransfer(s, "upload", {}, action) ELSE WindowDone(s, action, FALSE)

\* Mutant: what was deleted is told before it is sent.
DeletingDone_NotSent(s, failed) == WindowDone(s, "DELETING", failed)

DeletingDone(s, failed) ==
    IF failed THEN WindowDone(s, "DELETING", TRUE) ELSE Save(s, "DELETING")

AddingDone(s, failed) ==
    LET t == [s EXCEPT !.temp_dir = FALSE] IN
      IF failed THEN WindowDone(s, "ADDING", TRUE)
      ELSE IF s.continue THEN AddDroppedItems(t)
      ELSE Save([t EXCEPT !.dropped = None], "ADDING")

ExtractingDone(s, failed) ==
    IF ~failed /\ s.remote_extraction THEN StartTransfer(s, "copy_extracted", {}, "none")
    ELSE WindowDone([s EXCEPT !.temp_extraction_dir = None], "EXTRACTING", failed)

ScriptDone(s, action, failed) ==
    CASE action = "DELETING"   -> DeletingDone(s, failed)
      [] action = "ADDING"     -> AddingDone(s, failed)
      [] action = "EXTRACTING" -> ExtractingDone(s, failed)
      [] OTHER                 -> WindowDone(s, action, failed)

\* What the commands of a script do when they do it.
Put(s, content) ==
    [s EXCEPT !.local = content, !.file = IF s.remote THEN @ ELSE content]

Effect(s, script) ==
    CASE script.action = "ADDING"   -> Put(s, Held(s.local) \cup script.items)
      [] script.action = "DELETING" -> Put(s, Held(s.local) \ script.items)
      [] script.action = "EXTRACTING" ->
           IF s.remote_extraction THEN [s EXCEPT !.temp_extraction_dir = Held(s.local)]
           ELSE s
      [] OTHER -> s

\* A script can do its work when its files and its folder are there.
CanRun(s, script) ==
    /\ s.bound /\ (script.action = "ADDING" \/ s.local # None)
    /\ (script.from = "local" \/ (script.from = "temp" /\ s.temp_dir))

----
(* What ends by itself: the process, and each kind of transfer.  A failure is any error, a stop
   included. *)

ProcessEnds ==
    /\ fr.script # None
    /\ \E failed, effect \in BOOLEAN :
         /\ ~failed => effect
         /\ effect => CanRun(fr, fr.script)
         /\ LET s == IF effect THEN Effect(fr, fr.script) ELSE fr
            IN fr' = ScriptDone([s EXCEPT !.script = None], fr.script.action, failed)

TransferEnds(kind) == fr.transfer # None /\ fr.transfer.kind = kind
Ended == [fr EXCEPT !.transfer = None]

\* copy_remote_file_done and load_local_archive, which goes on to list it.
LoadEnds ==
    /\ TransferEnds("load")
    /\ \E failed \in BOOLEAN :
         LET s == WindowDone(Ended, "LOADING", failed) IN
           /\ fr.file = None => failed
           /\ fr' = IF failed THEN s
                    ELSE StartScript([s EXCEPT !.local = s.file, !.bound = TRUE],
                                     "LISTING", {}, "local")

\* add_directory__step2 and add_with_wildcard__step2
ListEnds ==
    /\ TransferEnds("list")
    /\ \E failed, made \in BOOLEAN :
         LET found == fr.transfer.items \ fr.empty
             s     == WindowDone(Ended, "GETTING_FILE_LIST", failed)
         IN fr' = IF failed \/ found = {} THEN s
                  ELSE AddFiles(s, found, Home[CHOOSE item \in found : TRUE], made)

\* copy_remote_files_done
CopyFromEnds ==
    /\ TransferEnds("copy_from")
    /\ \E failed \in BOOLEAN :
         LET s == WindowDone(Ended, "COPYING_FROM_REMOTE", failed)
         IN fr' = IF failed THEN s ELSE StartScript(s, "ADDING", fr.transfer.items, "temp")

\* copy_to_remote_location_done
UploadEnds ==
    /\ TransferEnds("upload")
    /\ \E failed \in BOOLEAN :
         LET s == IF failed THEN Ended ELSE [Ended EXCEPT !.file = fr.local]
         IN fr' = WindowDone(s, fr.transfer.action, failed)

\* copy_extracted_files_done, which tells of two ends.
CopyExtractedEnds ==
    /\ TransferEnds("copy_extracted")
    /\ \E failed \in BOOLEAN :
         LET copied == [Ended EXCEPT !.temp_extraction_dir = None]
         IN fr' = WindowDone(WindowDone(copied, "COPYING_TO_REMOTE", FALSE), "EXTRACTING", failed)

----
(* What the user may ask: nothing while an activity is counted. *)

Idle == fr.present /\ fr.activity_ref = 0 /\ ~fr.crashed

Asked(wanted) ==
    [fr EXCEPT !.wanted = wanted, !.inherited = fr.continue \/ (fr.archive_new /\ fr.local # fr.file),
               !.told = "nothing"]

AskedToAdd(items) == Asked(Held(fr.file) \cup (items \ fr.empty))

\* fr_window_archive_add_files, of files chosen in one folder.
RequestAddFiles ==
    /\ Idle
    /\ \E items \in SUBSET (Items \ Folders), place \in {Home[i] : i \in Items}, made \in BOOLEAN :
         /\ items # {} /\ \A i \in items : Home[i] = place
         /\ fr' = AddFiles(AskedToAdd(items), items, place, made)

\* fr_window_archive_add_with_wildcard, fr_window_archive_add_directory
RequestAddFolder ==
    /\ Idle
    /\ \E folder \in Folders : fr' = AddItems(AskedToAdd({folder}), {folder})

\* fr_archive_add_dropped_items; the archive itself may be among them.
RequestAddDropped ==
    /\ Idle
    /\ \E list \in Lists \ {<<>>} :
         LET s == AskedToAdd(ToSet(list))
         IN \/ fr' = AddDroppedItems([s EXCEPT !.dropped = list])
            \/ fr' = WindowDone(s, "ADDING", TRUE)

\* fr_window_archive_remove
RequestRemove ==
    /\ Idle /\ ~fr.archive_new
    /\ \E items \in SUBSET Held(fr.file) :
         fr' = StartScript(Asked(Held(fr.file) \ items), "DELETING", items, "local")

\* fr_archive_extract
RequestExtract ==
    /\ Idle /\ ~fr.archive_new
    /\ \E remote_extraction \in BOOLEAN :
         fr' = StartScript([Asked(fr.local) EXCEPT
                              !.remote_extraction = remote_extraction,
                              !.temp_extraction_dir = IF remote_extraction THEN {} ELSE None],
                           "EXTRACTING", {}, "local")

RequestTest == Idle /\ fr' = StartScript(Asked(fr.file), "TESTING", {}, "local")

RequestReload == Idle /\ fr' = Reload(Asked(fr.file))

\* fr_window_archive_open, in a window that shows no archive.
RequestOpen ==
    /\ ~fr.present /\ fr.activity_ref = 0 /\ ~fr.crashed
    /\ fr' = Load(Asked(fr.file))

----
Opened(remote, content, empty) ==
    [ remote |-> remote, file |-> content, local |-> content, bound |-> TRUE,
      continue |-> FALSE, dropped |-> None, temp_dir |-> FALSE,
      remote_extraction |-> FALSE, temp_extraction_dir |-> None,
      script |-> None, transfer |-> None,
      present |-> content = None, archive_new |-> content = None, activity_ref |-> 0,
      crashed |-> FALSE, 
      empty |-> empty, wanted |-> content, inherited |-> FALSE,
      told |-> "nothing" ]

\* An archive was created (fr_window_archive_new), or one is being opened.
Init ==
    \E remote \in BOOLEAN, content \in Contents, empty \in SUBSET Folders :
      fr = IF content = None THEN Opened(remote, None, empty) ELSE Load(Opened(remote, content, empty))

Next ==
    \/ ProcessEnds \/ LoadEnds \/ ListEnds \/ CopyFromEnds \/ UploadEnds \/ CopyExtractedEnds
    \/ RequestAddFiles \/ RequestAddFolder \/ RequestAddDropped \/ RequestRemove
    \/ RequestExtract \/ RequestTest \/ RequestReload \/ RequestOpen

\* Every child process ends and GIO calls back; the user need not ask anything.
Fairness ==
    /\ WF_fr(ProcessEnds) /\ WF_fr(LoadEnds) /\ WF_fr(ListEnds)
    /\ WF_fr(CopyFromEnds) /\ WF_fr(UploadEnds) /\ WF_fr(CopyExtractedEnds)

Spec == Init /\ [][Next]_fr /\ Fairness

----
(* Properties. *)

\* When the user is told that an add or a removal is done, the archive he named, the
\* remote one and not its copy, holds what he asked for, and nothing else unless
\* something was left for it to inherit.  Unless items dropped from several folders
\* were ever added: continue stays set, and what is left of them takes over the end
\* of every later add.
SavedWhenToldUnlessContinued ==
    fr.told \in {"ADDING", "DELETING"} /\ ~fr.continue =>
      /\ Held(fr.wanted) \subseteq Held(fr.file)
      /\ fr.inherited \/ Held(fr.file) \subseteq Held(fr.wanted)

\* The archive comes to hold nothing that the last request did not ask for: what an
\* operation that failed left in the local copy is not sent by the next.  Unless it
\* inherits: continue was set before it, or the archive is new and is not reloaded.
OnlyWhatWasAskedUnlessInherited ==
    [][fr'.inherited \/ Held(fr'.file) \ Held(fr.file) \subseteq Held(fr'.wanted)]_fr

\* What is under way ends, however many parts it has, and then the window takes requests
\* again, or the program has crashed.  Unless items dropped from several folders were ever
\* added: of each part a START is emitted, and of one that is not the last no DONE, so that
\* the activities of the window never come back to zero.
EveryOperationEndsUnlessContinued ==
    Busy(fr) ~> ~Busy(fr) /\ (fr.activity_ref = 0 \/ fr.crashed \/ fr.continue)
====

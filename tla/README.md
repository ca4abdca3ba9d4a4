# Verification of athena-extensions

The repository holds six packages that extend the Athena file manager:
**athena-dropbox** talks to the Dropbox daemon, **file-roller** is the archive
manager with its own menu extension, **athena-open-terminal** and **gksu** add
menu items, **athena-python** loads extensions written in Python, and
**gnome3-emblems** is one of those.  This directory holds TLA+ models of them,
TLC configurations that check the models on small instances, and TLAPS proofs for
every value of the constants.

Names in the modules are those of the code wherever TLA+ allows it.  Below,
`CC` is `dropbox-command-client.c`, `DC` is `dropbox-client.c`, `HK` is
`athena-dropbox-hooks.c`, `AX` is `athena-dropbox.c` (all under
`src/athena-dropbox-1.4.0/src/`), and `fr-*.c`, `dlg-*.c`, `gio-utils.c`,
`file-data.c` and the like are under `src/file-roller-3.4.2/src/`.

Contents

1. Inventory
2. The modules and the code
3. The runs and what they show
4. Bounds, and why they are enough
5. Fairness, and why the code justifies it
6. What is proved, and how
7. What the code does: the exceptions the properties name
8. What is not modelled
9. Plan

## 1. Inventory

### athena-dropbox

The extension runs in the file manager.  It has a *main loop* (the file
manager's) and one *command thread*.  Two Unix sockets lead to the daemon: the
*command socket*, on which the extension asks and the daemon answers, owned by
the thread; and the *hook socket*, on which the daemon speaks unasked, read by
the main loop.

| part | state | operations | hard behaviour | correct when |
|---|---|---|---|---|
| command client (CC) | the queue of requests; `command_connected` under its mutex; the thread's place, its request and its channel; callbacks queued on the main loop | connect, push a request, take one, the exchange of a line protocol, answer, drain, disconnect, reset | two threads; a reset marker in the queue; receive timeouts; requests pushed while the link goes down | each request is answered exactly once, with the answer to it |
| client (DC, and handlers of AX) | four flags that fold two links into one connection; the emblem directories | connected and disconnected, of each link; force a reconnect of the other | callbacks of two links in any order; a table installed by the thread and removed by the main loop | the icon theme has the directories the extension knows; after losses, two working links are reported |
| hooks client (HK) | socket watch, retry timer, the coroutine's place and half-read message (`hhsi`) | connect, retry, read, dispatch, yield, kill, force a reconnect | a coroutine that resumes by a jump; lines split over callbacks; a connection lost in mid message | hooks run with whole messages of one connection, in order, all of them |
| file tables and emblems (AX) | `obj2filename`, `filename2obj`; weak references and signal handlers on the objects; requests for emblems | look at a file, file changed, renamed, freed, touch one, touch all, ask for an emblem, add it | raw addresses without references; callbacks in any order; answers that are older than the question | the tables are inverse to each other and hold no dead object; a file shows what the daemon said last |
| menu (AX) | a queue of answers, an item's command and files | ask for 50 ms, build the menu, activate an item | an answer after 50 ms, for the menu of another selection | a menu is about what it popped up for |
| module entry (`dropbox.c`) | one flag | registration | | |

AX pushes requests on the queue of CC; CC queues completions and connection
callbacks on the main loop; DC hears of both links and tells AX; HK calls AX with
"touch this path" and with "emblem paths changed".

### file-roller

| part | state | operations | hard behaviour | correct when |
|---|---|---|---|---|
| process (`fr-process.c`) | the script, the current command, `running`, `stopping`, `sticky_only`, `restart`, the error and the first error, the character set, the child and its check timer | write a script, start, stop, check the child, start over with another character set | children end at any time; a stop at any time; errors ignored, remembered, overwritten | sticky commands run, nothing else runs after a failure or a stop, DONE comes once |
| command and back ends (`fr-command*.c`, `file-data.c`) | capabilities and properties; the entries; where the line function is in a listing; temporary names | write the scripts of list, add, delete, extract, test; read a listing line by line; sort and search the entries | every program may be missing or fail; output cut anywhere, or read again in another character set; dates of many forms | what is told as done is done; what is listed is what the archive holds |
| archive (`fr-archive.c`) | the command, remote and local copies, the list of what was dropped | load, add, remove, extract, extract here, copy back, stop, reload | copies across the network, list files that cannot be written, several scripts for one operation | success is claimed only for what was done, where the user has it |
| window (`fr-window.c`) and its dialogs (`dlg-*.c`) | activity count, the batch of actions, the dialogs, the conversion, passwords; what is listed, where the window is, the history and the folder tree; clipboard, open files, a drag | start and end of an action, next of a batch, stop, retry with a password; browse, delete, rename, cut, paste, open, save back, drag out | the handler of one action starts the next; rows that point into freed entries; work done from names that have changed | the batch ends; what is acted on is what is shown; no file is lost |
| file functions (`gio-utils.c`, `file-utils.c`, `open-file.c`) | a walk over folders, a copy of many files | callbacks of GIO | links to a folder above; a failure or cancel at any call | everything is listed once; a copy that failed says so |
| session client, widgets (`copy-n-paste/`, `egg*.c`) | the drag of several rows | vendored code | | |
| menu extension (`athena-fileroller.c`) | none | build a menu, start the program | files renamed since the menu was built | items act on what they say |

The window asks the archive; the archive lets the command (the back end) write a
script and starts the process; the process runs the commands one at a time as
children, hands their lines to the line function of the back end and emits DONE,
on which the archive, then the window, do what comes next.

### The other packages

| package | state | operations | hard behaviour | correct when |
|---|---|---|---|---|
| athena-open-terminal | flags on an item, preferences | items for a folder and its background; open a terminal there, or mc | remote places with and without a mount; state that changed since the menu was built | the terminal is where the item says |
| gksu (`libathena-gksu.c`) | an item's file | "open as administrator" | | it opens the file selected |
| athena-python | the interpreter, the list of types, one object for each | load the modules of two directories, call their methods, end | errors of Python at any stage; reference counts; files that outlive the interpreter | a class found is called, and what it returns is what the file manager gets |
| gnome3-emblems | the files last asked for | a property page on which an emblem is chosen | two pages open | the emblem is set on the files of the page |

The hazards of this code, each at its line, are in `PROJECT.json` ("hazards")
with the properties that cover them.

## 2. The modules and the code

| module | what it is | code |
|---|---|---|
| `RequestService` | abstract: requests are issued, and answered once | what CC promises to AX |
| `DropboxCommandClient` | the command thread, the queue, the main loop's part, the daemon | CC |
| `DropboxClient` | the two links as the extension sees them | DC, connection handlers and emblem directories of AX |
| `DropboxHooks` | the hook socket and its coroutine | HK, `async-io-coroutine.h` |
| `DropboxFiles`, `DropboxEmblems` | the two tables; on top of them the requests for emblems | AX |
| `AthenaMenus` | the menus of four extensions | AX, `athena-open-terminal.c`, `libathena-gksu.c`, `athena-fileroller.c` |
| `AthenaPython` | extensions in Python | `athena-python*.c`, `emblems.py` |
| `AthenaExtensions` | composes the three above, each in a file manager of its own | |
| `FrProcess` | the script runner, for *any* scripts | `fr-process.c` |
| `FrTar` | composes `FrProcess` with the scripts of adding to and removing from a compressed tar, and a small file system | `fr-command-tar.c`, `fr-archive.c`, handlers of `fr-window.c` |
| `FrBackEnds` | composes `FrProcess` with the programs and scripts of all back ends | `fr-command*.c`, `fr-archive.c`, `fr-init.c` |
| `FrDates`, `FrListing` | what the dates become; how a listing is read, sorted and searched | line functions of `fr-command-*.c`, `fr-process.c`, `file-data.c` |
| `FrArchive` | an archive, local or remote, with its window: each operation as a chain of scripts and transfers | `fr-archive.c`, handlers and requests of `fr-window.c` |
| `FrWindow` | what is done next: batches, dialogs, passwords, conversions | `fr-window.c`, `dlg-*.c`, `actions.c`, `main.c` |
| `FrBrowse`, `FrEdit` | what the window shows; what is changed by way of that | `fr-window.c`, `dlg-delete.c`, `dlg-update.c`, `open-file.c`, `eggtreemultidnd.c` |
| `GioUtils`, `FrExtractHere` | walks and copies of folders; the folder that "extract here" makes | `gio-utils.c`, `file-utils.c`, `fr-archive.c` |
| `...Proofs` | theorems on the module of that name; `FrBackEndsProofs` has those on `FrTar` too, as both are scripts written in the same way, `FrArchiveProofs` those on `FrListing`, the other half of what is promised of an archive, and `AthenaExtensionsProofs` those on `DropboxEmblems`, `AthenaMenus` and `AthenaPython`, `DropboxLinksProofs` those on `DropboxClient` and `DropboxHooks`, the two ends of the links, and `FrEditProofs` those on `FrBrowse` too | |
| `MC...` | one for each run: the values of constants that a .cfg cannot write | |

Modules build on each other by EXTENDS: `FrTar` and `FrBackEnds` on `FrProcess`,
`FrListing` on `FrDates`, `FrExtractHere` on `GioUtils`, `FrEdit` on `FrBrowse`,
`AthenaExtensions` on `DropboxEmblems` (on `DropboxFiles`), `AthenaMenus` and
`AthenaPython`.  `DropboxCommandClient` implements `RequestService` by
INSTANCE ... WITH.

**DropboxCommandClient.** `pc` is the place of the thread; each action is a stretch
of code between two points where another thread or the daemon can be seen: the
queue, the mutex, the socket, the main loop.  `Pop`, `CheckConnection`, `Drain`,
`Close` are the loop of `dropbox_command_client_thread`; `Send`, `ReadStatus`,
`ReadArg`, `ReadErrors`, `ReadEof`, `ReadTimeout` are `send_command_to_db` and
`receive_args_until_done`; `Ask`, `Answered`, `Complete` the two or three questions
of `do_file_info_command`; `RequestFileInfo`, `RequestGeneral`, `ForceReconnect`
split where the code tests `command_connected` under the mutex and pushes after
(`Decide`, then `Request`).  A question is a pair of request and command, so that a
reply knows what it is the reply *to*.  The daemon answers with any of `Replies`,
writes lines one by one, and closes at will.  `crashed` is the write through a
NULL line (CC:133): undefined behaviour, modelled as the end of the program.

**DropboxClient** keeps one record, `client`, for what the main loop owns, so that a
handler that calls another handler (a lost link forces the other to reconnect,
which calls the disconnect hook, which ...) is a composition of functions on it,
in the order of the calls.  `lone` and `raced` are history: a link lost while it
was the only one up, and a removal of directories that overtook their addition.

**DropboxHooks** has the coroutine's place in `line`, the half-read message in
`command`; lines on the wire know their connection, message and place, so that what
is dispatched can be compared with what was sent.

**DropboxFiles, DropboxEmblems.** Weak references are a count, because the code takes one
at each look and gives them back one at a time.  A request has its file and, once
answered, what the daemon said of it; it is answered in the thread, and added when the
main loop is idle (`FinishFileInfoCommand`), whatever happened to the file between.  `missed` is history: an object was found under another name before its "changed".

**AthenaMenus.** A selection pops up a menu; each extension makes its items from the
files as they are then, and an item that is activated works from the files,
mounts and preferences as they are by then (`WorldChanges`).  `ran` is what was
started, where and on which files.

**AthenaPython.** Loading is an action for each directory's part, `MakeProviders` the
file manager making one object for each type, `Call` one call of a method with all
that it may return or raise; `wrapped` is what Python still holds of the file manager.

**FrProcess** has no idea of what a command does: `Scripts` is any set of sequences of
commands with flags.  `Request` is `fr_process_start`, `Stop` is `fr_process_stop`,
`CheckChild` one run of `check_child` with all it calls (the error of the command, the
continue function, the next command or the end), `TryAnotherCharset` the
case in which the output is not in the character set, `ChildExits` the end of
a child.  Ghosts: `ran`, `first_failure`, `cut_short`, `spawn_failed`.

**FrTar** writes the real scripts with the operators of `FrProcess` in the order of the
code: move the archive into a temporary directory, decompress, delete, add,
compress, move back, remove the directory.  Four files, each absent or with a content that
tells old, partly deleted, new, torn, and a bare file of the added members alone.  What
`mv`, `gzip`, `tar` and `rm` do is external and modelled from how they are
used: 0 means done, a compressor that fails leaves its input, a killed command may
have done half.

**FrBackEnds** has a table, `BackEnd`, of what each back end needs, can do and runs, and
one operator for each function of `fr-archive.c` that turns an operation into
scripts: what a back end cannot do (skip older files, leave out a folder, keep
what is there) is done around it.  `ExitCodes` has the status that a back end takes for a
warning.  Which programs are installed is chosen in `BackEndInit`.

**FrListing, FrDates.** A listing is printed for an archive of the back end's own making
(`Printed`, from what the line functions wait for); those of 17 back ends
(`ReadAce` to `ReadZoo`) read it, with the restart for another character set
(`TryAnotherCharset`) and a cut at any place (`EndsWithin`).  `Found` is the search by
halves (`Halved`) over the entries as they were `Sorted`; `Order` is the order of strcmp on every
path that an entry may have (`PathsBy`).  At most one member goes over the end of a volume.  A date is printed and
read in the way of each back end, over a coarse clock.

**FrArchive.** Everything runs in the main loop, so the state is one record, `fr`, and a
handler is one step: `ProcessEnds` and the five ends of GIO transfers (`LoadEnds`,
`ListEnds`, `CopyFromEnds`, `UploadEnds`, `CopyExtractedEnds`), each built from one
operator for each C function it goes through, in the order of the calls.  `file` is
what the archive the user named holds, `local` its copy (the same for a local
archive), `bound` whether the command has the name of that copy, `activity_ref`
the activities the window counts.  Ghosts: `wanted` (what the archive is to hold
by the last request), `told` (what the user was told last), `inherited` (the
request began with `continue_adding_dropped_items` set, or with a local copy of a
new archive that was not sent).  Dropped files of several folders are added in a
script whose folder is a URI, which is the name of no folder: such a script does
nothing (`from = "nowhere"`).

**FrWindow.** One record, `w`.  `todo` is the next action of a batch or of what was
interrupted, `op` the operation under way, `dialogs` those that are shown, and an
answer to a dialog is an action.  What ends in `replies` is what D-Bus is told.  Ghosts follow the
marker comment in `Window`.

**FrBrowse, FrEdit.** `disk` is what the archive holds, `w.files` the entries as listed,
`w.rows` the rows as made from them then (`rows_live` says whether the entries are
still there).  Each edit is a script of steps made from names, run by `Finish`
to its end or to the first step that fails; reloading goes through a stretch in
which entries are freed and rows are not (`ReadMember`, `EndLoad`).  A drag is begun
(`DragRows`, `DragFolder`), answered when it is dropped (`ListDragDataGet`,
`TreeDragDataGet`) and ended (`DragEnd`).

**GioUtils, FrExtractHere.** `walk` is the `ForEachChildData` of `g_directory_foreach_child`;
each answer of GIO is an action with success or failure.  `move_here` is four actions, one for each
time it asks the file system: `LookInside` (what is in the folder, and a free name for it), `Rename`,
`LookAgain` (into what has that name then) and `Unwrap`.  Other programs act between any two of them (`OthersPut`).

## 3. The runs and what they show

Safety and liveness of a module share a run; all runs pass.  Properties named
`...Unless` state what holds and, in their comment and their formula, the exact cases in
which the code does not do it (section 7).

| run | shows |
|---|---|
| `command` | a reply read is the reply to what was asked, unless an error of `get_emblems` was dropped (`AnswersMatchUnlessSwallowed`); the client implements `RequestService`: over resets, lost connections, refusals and malformed replies each request is answered at most once, after it was issued (`IsRequestService`); and is answered in the end, unless the process crashed (`EveryRequestAnswered`) |
| `client` | the icon theme has exactly the directories the extension will take out, unless the addition was overtaken (`EmblemsTrackedUnlessRaced`); two links that stay up are reported, unless one was lost alone before (`RecoversUnlessLone`) |
| `hooks` | a hook is called with one whole message of one connection, in the order sent (`DispatchedInOrder`), and for every message whole on a connection that stays (`Delivered`) |
| `extensions` | the tables are inverse and no dead object is touched (`TwoWayUnlessMissed`); a file for which nothing is under way shows what the daemon said last (`EmblemsCurrentUnless`); a menu is about its selection and an item does what it says, where it says (`MenusDoAsTheySayUnless`); the file manager survives what Python extensions do (`PythonSafeUnless`), and gets from them what they return, for the files it asked (`PythonAnswersUnless`) |
| `process` | sticky commands run, unless one could not be spawned or a continue function said no (`StickyCommandsRunUnlessCut`); after a stop only sticky commands start, except where errors are ignored (`StopHonoured`); every operation ends (`Finishes`) |
| `tar` | an archive is at its name again but for named ways, and it is lost in fewer (`RestoresNameUnless`); success is not claimed for less than was asked (`SuccessMeansDone`) |
| `backends` | a file at the destination is replaced only as the user asked (`ReplacesOnlyWhatWasAskedUnless`); an operation told as a success is one, with every set of installed programs (`SuccessMeansDoneUnless`) |
| `listing` | what is loaded shows every member (`NothingMissingUnless`), no whole line makes a line function follow NULL (`CrashesOnlyOnCutLinesUnlessArj`), every entry is found again (`FoundAgainUnlessMixed`), and its date decides rightly what is older (`DatedUnless`) |
| `archive` | an add or a removal that was told to be done is in the archive the user named, not only in its copy (`SavedWhenToldUnlessContinued`); what a failed operation left is not sent by a later one (`OnlyWhatWasAskedUnlessInherited`); what is begun ends, and then the window takes requests again, unless items of several folders were ever dropped (`EveryOperationEndsUnlessContinued`) |
| `window` | files are added to the archive they were meant for, once, one operation at a time (`AddsAskedAndOneAtATimeUnless`); what goes on after a password or a package is what was interrupted (`ResumesWhatAskedUnlessEdit`); only files the user agreed to are replaced (`OverwritesOnlyAllowedUnlessAll`); a batch told as done was done, a saved copy is whole (`DoneMeansDone`); a batch does not wait for ever for nobody, and a window is not used after its end (`LivesWhileNeededUnless`) |
| `edit` | the list, the tree, the history and the location agree after every reload (`ShowsLocationUnlessGone`); a window whose folder is gone goes to a near one (`StaysNear`); an operation on a row, or a drag of it, is for what the row shows, and the window does not stay busy (`ActsOnWhatIsShownUnless`); no member is lost that was not to be deleted, nor a change of an opened file (`NothingLostUnless`); the clipboard names members (`ClipboardNamesMembersUnlessPasted`) |
| `gio` | a list of a folder has everything to be listed, once (`ListedWhole`); a copy told as done has everything but links, special files and folders that could not be made (`CopiedOrFailedUnless`); "extract here" loses nothing, tells the right place, and leaves what others put there but for one folder (`ExtractedHereUnless`); whatever is asked ends (`EndsHere`) |

Every property has a mutant: an operator beside the definition it replaces
(`Drain_DropsRequest`, `InstallTable_DropsOld`, `DragBegun_Kept`, ...), which is the
code with a plausible bug, and with which TLC finds the property violated.

Deadlock is checked in `command`, `client`, `hooks` and `process`.  `CHECK_DEADLOCK FALSE` stands where
the modelled system does stop: `FrTar` asks nothing more of an archive that is torn or removed; `FrArchive` ends with a
crash, or with a window whose activities never come back to 0; `FrWindow` ends when the window is destroyed; `FrBackEnds`,
`GioUtils` and `FrListing` look at one operation, or one archive; `FrEdit` and `AthenaExtensions` end at
their bounds or with a crash.

## 4. Bounds, and why they are enough

| constant | value | why |
|---|---|---|
| `FileRequests`, `GeneralRequests` | one each; the file is a folder | a request of each kind, one ahead of the other in the queue in both orders; a folder asks all three questions.  The theorems are for any number |
| `Replies` | 5 shapes | served with and without arguments, refused, a line that is none, too many arguments |
| `MaxArgs` | 2 (20 in the code) | the limit is met and passed |
| `MaxAttempts`, `MaxIdle`, `MaxResets` | 2, 2, 1 | a connection lost and made again while callbacks of the last one are still queued; a reset at any place |
| `MaxIdle`, `MaxQueue` of `DropboxClient` | 3, 2 | callbacks of one loss behind those of a connection |
| `MaxSent`, `MaxConnections` of `DropboxHooks` | 2, 2; 5 messages | a message cut by a loss, and the first of the next connection; two in order; a message at the limit and past it |
| `Files`, `Names`, `MaxRefs`, `MaxRequests` | 2 each | two objects of one name, an object of two; a weak reference more than is given back; an older answer after a newer one.  The theorems are for any |
| `Selectable`, `Preferences`, `Offers`, `MaxNested`, `MaxMenus` | 12 pairs of files, 5, 4, 1, 2 | each extension's conditions met by one file, both and neither; a menu in the menu, nothing that is understood, no answer; the answer to one menu while the next waits.  The theorem is for any |
| `Directories`, `Shown`, `MaxPages` | 6 layouts, 2, 2 | a class of the same name, an imported one, one that raises, in one directory or two; a page opened over another |
| `Scripts` of `FrProcess` | all of at most 3 commands of 4 kinds | failure, something skipped, something sticky; the theorems are for all scripts |
| `NCharsets` | 2 (3 in `FrTar`, as in the code; 1 in `FrBackEnds`, whose programs print nothing that matters) | one restart and the last set |
| `ExitCodes` | 0, 1, 2 (3 in `FrBackEnds`), killed | success, a warning, an error, a signal |
| `Formats` | gzip, compress, other | the three ways a compressed tar is unpacked |
| `Files`, `Destinations` of `FrBackEnds` | 2 files, 9 states | one file that is asked for and one that is not; a place with nothing, an older, a newer file, at the top and in the folder |
| `Archives` of `FrListing` | up to 3 of 10 members, and one-member archives of 18 dates | a member before and after the one of interest; the restart needs one good line before the bad one |
| `MaxText`, `MaxRestarts` | 2, 2 | text before and after the table; every character set |
| `Now`, `Summer`, `FileTimes` | March 2012, months 3..9 | a date this year and last, before and after 2000, in summer and winter.  A month is one day in the model's clock |
| `Items`, `Folders`, `RemotePlaces` of `FrArchive` | 3, 1, 1: a folder here, a file there, a file far away | a drop takes up to three parts: a folder's, one that is copied first, one of several folders |
| `Archives`, `Files`, `Selections` of `FrWindow` | 6 kinds, 4, 3 | an archive of each kind that the dialogs tell apart; a file that is new, there, there too, and a folder in its place; batches of up to two archives |
| archives of `FrEdit`; `MaxActs`, `MaxEdits`, `MaxOpens` | 4 of up to 3 members; 2, 2, 1 | folders stored with "/", without, not at all, one in the other, and rooted names; one act whose effect another one meets.  A drag counts as an act.  What is proved is for any |
| `Trees`, `MaxLinks`, `Batch` of `GioUtils` | 3; 2 (40 in the system); 2 (128 in the code) | nested folders, a link to a folder above, a folder found twice; a folder that is read in two parts |
| `Desired`, `MaxOthers` | 2 names, 2 | the folder is named as the archive or as its content; the first name is taken, and the second |

Symmetry (`Files`, `Names`) is used for `AthenaExtensions` only, whose run has no
liveness property: the code compares files and names for equality alone.  One
extension is looked at in a behaviour, as they share no state.

## 5. Fairness, and why the code justifies it

- `DropboxCommandClient`: weak fairness of the thread's steps (it is scheduled), of a
  connection made (a daemon that is asked every second accepts in the end), of
  `Request` (a handler of the main loop finishes), and strong fairness of `Dispatch` (the
  main loop runs a callback that is queued; strong because in the model the
  loop is also busy with requests).  Nothing is assumed of the daemon's answers: the
  receive timeout of the socket is a step of the thread.
- `DropboxClient`: weak fairness of the main loop and of the thread; links are lost
  freely, and the property assumes in itself that they are not lost for ever.
- `DropboxHooks`: weak fairness of `Input`: the main loop calls a watch that has input, and
  the coroutine runs until it yields.
- `FrProcess`: weak fairness of the main loop's timeout and of the end of children.  That a
  child ends is an assumption; a stop exists for the others.
- `FrArchive`: weak fairness of the end of the process (what `Finishes` of `FrProcess` says)
  and of each kind of transfer (GIO calls back, with an error if need be).  The user need not
  ask for anything.
- `GioUtils` and `FrExtractHere`: weak fairness of `HereStep`: GIO answers what it is asked, the
  program that extracts ends.  Other programs may stop.

The other modules have safety properties only, and no fairness.

## 6. What is proved, and how

Eight modules hold theorems.  Nothing is assumed but the named assumptions of the modules,
which TLC evaluates in the runs, and the hypotheses on the constants named here.

`FrBackEndsProofs`, first part: `FrProcess` (all scripts, exit codes and character sets; `ConstantsAssumption`).  The
invariant `IInv` adds to `TypeOK` what the script has come past: `Tracked` says that while
the owner waits `sticky_only` is exactly "there was a failure", that the first error is then
that failure, that a status other than 0 was a failure, and that every sticky command up
to the current one was started.  `TypeOK` alone does not give `StickyCommandsRunUnlessCut`,
since the commands passed over in earlier steps must be known to be not sticky.
`NextCommandChosen` says what the choice of the next command skips, from the
existence of a smallest element in a set of numbers (`SmallestOf`); `StartStep`,
`FinishStep`, `NextStep` and `CheckChildStep` follow the calls of the code.  Theorems:
`TypeCorrect`, `StickyAlwaysRun`, `FirstErrorTold`, `ReadyAgain`, and the action properties
`StickyOnlyAfterFailure` and `StopIsHonoured`.

Second part: `FrTar` (any exit codes and formats, any number of operations;
`ConstantsAssumption`, `TarAssumption`).  `RestoresName`.  First what the scripts are (`Shape`): the lemmas on
`BeginCommand` and the three flags, then one lemma for each function that writes a part of a
script, so that all of them, long lists and ignored errors included, are one shape: two commands
that unpack, any number that change, three sticky ones that pack.  Then `TarInv`: the invariant of the first part,
and where the archive is (`InPlace`, `MovedAway`, `Decompressed`, `Repacked`) while each command
runs and when it has ended (`Placed`).  The property alone is not inductive: that a command which is not
sticky runs only as long as nothing failed (`Info.sticky \/ ~sticky_only`) is what keeps `tar -r` from
creating an archive of the added files alone.  `EndPlaced` has a step for each command, `NextPlaced`
follows the choice of the next one.

`SuccessIsDone` is about what it holds.  Where the first follows the place, this
follows the content: `HoldsAfter` tells it by the last command of the script that changes it,
`PackedThen` that each function leaves a script that gives what was asked and notices the failures
that matter (`Strict`).  The invariant says that as long as nothing failed the files are `Ready` for
the command that runs, and that a command that ended has done its part or `Failed` in a way
that `FailureNoticed` shows check_child to see.

Third part: `FrBackEnds` (any files, destinations and installed programs, any of the twenty back ends;
`ConstantsAssumption`, `BackEndsAssumption`: `Ops` has the commands of the scripts, `CommandOps`).
`BackEndsAreSound`.  It goes the way of the code.  `BackEndIs` looks at the table once: an option that a back end
says it supports is one its command hands on (`Sound`).  Then each function that writes a part of a
script has a lemma: which commands it adds, that none of them may replace what it should not (`Fine`), and that
together they are for every file (`Covers`, `BringsAll`), in chunks, by way of a list or one by one; since
induction over data is not available, `Flattened` and `JoinedFine` take a smallest
counterexample of the parts instead.  `ScriptIs` says it of the whole script.  The
invariant (`BackEndInv`) then follows the process: what is at the destination was there, or was put
there by right (`PutRight`); every command passed by was done or may fail
(`ScriptProgress`); DONE was made of the error of the process by `handle_error` (`Told`).  The two properties
are not inductive, because they speak of the destination and of the end only, and the order of the script decides both.
`NoneIsNone` is where the statuses that pass for a warning come in.  From it: `ReplacesOnlyWhatWasAsked` and
`SuccessMeansDoneForAll`.

`FrArchiveProofs`, first part: `FrArchive` (any items, folders and contents, any failures; `ArchiveAssumption`,
which also says that NULL is no list of items).  `ArchiveIsSound`.  The state is one record, so each
handler is followed field by field: `Updated` says that one field was given a value and
`Same` that all but some were left, and every lemma gives both what a function keeps and what
it changes.  The invariant (`Sound`) says of the archive at rest where the copies are and what
a new or a remote archive holds (`Base`), and of a script or a transfer under way what its end
will find (`ScriptFinds`, `TransferFinds`): what it adds or takes out is what is wanted, and what
is still to be added is wanted too.  The two properties are not inductive because
an operation on dropped items goes through up to four scripts and two transfers before
the user is told anything.  From it: `SavedWhenTheUserIsTold` and the action property
`OnlyWhatWasAskedIsAdded`.

Second part: `FrListing` (any archives, dates and numbers of character sets and of lines of text, any of the
seventeen back ends; `DatesAssumption`, `ListingAssumption`, which says what a member is, and `OrderAssumption`:
all paths have a rank, and a slash before two of them does not change which comes first).
`ListingIsSound`.  First what is printed, by number of line (`IsPrintedAsExpected`): the lines of the
members begin after `First` lines and are `Width` for each, so `Of` and `Read` tell, from the number of
lines that were read, the member and how many of its lines are left.  The invariant (`Good`) says
of each back end what its line function must have by then (`ReaderAt`: the record of 7z that is half made,
which line of two comes next, whether the table has begun), that every member whose lines are past
has its entry (`ShownAt`), and that entries have dates and paths (`Fine`).  It is needed as the properties
speak of what is loaded only.  `LineStep` puts together one lemma for each back end (`SevenzStep`, `ArjStep`,
`RarStep`, ...).  A listing that is started again is at line 0 with the entries it has and what the
begin function leaves (`BeginsAgain`); arj, which has none, keeps its state, and the invariant says
no more of it than that a name which waits is the one whose second line comes next.  `SortedIs`: places by counting what comes before
are a bijection, so that the entries are the same.  `IsFound`: each halving keeps the entry
between the two ends and brings these closer, in fewer steps than there are entries.  `DatedIs` goes through the
ways dates are read.  From it: `ListingMissesNothing`, `ListingCrashesOnlyOnCutLines`,
`ListingFindsAgain` and `ListingIsDated`.  The proof found what the small instance had not: that years before 1975 are read
wrongly in three back ends and that folders whose names begin with a slash are looked for in another order, which the
properties now name, and two arms of `ReadRar` that were not disjoint.

`FrWindowProofs` (any archives of any kinds, files, destinations and selections, batches for
up to two archives; `WindowAssumption`, which also says that NULL is no operation and no archive).
`WindowIsSound`.  Again one record; `TypeOK` gives its fields, and `Same` which of them a function
leaves alone.  The invariant has one part for each kind of window.  A window for a
batch (`BatchSound`) has come to one action, before which all was done and which
has found what it needs (`Position`), and of an action to be run, an operation, a dialog and a search for a
package there is exactly one, which belongs to that action (`Stage`); or it was given up and only
tells an error (`Doomed`).  A window of the user (`UserSound`) has no such order, so the
parts say what excludes what: which dialogs stand alone, which operation is under way beside which
dialog (`Alone`, `OneThing`), and that what is under way, or will be begun again, is what `current` notes
(`Noted`, `Asked`).  For both, `Extraction` says that the overwrite dialog has an answer for each file it
has come past (`AgreedBefore`), from which nothing is replaced without being agreed to.  None of the
properties is inductive: what `action_performed` does next depends on `current`, `batch_action` and the
dialogs all at once, which they relate only at their own moments.  Each action has two lemmas, one for
each kind of window, from lemmas on the functions it calls; for a batch, a handler starts
`Between` two things, and ends with another begun, with an error shown (`Failed`), or with the window freed
(`Dead`).  From it: `AddsWhatWasAsked`, `OverwritesOnlyAllowed`, `DoneIsDone`,
`LivesWhileNeeded`, and the action property `ResumesWhatAsked`.

`GioUtilsProofs` (any trees, filters and operations, any bound on links and any parts in which
folders are read; any names and any number of things that others put; `GioAssumption`, `HereAssumption`,
which say what a tree of files is: a folder is not in itself, a link leads to what is no link).
`ListsWhole`, `CopiesOrFails`, `ExtractsHereUnless`.  First what the file system has: a folder
cannot be deeper than links and depth allow (`Bounded`), so `Folders` is the least set that is closed
under entering (`FoldersAre`, `LeastFolders`), and two roots have nothing in common (`RootsApart`).
The invariant says of a walk from a root (`Walks`) that the folders started, S, and what was found of
them are known: every folder found was started, is not to be entered, or waits once.
From this a walk that ends has started all there are (`WalkIsWhole`).  What is put aside is what was found
(`Collects`), or is queued with each thing before the folder it is in (`Queued`), which reversed is
the order that `Copying` needs: what is left has its folder at the destination, or before it, or a
folder was refused.  `ParentsOfIs` says that no folder on the way comes twice.  The lists of several items
come together root by root (`GotMore`).  The properties are not inductive, as they speak of the end.  That nothing
was brought below a folder that was refused needs that what is at the destination is there with all above it (`Rooted`).
For "extract here" the invariant adds that one folder is ours, wherever it is held to be (`OneFolder`), what each step
of `move_here` knows of it (`Renaming`, `Looking`, `Unwrapping`), and that the foreign things are those of others
(`Placed`), so that a free number exists (`AlternativeIsFree`, by counting).

`DropboxCommandClientProofs` (any requests, replies and bounds).  The invariant says where a
request can be — being pushed, queued, being served, its completion queued, freed — that
these five sets are disjoint and make up all that was issued, and what the thread's place
says of the request in hand (`InHand`).  Theorems: `TypeCorrect`, `NoRequestLost`,
`NoRequestTwice`, and `ImplementsService`, the refinement: every step is an `Issue`, an
`Answer` or a stutter of `RequestService`.  `AnswersAreMatched` has an invariant of its own: as
long as nothing was swallowed, the socket holds only what belongs to the one command in
hand (`OneReply`), and nothing between commands (`WireEmpty`).  Its hypothesis is
`DoneEndsReplies`: the daemon's replies end with "done".

`DropboxLinksProofs`, first part: `DropboxClient` (any bounds; `NoneAssumption`).  `EmblemDirectoriesTracked`.  `WillBe` says
what the search path is once a queue of callbacks has run, and the lemmas `Appended` and
`FirstRuns` what a callback at its end, and the run of its first, change of that.  The
invariant (`Tracked`): a directory will be in the path, or is being installed, exactly when
it is the table the extension remembers, unless raced.  It is needed because the property
speaks only of the moments when nothing is under way.  Each handler of DC and HK,
however deep its calls, either leaves the directories alone or does to them what
`on_disconnect` does (`Keeps`, `Disconnects`), which is why the four flags do not matter here.

Second part: `DropboxHooks` (any messages and bounds, `MessagesEnd`: a message ends with its only
"done").  `HooksCalledInOrder`.  The invariant says that what the coroutine holds, what is
on the wire and what the daemon has still to write are one chain of lines: `Held`,
`OnWire`, `Coming`, and `Seam` between them.

`AthenaExtensionsProofs`, first part: `DropboxEmblems` (any files and names; `ConstantsAssumption`).  `TablesAreInverse` and
`EmblemsAreCurrent`.  The invariant: unless a rename was missed the tables are inverse and
what they hold lives and has a weak reference (`Tables`), and while the links are up a file
that is not to be asked for again shows what the daemon said of its stored name, or has a
request that will say so (`Told`).

Second part: `AthenaPython` (any files of extensions and classes in them; `PythonAssumption`, which says what a
directory and a class are).  `PythonIsSafe` and `PythonAnswersRightly`.  `ClassesAre` says of what is
loaded of a directory that a class which is in one file of it comes once (`OnceIn`).  The invariant:
a name that is listed has a class that was loaded (`Listed`), a class that is alone is listed once
(`ListedOnce`, which needs that the second directory is loaded after the first, `FromFirst`), each object is one of the
class its type has by then, alive unless its constructor raised (`Provided`), and files with data left
were asked for pages (`WrappedForPages`).

Third part: `AthenaMenus` (any files, preferences, offers and number of menus; `OffersAssumption`: menus in an offer are
nested so deep only, since an offer is a text that ends, and what is understood of one holds nothing twice, as it is
Dropbox that promises this and not the extension).  `MenusDoAsTheySay`.  `ParsesTo` builds the recursive function
`parse_menu` depth by depth, so that there is one (`ParseMenuIs`).  The lemmas `...Are` say of each extension which items it
has (`ItemsOf`), that they differ, and for a terminal that the place it tells of was there when the menu popped up
(`WasThere`).  The invariant: while the file manager waits, every reply in the queue, and every request for that
queue, is for the files of the menu (`AskedFor`), because no request is for a queue that is not there yet (`Numbered`).
The property is not inductive without these, as a late reply would bring items for other files, and `ActivatedWell`
needs `WasThere` to tell a place that has gone since from one that never was.

`FrEditProofs` (`FrBrowse` and `FrEdit`: any names, archives and texts to be typed, any number of acts, edits and opened
files; `BrowseAssumption`, `EditAssumption`: an archive has no member below a file, and stores its folders in one way).
First the order of entries: `ComparePath` is one, so `SortedIs` holds of the list, what is in a folder is
together in it (`Together`), and the search by halves and the walk from there yield the rows of a folder (`RowsOfAFolder`).
Then the window's functions, each with what it changes and what it leaves (`Apart`), and how far a window goes up when
its folder is gone (`GoneUpIs`, `DepthIs`, `Near`).  Then the scripts: `PerformIs` and `ExecutedIs` say what a script may
do to an archive, and that the first part of a paste leaves it as it was.  The invariant (`IInv`) relates the entries
to the archive (`Entries`, `Follows`), the rows and the tree to the entries and the location (`Window`), what may have been
freed to what may still read it (`Read`), the operation to its script (`Edit`), the count of activities to what goes on
(`Busy`), and a drag to the rows (`Dragging`).  `ShowsLocationUnlessGone` alone is not inductive: the rows that are shown
after an operation depend on what the archive was when it was listed, not on the location.  `StaysNear` is an action
property: only `EndLoad` ends a load (`OnlyEndLoadEnds`), and the window was where the load found it.  `DragInv`, inductive with
`IInv`, says what was meant by a drag that is not dropped yet, and of the script of one that is.  `SaneInv`, also inductive
with `IInv`, says that the archive stays one, nothing below a file and folders stored in one way, and so does what the
script under way leaves wherever it stops (`KeepsSane`): removals, moves and additions are taken one by one (`StepKeeps`,
`MoveSound`), and each kind of edit has a lemma on its script (`RenameSane`, `PasteSane`, `UpdateSane`, ...), until something is pasted or saved over
what is there.  From these: `WindowFollowsArchive`, `ShowsTheLocation`, `BusyOnlyWhileSomethingRuns`, `DragsOutRight`,
`ActsOnWhatIsShown`, and the action property `WindowStaysNear`.

Only model-checked: liveness (no prover here does fairness or ENABLED); and of `FrEdit` what needs to know the
temporary folder and the clipboard after each command of a script: `NothingLostUnless` and `ClipboardNamesMembersUnlessPasted`.
Where the models compute by recursion, it is with recursive functions that the proofs unfold by smallest
counterexamples: the library's induction takes an operator, which the provers here cannot
instantiate, and a module that reaches a RECURSIVE operator cannot be proved about at all.

## 7. What the code does: the exceptions the properties name

Each passing property holds *but for* these.  They were met while modelling, and each is
the smallest case that TLC needed.

Dropbox:

- A receive timeout while arguments are read is not tested, and the NULL line is written to
  (CC:133): the process ends (`crashed`).
- The error of `get_emblems` is dropped, and its late reply read as the next answer (`swallowed`).
- A link lost while it was the only one up: a disconnect flag outlives its connection, and two
  working links are never reported (`lone`).
- An addition of emblem directories that its removal overtakes (`raced`).
- An object found under another name before its "changed": an older object of that name is
  forgotten in one table only, and a freed name is used as a key (`missed`).
- Updates are always said to be complete (`dropbox.c:47`), so emblems of older answers stay
  beside the new; a rename there and back while an emblem is asked for hides that it was
  asked for under the other name.

Menus and Python:

- `athena-open-terminal.c:585` swaps two flags, so mc is started at the other end of a remote
  folder that is selected; the background of a folder of another remote place has the same item twice; the
  desktop may be a folder that is not there; a path of sftp is unescaped twice.
- "Extract To..." takes the first archive only.  A menu answer of Dropbox that is not
  understood leads to an unref of a list that is none.
- The timer of `libathena-gksu.c` that watches its child never ends.
- An object of a Python class whose constructor raised is given up at every call for it; an
  interpreter that was started by half is taken as ready for the second directory;
  classes of the same name replace each other, imported ones are there twice; an error that was left set
  disturbs a later call; the data of files that pages of properties were asked for is not freed, contrary to
  the comment in `athena-python-object.c`.
- The emblem page writes to the files it was asked for last, not to those of the page.

The process, tar and the archive:

- A command that cannot be spawned: sticky commands do not run, the process stays `running`
  (`spawn_failed`).  A continue function that says no skips them too (`cut_short`), and
  `gzip_continue_func` says no because of the status of an earlier failure: the archive stays
  in the temporary directory.
- `.tar.Z` is never unpacked: gzip without -d.
- A second add to a new archive may be stopped while the archive is away; with a short
  extension it is removed.  A list of files to delete that cannot be written: nothing is
  deleted, success is told.
- `continue_adding_dropped_items` is never reset: the data of the last part is used after it was
  given up, later adds take up what was left, and their end is told without sending the local copy
  (`continue`); of a part that is not the last no DONE is emitted, so `activity_ref` stays above 0; a new archive that a failed add left in the local copy is sent by the next one (`inherited`).

Back ends and listings:

- Statuses of 1 or less pass for a warning in six back ends, and errors that come from no
  program (a stop, a program that cannot be started) have a status of 0 (`Forgiven`); jar asks for zip,
  but reads with unzip.
- Files at the destination are looked for at their full path also where the file goes to
  another place; `dpkg` and `unstuff` unpack everything, whatever list they are given.
- A folder in an ISO image, a link in a zip archive, and names that begin with a space
  or look like a link are not listed as they are.  A listing started again has its entries twice; arj has no begin
  function, and takes lines for others.  Of a line that was cut, most line functions use fields that
  are not there.  dpkg uses a name after it was freed.
- Entries are sorted by one path and searched by another (`file-data.c:156`), where a folder may have a slash at its end
  in only one of them.
- rar and alz know no year before 2000, arj, zoo and ace none before 1975, and alz no summer time; dpkg is a month late; in an
  `ls`-like date with a time the year is taken to be this one.

The window:

- Files dropped on a window that cannot take them stay in its list, and what it lists or extracts
  next adds them.  While a package is searched for, the window can be used; the search
  goes on with what it is used for then.  A password resumes what was last noted, which edits do not do.
- An extraction of all files asks nothing before it replaces files; one of which all files
  were skipped becomes one of all.  A folder where a file is to be extracted is looked at for ever.
- A dialog that refused something and is then closed leaves the batch waiting without a
  window; an error in a batch without dialogs destroys the window inside its own handler.
- A conversion whose extraction needs a password goes on with the next extraction, if the
  password is not given (`left`).

Lists, edits and drags:

- Of several files opened together each is saved as another; the update dialog keeps files that
  closing the archive has freed.
- Renaming and pasting what was cut extract, remove, move and add: after a failure in between the
  files are gone with the temporary folder; with rooted names the path is cut one place off, so it always fails.  Pasting
  over, or under, another member's name, pasting what was cut in a folder that is gone, and renaming an empty
  folder of the sidebar, or a row of a folder that is gone (which deletes it, or everything: `empty`) lose files too, and so
  may a cut where folders are stored without "/" and are moved as well, into folders made for them (`moved`); so does an opened file that is saved where something else is by
  then, and one that was opened twice is saved as either.  The clipboard keeps the names of what was cut after it was
  pasted.  A NULL clipboard is followed, and an empty cut is looked for without an end.
- A folder of the flat list is looked for in the wrong place, and deleted there (`elsewhere`); a row for a folder with
  a stored folder in it renames that; a change of icons leaves the window busy; rows of freed entries are read.
- A drag begun while the window is busy, after one that was dropped, extracts the whole
  archive to where the earlier one was dropped; so does one whose rows were made again before it was
  dropped, or that comes to no file, to its own place.  A drag from the folder tree extracts the folder
  that is selected when it is dropped.

Folders:

- The base folder is never listed, contrary to the comment in `gio-utils.c` about empty base
  directories; a link that cannot be followed, and what is neither a file nor a folder, are left out of a
  copy without a word (`LeftOut`); a folder that could not be made is not an error; folders visited are known by their path, so a link to a folder above is followed to
  the system's limit.
- In "extract here" failures to rename, to move or to remove are not looked at; a folder that another program put
  where ours was to be moved, after that name was chosen, is emptied of its only content and deleted (`seized`); a folder that fails
  to be read before its end lets one of several things be moved; a copy to a remote place that
  fails leaves a part; the flag that asks for it is never reset.

## 8. What is not modelled

- Texts: the escapes of tabs and newlines, paths and quoting, character sets (only that a conversion
  fails), formatting, names of emblems and menus, which emblem a status has, `canonicalize_path`.
- Writing to the command socket: a request is taken to be sent at once, timeouts while sending are not there.
- Progress: what the programs print of it, what the window shows of it.
- The working directory and environment of a child; the file system but for the archive, its copies, a
  destination and a place for "extract here"; `mkdtemp` that fails.
- Of the archive: "update", volumes, list files that cannot be written for an add, a stop of a
  transfer as something other than its error.
- Of the window: making widgets and menus, sorting by column, what a drag gives to another window of the
  program, preferences; dialogs that only show something or end in one call.
- The session client (`copy-n-paste/eggsmclient*.c`): `main.c` connects only to "save-state", so its states of
  interaction with the user cannot be reached.  What is saved is written as `archive0..n-1` and read as
  `archiven..1` (`main.c:86` and `main.c:247`), which is seen without a model.  The other
  vendored files (`eggdesktopfile.c`, `eggfileformatchooser.c`) keep no state that the program's own depends on.
- `gksu.c`, which parses a command line in front of a library that is not in the repository.
- The copy of `fr-window.c` under `.pc/`, which is what a patch was applied to.

`PROJECT.json` says for each component what of it is left out.

## 9. Plan

Done, the most important first: the command client and its refinement, the client of both
links, the hooks client, the process, tar on top of it, the archive; then the window, the
back ends and their listings, folders and "extract here", browsing and editing, emblems,
menus and Python; proofs for the process, for tar and all other back ends on top of it, for the archive, for the window, for folders and "extract here", for what a window shows, what is done to its rows and its drags, for every stateful part of athena-dropbox, for
the menus and for athena-python.  Left:

1. Proofs: that no edit loses a member (`NothingLostUnless`), and the clipboard.
2. `FrArchive`: "update", whose path on which nothing is newer emits an end of its own, with the
   action of what came before; list files that cannot be written, an end inside the request.
3. Volumes: the names of further parts, and the question for the first one.
4. What a window takes from another one's drag, and the composition of `FrEdit` with `FrArchive`, so
   that an edit of a remote archive is sent back.

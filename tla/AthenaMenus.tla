---- MODULE AthenaMenus ----
(* The context menus of the extensions of Athena: athena-dropbox, Athena Open Terminal, gksu and
   File Roller.  The file manager asks each for its items when a menu pops up for selected files,
   or for the folder that is looked at; an item may be activated later, when files have other
   names, remote places are not mounted any more, or preferences have changed.

   The items of Dropbox come from the daemon, which is waited for 50 ms. How requests travel is
   in DropboxCommandClient: here one is answered, with nothing when there is no link.  Left out:
   the texts of items and their encoding, quoting, the encoding of names. *)
EXTENDS Naturals, Sequences, FiniteSets, SequencesExt

CONSTANTS
    Selectable,   \* pairs of files, as records of what the extensions look at
    Preferences,  \* sets of what is switched on, or there
    Offers,       \* "options" of the daemon, and of a menu in them: sequences of options
    MaxNested,    \* how deep menus are in menus, at most
    MaxMenus      \* how often a menu pops up: a bound

VARIABLES
    files,     \* the two files there are
    renamed,   \* those of them that have another name by now
    fuse,      \* remote places have a local path, through GVFS
    prefs,
    popup,     \* the menu: for what, in which state, and whether there was a local path
    menu,      \* its items
    queue,     \* the reply queue that is waited on: its number, and what is in it
    requests_waiting,  \* requests for options that the daemon has not answered
    ran        \* what an activated item did

menu_vars == <<files, renamed, fuse, prefs, popup, menu, queue, requests_waiting, ran>>
world == <<files, renamed, fuse, prefs>>

Nothing == [item |-> <<>>, at |-> "", on |-> {}]
Item(ext, act, of) ==
    [ext |-> ext, act |-> act, of |-> of, told |-> "", remote |-> FALSE, greyed |-> FALSE, for |-> of]

----
(* athena-open-terminal.c *)

get_terminal_file_info(i) == files[i].scheme
uri_has_local_path(i) == files[i].scheme = "file" \/ (files[i].scheme \in {"sftp", "other"} /\ fuse)

\* open_terminal_menu_item_new; what the item says of the place
TerminalItem(i, program, remote) ==
    LET scheme == get_terminal_file_info(i)
        place == IF program = "mc" \/ scheme # "sftp" THEN "here" ELSE IF remote THEN "remote" ELSE "local"
    IN [Item("terminal", program, <<i>>) EXCEPT !.told = place, !.remote = remote]

HomeOrDesktop == {"is_home", "opens_home"} \cap prefs # {}

\* athena_open_terminal_get_background_items
TerminalBackground(i) ==
    LET scheme == get_terminal_file_info(i)
        open == scheme \in {"sftp", "desktop"} \/ uri_has_local_path(i)
        mapped == scheme \in {"sftp", "other"} /\ uri_has_local_path(i)
        mc == "mc" \in prefs /\ ((scheme = "desktop" /\ HomeOrDesktop) \/ uri_has_local_path(i))
    IN IF "locked" \in prefs THEN <<>>
       ELSE (IF open THEN <<TerminalItem(i, "shell", scheme = "sftp")>> ELSE <<>>)
            \o (IF mapped THEN <<TerminalItem(i, "shell", FALSE)>> ELSE <<>>)
            \o (IF mc THEN <<TerminalItem(i, "mc", FALSE)>> ELSE <<>>)

\* athena_open_terminal_get_file_items; what is a remote terminal and what a selected
\* file is confused for mc.
TerminalItems(selected) ==
    LET i == selected[1]
        scheme == get_terminal_file_info(i)
        open == scheme = "sftp" \/ uri_has_local_path(i)
        mapped == scheme = "sftp" /\ uri_has_local_path(i)
        mc == "mc" \in prefs /\ uri_has_local_path(i)
    IN IF "locked" \in prefs \/ Len(selected) # 1 \/ ~files[i].folder \/ scheme = "desktop" THEN <<>>
       ELSE (IF open THEN <<TerminalItem(i, "shell", scheme = "sftp")>> ELSE <<>>)
            \o (IF mapped THEN <<TerminalItem(i, "shell", FALSE)>> ELSE <<>>)
            \o (IF mc THEN <<TerminalItem(i, "mc", TRUE)>> ELSE <<>>)

\* get_terminal_command_for_file_info: where the shell, or mc, is started
get_terminal_command_for_file_info(item) ==
    LET i == item.of[1]
        scheme == get_terminal_file_info(i)
    IN CASE scheme = "desktop" /\ HomeOrDesktop -> "home"
         [] scheme = "desktop" /\ ~HomeOrDesktop -> IF "desktop" \in prefs THEN "desktop" ELSE "nowhere"
         [] scheme = "sftp" /\ item.remote -> "host"
         [] OTHER -> IF uri_has_local_path(i) THEN "path" ELSE "nowhere"

\* get_terminal_command_prefix: any terminal there is
OpenTerminal(item) == IF "terminal" \in prefs THEN get_terminal_command_for_file_info(item) ELSE "nowhere"

----
(* libathena-gksu.c *)

GksuItems(selected) ==
    IF "root" \in prefs \/ Len(selected) # 1 \/ get_terminal_file_info(selected[1]) = "desktop" THEN <<>>
    ELSE <<Item("gksu", "open_as_root", selected)>>

\* gksu_context_menu_activate: the program of a .desktop file, which is read when it has
\* a local name, or the one for files of that kind; or a dialog says there is none.
OpenAsRoot(item) ==
    LET file == files[item.of[1]]
    IN IF file.mime = "desktop"
       THEN IF file.scheme = "file" THEN "exec" ELSE "dialog"
       ELSE IF file.app THEN "app" ELSE "dialog"

----
(* athena-fileroller.c *)

\* get_file_mime_info: kinds of archives, and kinds of files that are archives too
IsArchive(i) == files[i].mime \in {"zip", "tar", "derived"}
IsCompressed(i) == files[i].mime \in {"zip", "derived"}

FileRollerItems(selected) ==
    LET all_archives == \A i \in ToSet(selected) : IsArchive(i)
        can_write == \A i \in ToSet(selected) : files[i].writable
        one == Len(selected) = 1 /\ all_archives
        one_compressed == one /\ IsCompressed(selected[1])
        one_derived == one /\ files[selected[1]].mime = "derived"
    IN IF files[selected[1]].scheme = "trash" THEN <<>>
       ELSE (IF all_archives /\ can_write THEN <<Item("fileroller", "extract_here", selected)>>
             ELSE IF all_archives THEN <<Item("fileroller", "extract_to", selected)>> ELSE <<>>)
            \o (IF ~one_compressed \/ one_derived THEN <<Item("fileroller", "add", selected)>> ELSE <<>>)

\* extract_to_callback takes the first file only, extract_here_callback and add_callback all.
GivenToFileRoller(item) == IF item.act = "extract_to" THEN {item.of[1]} ELSE ToSet(item.of)

----
(* The menu of Dropbox (athena-dropbox.c). *)

\* athena_dropbox_parse_menu: an option is an item, a menu of options, or not understood.
parse_menu[options \in Offers] ==
    FlattenSeq([i \in DOMAIN options |->
        IF options[i].kind = "item" THEN <<[verb |-> options[i].verb, greyed |-> options[i].greyed]>>
        ELSE IF options[i].kind = "menu" THEN parse_menu[options[i].inner] ELSE <<>>])

\* An offer is a text that ends, so menus are nested so deep only; Dropbox offers nothing
\* twice; there may be no answer at all.
ASSUME OffersAssumption ==
    /\ <<>> \in Offers /\ MaxNested \in Nat
    /\ \A options \in Offers : options \in Seq(ToSet(options)) /\ IsInjective(parse_menu[options])
    /\ \E depth \in [Offers -> 0 .. MaxNested] :
         \A options \in Offers : \A i \in DOMAIN options :
             /\ options[i].kind \in {"item", "menu", "not understood"}
             /\ options[i].kind = "menu" =>
                  options[i].inner \in Offers /\ depth[options[i].inner] < depth[options]

\* athena_dropbox_menu_item_new, for each item.
DropboxItems(options, of, for) ==
    [i \in DOMAIN parse_menu[options] |->
        [Item("dropbox", parse_menu[options][i].verb, of) EXCEPT
            !.greyed = parse_menu[options][i].greyed, !.for = for]]

\* Mutant: there is one reply queue for all menus.
AskForOptions_SameQueue(selected) ==
    /\ queue' = queue
    /\ requests_waiting' = Append(requests_waiting, [queue |-> queue.number, of |-> selected])

\* A new queue for each menu.
AskForOptions(selected) ==
    /\ queue' = [number |-> queue.number + 1, replies |-> <<>>]
    /\ requests_waiting' = Append(requests_waiting, [queue |-> queue.number + 1, of |-> selected])

\* get_file_items_callback, in the command thread: a queue that is not waited on any more
\* goes with what is put into it.
DaemonAnswers(options) ==
    /\ requests_waiting # <<>>
    /\ LET dgc == Head(requests_waiting)
       IN queue' = IF dgc.queue = queue.number
                   THEN [queue EXCEPT !.replies = Append(@, [options |-> options, of |-> dgc.of])] ELSE queue
    /\ requests_waiting' = Tail(requests_waiting)
    /\ UNCHANGED <<world, popup, menu, ran>>

\* The reply came in time.  When nothing in it is understood, a list is taken for an
\* object: there is no menu, or no file manager any more.
Reply ==
    /\ popup.state = "waiting" /\ queue.replies # <<>>
    /\ LET reply == Head(queue.replies)
           items == DropboxItems(reply.options, popup.of, reply.of)
       IN /\ menu' = menu \o items
          /\ popup' \in IF reply.options # <<>> /\ items = <<>>
                        THEN {[popup EXCEPT !.state = "shown"], [popup EXCEPT !.state = "crashed"]}
                        ELSE {[popup EXCEPT !.state = "shown"]}
    /\ queue' = [queue EXCEPT !.replies = Tail(@)]
    /\ UNCHANGED <<world, requests_waiting, ran>>

NoReply ==
    /\ popup.state = "waiting" /\ queue.replies = <<>>
    /\ popup' = [popup EXCEPT !.state = "shown"]
    /\ UNCHANGED <<world, menu, queue, requests_waiting, ran>>

----
(* The file manager. *)

\* The files that are selected are all local, and Dropbox is asked; the main loop waits.
PopUp(selected) ==
    /\ popup.state = "none" /\ popup.count < MaxMenus
    /\ menu' = TerminalItems(selected) \o GksuItems(selected) \o FileRollerItems(selected)
    /\ LET local == \A i \in ToSet(selected) : files[i].scheme = "file"
       IN /\ popup' = [state |-> IF local THEN "waiting" ELSE "shown", of |-> selected, fuse |-> fuse,
                       background |-> FALSE, count |-> popup.count + 1]
          /\ IF local THEN AskForOptions(selected) ELSE UNCHANGED <<queue, requests_waiting>>
    /\ UNCHANGED <<world, ran>>

PopUpBackground(i) ==
    /\ popup.state = "none" /\ popup.count < MaxMenus /\ files[i].folder
    /\ menu' = TerminalBackground(i)
    /\ popup' = [state |-> "shown", of |-> <<i>>, fuse |-> fuse, background |-> TRUE, count |-> popup.count + 1]
    /\ UNCHANGED <<world, queue, requests_waiting, ran>>

\* What an item does is told by its data and by the files, as they are by now.
Activate(item) ==
    /\ popup.state = "shown" /\ ~item.greyed
    /\ LET on == IF item.ext = "fileroller" THEN GivenToFileRoller(item) ELSE ToSet(item.of)
           at == CASE item.ext = "terminal" -> OpenTerminal(item)
                   [] item.ext = "gksu" -> OpenAsRoot(item)
                   [] OTHER -> "program"
       IN ran' = [item |-> <<item>>, at |-> at, on |-> {<<i, i \in renamed>> : i \in on}]
    /\ popup' = [popup EXCEPT !.state = "done"]
    /\ UNCHANGED <<world, menu, queue, requests_waiting>>

Close ==
    /\ popup.state \in {"shown", "done"}
    /\ popup' = [popup EXCEPT !.state = "none"] /\ menu' = <<>> /\ ran' = Nothing
    /\ UNCHANGED <<world, queue, requests_waiting>>

\* Meanwhile.
WorldChanges ==
    /\ popup.state = "shown"
    /\ \/ renamed' = renamed \cup {popup.of[1]} /\ UNCHANGED <<fuse, prefs>>
       \/ fuse' = ~fuse /\ UNCHANGED <<renamed, prefs>>
       \/ prefs' \in Preferences /\ UNCHANGED <<renamed, fuse>>
    /\ UNCHANGED <<files, popup, menu, queue, requests_waiting, ran>>

MenusInit ==
    /\ files \in Selectable /\ renamed = {} /\ fuse \in BOOLEAN /\ prefs \in Preferences
    /\ popup = [state |-> "none", of |-> <<>>, fuse |-> fuse, background |-> FALSE, count |-> 0]
    /\ menu = <<>> /\ queue = [number |-> 0, replies |-> <<>>] /\ requests_waiting = <<>>
    /\ ran = Nothing

MenusNext ==
    \/ \E selected \in {<<1>>, <<1, 2>>} : PopUp(selected)
    \/ PopUpBackground(1) \/ Reply \/ NoReply \/ Close \/ WorldChanges
    \/ \E options \in Offers : DaemonAnswers(options)
    \/ \E i \in DOMAIN menu : Activate(menu[i])

MenusSpec == MenusInit /\ [][MenusNext]_menu_vars

----
\* What the item says of the place, and where that is.
Where(told) == IF told = "remote" THEN {"host"} ELSE {"path", "home", "desktop"}

\* A menu is about what it popped up for, offers nothing twice and always something of
\* File Roller, except in the trash; an item is done to all the files it was for, under the names they have by
\* then, and at the place it told of, which is there if it was when the menu popped up.
\* Unless: a folder of another remote place has the same item twice; mc is started at the
\* other end for a selected folder; "Extract To..." takes the first archive only; the
\* desktop is a folder that is not there; there is no terminal.
MenusDoAsTheySayUnless ==
    /\ \A i, j \in DOMAIN menu :
         /\ menu[i].for = popup.of
         /\ menu[i] = menu[j] => i = j \/ (popup.background /\ files[popup.of[1]].scheme = "other")
    /\ popup.state \in {"shown", "done"} /\ ~popup.background /\ files[popup.of[1]].scheme # "trash" =>
         /\ \E i \in DOMAIN menu : menu[i].ext = "fileroller"
         /\ Len(popup.of) = 1 /\ files[popup.of[1]].mime = "derived" =>
              \E i \in DOMAIN menu : menu[i].act = "add"
    /\ popup.state = "done" =>
         LET item == ran.item[1]
             scheme == files[popup.of[1]].scheme
         IN /\ item.act # "extract_to" => ran.on = {<<i, i \in renamed>> : i \in ToSet(popup.of)}
            /\ item.ext = "terminal" /\ ~(item.act = "mc" /\ ~popup.background) =>
                 \/ ran.at \in Where(item.told)
                 \/ ran.at = "nowhere" /\ (fuse # popup.fuse \/ scheme = "desktop" \/ "terminal" \notin prefs)
====

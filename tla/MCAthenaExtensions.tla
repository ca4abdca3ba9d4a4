---- MODULE MCAthenaExtensions ----
(* Small instances of the extensions of Athena for TLC. *)
EXTENDS AthenaExtensions, TLC

Symmetry == Permutations(Files) \cup Permutations(Names)

(* Pairs of files; what is switched on, or there; what the daemon offers. *)
File(scheme, folder, mime, writable, app) ==
    [scheme |-> scheme, folder |-> folder, mime |-> mime, writable |-> writable, app |-> app]
TextFile == File("file", FALSE, "text", TRUE, TRUE)
ZipFile == File("file", FALSE, "zip", TRUE, TRUE)
TarFile == File("file", FALSE, "tar", FALSE, TRUE)
MCSelectable ==
    {<<TextFile, ZipFile>>, <<ZipFile, TarFile>>, <<TarFile, ZipFile>>,
     <<File("file", FALSE, "derived", TRUE, TRUE), ZipFile>>,
     <<File("file", FALSE, "desktop", TRUE, FALSE), TextFile>>,
     <<File("file", TRUE, "folder", TRUE, TRUE), TextFile>>,
     <<File("sftp", TRUE, "folder", TRUE, FALSE), ZipFile>>,
     <<File("other", TRUE, "folder", FALSE, TRUE), TextFile>>,
     <<File("other", FALSE, "desktop", FALSE, TRUE), TextFile>>,
     <<File("desktop", TRUE, "folder", TRUE, FALSE), TextFile>>,
     <<File("trash", FALSE, "zip", FALSE, TRUE), ZipFile>>,
     <<File("trash", FALSE, "derived", TRUE, TRUE), ZipFile>>}
MCPreferences ==
    {{"terminal", "desktop", "mc"}, {"terminal", "desktop", "mc", "is_home"}, {"terminal", "root"},
     {"locked"}, {"opens_home"}}

Option(verb, greyed) == [kind |-> "item", verb |-> verb, greyed |-> greyed]
NotUnderstood == [kind |-> "not understood"]
Inner == <<Option("copy link", FALSE), NotUnderstood>>
MCOffers ==
    {<<>>, <<NotUnderstood>>, Inner,
     <<Option("browse", TRUE), [kind |-> "menu", inner |-> Inner]>>}

(* Classes in Python, and where they are; "MenuProvider" is that of Athena itself. *)
Class(n, methods, raises) == [name |-> n, methods |-> methods, raises |-> raises]
MenuClass == Class("Menu", {"get_file_items"}, FALSE)
OtherMenu == Class("Menu", {"get_file_items", "update_file_info"}, FALSE)
Info == Class("Info", {"update_file_info"}, FALSE)
EmblemsClass == Class("Emblems", {"get_property_pages"}, FALSE)
Interface == Class("MenuProvider", {"get_file_items"}, TRUE)
MCDirectories ==
    {<< <<{MenuClass}, {Info}>>, <<>> >>, << <<{MenuClass}>>, <<{Info}>> >>,
     << <<{EmblemsClass}>>, <<{MenuClass}>> >>, << <<>>, <<{MenuClass, Interface}>> >>,
     << <<{MenuClass}>>, <<{OtherMenu}>> >>, << <<{Info}, {Info, MenuClass}>>, <<>> >>}
====

---- MODULE AthenaExtensions ----
(* The extensions of Athena, each in a file manager of its own: they share nothing but the file
   manager.  Either emblems of Dropbox are shown, or menus pop up, or extensions in Python are
   loaded. *)
EXTENDS DropboxEmblems, AthenaMenus, AthenaPython

VARIABLE extension

extensions_vars == <<extension, emblem_vars, menu_vars, python_vars>>

\* What is not looked at stays in one state.
MenusIdle ==
    /\ files = CHOOSE pair \in Selectable : TRUE
    /\ prefs = CHOOSE set \in Preferences : TRUE
    /\ fuse = FALSE
PythonIdle == directories = CHOOSE pair \in Directories : TRUE

ExtensionsInit ==
    /\ extension \in {"dropbox", "menus", "python"}
    /\ EmblemInit /\ MenusInit /\ PythonInit
    /\ extension # "menus" => MenusIdle
    /\ extension # "python" => PythonIdle

ExtensionsNext ==
    /\ UNCHANGED extension
    /\ \/ extension = "dropbox" /\ EmblemNext /\ UNCHANGED <<menu_vars, python_vars>>
       \/ extension = "menus" /\ MenusNext /\ UNCHANGED <<emblem_vars, python_vars>>
       \/ extension = "python" /\ PythonNext /\ UNCHANGED <<emblem_vars, menu_vars>>

ExtensionsSpec == ExtensionsInit /\ [][ExtensionsNext]_extensions_vars
====

---- MODULE DropboxFiles ----
(* The two-way hash of file objects and file names that athena-dropbox.c keeps, so that a
   "shell_touch" of the daemon finds the file object whose emblems are out of date.

   The file manager owns the objects: it creates them, renames them, tells of changes, asks for
   their info and frees them, in any order.  Tables hold addresses and no references: a weak
   reference on each object is to remove it when it dies.  An address may be used again.  What is
   asked of the daemon for them is in DropboxEmblems. *)
EXTENDS Naturals, FiniteSets

CONSTANTS
    Files,     \* the addresses file objects may have
    Names,     \* canonical local file names
    None,      \* a NULL pointer; as a name, that of a file that is not local
    MaxRefs    \* bound: weak references on an object

ASSUME ConstantsAssumption ==
    None \notin Files \cup Names /\ MaxRefs \in Nat

VARIABLES
    alive,         \* the file objects that exist
    name,          \* what the file manager calls each of them
    obj2filename,  \* the hash tables: None where there is no entry
    filename2obj,
    weak_refs,     \* weak references to each object that call when_file_dies
    connected,     \* "changed" of the object is connected to changed_cb
    invalid,       \* objects whose extension info was invalidated
    missed,        \* ghost: an object was found renamed without its "changed"
    touched_dead   \* a freed object was used through a table

tables == <<obj2filename, filename2obj>>
vars == <<alive, name, tables, weak_refs, connected, invalid, missed, touched_dead>>

Init ==
    /\ alive = {} /\ name = [f \in Files |-> None]
    /\ obj2filename = [f \in Files |-> None]
    /\ filename2obj = [n \in Names |-> None]
    /\ weak_refs = [f \in Files |-> 0] /\ connected = {}
    /\ invalid = {} /\ missed = FALSE /\ touched_dead = FALSE

----
(* The file manager. *)

Create(f, n) ==
    /\ f \notin alive
    /\ alive' = alive \cup {f}
    /\ name' = [name EXCEPT ![f] = n]
    /\ invalid' = invalid \ {f}
    /\ UNCHANGED <<tables, weak_refs, connected, missed, touched_dead>>

\* The "changed" signal may follow, at once or later, or not at all.
Rename(f, n) ==
    /\ f \in alive
    /\ name' = [name EXCEPT ![f] = n]
    /\ UNCHANGED <<alive, tables, weak_refs, connected, invalid, missed, touched_dead>>

\* The last reference goes: every weak reference calls when_file_dies, of which
\* the first finds the name and removes both entries.
Die(f) ==
    /\ f \in alive
    /\ alive' = alive \ {f}
    /\ weak_refs' = [weak_refs EXCEPT ![f] = 0]
    /\ connected' = connected \ {f}
    /\ LET filename == obj2filename[f] IN
         IF weak_refs[f] > 0 /\ filename # None
         THEN /\ filename2obj' = [filename2obj EXCEPT ![filename] = None]
              /\ obj2filename' = [obj2filename EXCEPT ![f] = None]
         ELSE UNCHANGED tables
    /\ UNCHANGED <<name, invalid, missed, touched_dead>>

----
(* changed_cb.  A second handler of the same object has nothing left to do, so an emission is one
   run of it. *)

\* g_object_weak_unref: a reference that is not there is only warned of.
Unref(f) == IF weak_refs[f] = 0 THEN 0 ELSE weak_refs[f] - 1

\* The file is not local any more: out of the tables.
Forget(f) ==
    /\ weak_refs' = [weak_refs EXCEPT ![f] = Unref(f)]
    /\ connected' = connected \ {f}
    /\ filename2obj' = [filename2obj EXCEPT ![obj2filename[f]] = None]
    /\ obj2filename' = [obj2filename EXCEPT ![f] = None]

\* Mutant: an object that had the new name keeps its entry.
Move_KeepsOther(f) ==
    /\ filename2obj' = [filename2obj EXCEPT ![obj2filename[f]] = None, ![name[f]] = f]
    /\ obj2filename' = [obj2filename EXCEPT ![f] = name[f]]
    /\ UNCHANGED <<weak_refs, connected>>

\* The file has another name; an object that had that name is taken out, but
\* keeps its weak reference and its handler.
Move(f) ==
    LET freed == [filename2obj EXCEPT ![obj2filename[f]] = None]
        f2 == freed[name[f]]
        moved == [obj2filename EXCEPT ![f] = name[f]]
    IN
      /\ filename2obj' = [freed EXCEPT ![name[f]] = f]
      /\ obj2filename' = [g \in Files |-> IF g = f2 THEN None ELSE moved[g]]
      /\ UNCHANGED <<weak_refs, connected>>

Changed(f) ==
    /\ f \in alive \cap connected
    /\ obj2filename[f] # None
    /\ obj2filename[f] # name[f]
    /\ IF name[f] = None THEN Forget(f) ELSE Move(f)
    /\ invalid' = invalid \cup {f}
    /\ UNCHANGED <<alive, name, missed, touched_dead>>

----
(* athena_dropbox_update_file_info. *)

\* A file never seen, or seen and forgotten: an older object of the same name
\* is obsolete.
Add(f) ==
    LET n == name[f]
        f2 == filename2obj[n]
        refs == [g \in Files |-> IF g = f2 THEN Unref(g) ELSE weak_refs[g]]
    IN
      /\ obj2filename[f] = None
      /\ weak_refs[f] < MaxRefs
      /\ touched_dead' = (touched_dead \/ f2 \notin alive \cup {None})
      /\ filename2obj' = [filename2obj EXCEPT ![n] = f]
      /\ obj2filename' = [g \in Files |->
                            IF g = f THEN n ELSE IF g = f2 THEN None ELSE obj2filename[g]]
      /\ weak_refs' = [refs EXCEPT ![f] = @ + 1]
      /\ connected' = (connected \ {f2}) \cup {f}
      /\ UNCHANGED missed

\* A file found under another name than the one stored: the stored name is read
\* after its entry was removed and freed, so the other entry is found or not.
AddRenamed(f) ==
    LET stored_filename == obj2filename[f] IN
      /\ stored_filename \notin {None, name[f]}
      /\ \E removed \in BOOLEAN :
           filename2obj' =
             [n \in Names |-> CASE n = name[f] -> f
                                [] n = stored_filename /\ removed -> None
                                [] OTHER -> filename2obj[n]]
      /\ obj2filename' = [obj2filename EXCEPT ![f] = name[f]]
      /\ missed' = TRUE
      /\ connected' = connected \cup {f}
      /\ UNCHANGED <<weak_refs, touched_dead>>

AlreadyThere(f) ==
    /\ obj2filename[f] = name[f]
    /\ UNCHANGED <<tables, weak_refs, connected, missed, touched_dead>>

\* The info is asked for again, from the daemon or from nobody.
UpdateFileInfo(f) ==
    /\ f \in alive
    /\ name[f] # None
    /\ Add(f) \/ AddRenamed(f) \/ AlreadyThere(f)
    /\ invalid' = invalid \ {f}
    /\ UNCHANGED <<alive, name>>

----
(* What the daemon makes happen. *)

\* reset_file of each.
ResetFiles(files) ==
    /\ invalid' = invalid \cup files
    /\ touched_dead' = (touched_dead \/ ~(files \subseteq alive))
    /\ UNCHANGED <<alive, name, tables, weak_refs, connected, missed>>

\* handle_shell_touch.
ShellTouch(n) == ResetFiles({filename2obj[n]} \ {None})

\* reset_all_files: a connection, a disconnection or new emblem directories.
ResetAllFiles == ResetFiles({f \in Files : obj2filename[f] # None})

----
\* The tables are each other's inverse: a touch of a name finds the file
\* that has it, and the death of a file removes no other's entry.
TwoWay ==
    \A f \in Files, n \in Names : obj2filename[f] = n <=> filename2obj[n] = f

\* They are, and no freed file object is ever used, as long as no file was found renamed
\* without its "changed".
TwoWayUnlessMissed == ~missed => TwoWay /\ ~touched_dead
====

---- MODULE FrExtractHere ----
(* "Extract here": an archive is extracted into a new folder beside it; when only one thing is in
   there, the folder is taken away around it (move_here of fr-archive.c).  For a remote archive
   the files are extracted to a temporary folder and copied from there by GioUtils. Meanwhile
   other programs put other things beside the archive: at a place that was found free, too,
   before it is taken.

   A place is a name and the number that is put after it when it is taken. Left out: names that
   need escaping (URIs and names are mixed here), the program that extracts (see FrBackEnds),
   passwords. *)
EXTENDS GioUtils

CONSTANTS
    Desired,    \* names the folder may have: that of the archive, less its extension
    MaxOthers   \* what other programs put beside the archive: a bound

\* What may be at a place is told from what was extracted.
ASSUME HereAssumption ==
    /\ MaxOthers \in Nat /\ IsFiniteSet(Desired)
    /\ \A t \in Trees : {"made", "foreign", "robbed"} \cap DOMAIN t.kind = {}
    /\ None \notin {"made", "foreign", "robbed"}

VARIABLES
    job,     \* "none" when only GioUtils is at work, or the archive is "local" or "remote"
    step,    \* the handler that comes next
    beside,  \* at each place: None, the folder we have "made", what is "foreign", a foreign
             \* folder "robbed" of what was in it, or the thing that was extracted
    folder,  \* extraction_destination
    chosen,  \* new_uri, and then new_content_uri
    content, \* content_uri
    theirs,  \* the places that were taken by others
    seized,  \* the one of them that was held for our folder
    balked   \* a step failed on the file system, and nobody looks

looked == <<chosen, content, seized>>
here_vars == <<vars, job, step, beside, folder, theirs, balked, looked>>

Names == Desired \cup ToSet(tree.children.base)
Places == Names \X (1..MaxOthers + 4)
Taken == {place \in Places : beside[place] # None}

----
(* file-utils.c *)

get_alternative_uri(taken, name) ==
    <<name, Min({n \in 1..MaxOthers + 4 : <<name, n>> \notin taken})>>

get_alternative_uri_for_uri(taken, place) == get_alternative_uri(taken, place[1])

TopLevel == {path \in dest : Len(path) = 1}

\* Mutant: the first thing that is found, whatever comes after it.
get_dir_content_if_unique_First(read) == IF read # {} THEN Last(CHOOSE path \in read : TRUE) ELSE None

\* What is read of the folder: all of it, or an error comes before the end.
get_dir_content_if_unique(read) == IF Cardinality(read) = 1 THEN Last(CHOOSE path \in read : TRUE) ELSE None

----
(* fr-archive.c *)

\* get_extract_here_destination: it is made at the first place that is free.
MakeFolder(ok) ==
    /\ step = "make"
    /\ \E name \in Desired :
         LET place == get_alternative_uri(Taken, name)
         IN IF ok
            THEN folder' = place /\ beside' = [beside EXCEPT ![place] = "made"]
            ELSE UNCHANGED <<folder, beside>>
    /\ IF ok
       THEN step' = "extract" /\ dest' = {<<>>} /\ UNCHANGED <<phase, told>>
       ELSE step' = "end" /\ told' = "error" /\ phase' = "over" /\ UNCHANGED dest
    /\ faulted' = ~ok
    /\ UNCHANGED <<tree, op, walk, list, to_copy, refused, job, theirs, balked, looked>>

\* The program ends well; of a local archive everything is in the folder.
Extracted ==
    /\ step = "extract"
    /\ IF job = "local"
       THEN /\ dest' = Copied /\ told' = "ok" /\ phase' = "over" /\ step' = "move"
       ELSE phase' = "start" /\ step' = "copy" /\ UNCHANGED <<dest, told>>
    /\ UNCHANGED <<tree, op, walk, list, to_copy, faulted, refused, job, beside, folder, theirs, balked, looked>>

\* It fails: the folder is removed with what is in it (remove_directory).
NotExtracted(removed) ==
    /\ step = "extract"
    /\ told' = "error" /\ phase' = "over" /\ step' = "end"
    /\ beside' = [beside EXCEPT ![folder] = IF removed THEN None ELSE @]
    /\ faulted' = TRUE /\ balked' = (balked \/ ~removed)
    /\ UNCHANGED <<tree, op, walk, list, to_copy, dest, refused, job, folder, theirs, looked>>

\* A step of g_directory_copy_async; then copy_extracted_files_done.
Copies ==
    /\ step = "copy"
    /\ Next
    /\ step' = CASE phase' # "over" -> "copy"
                 [] phase' = "over" /\ (job = "none" \/ told' = "error") -> "end"
                 [] phase' = "over" /\ job # "none" /\ told' = "ok" -> "move"
    /\ UNCHANGED <<job, beside, folder, theirs, balked, looked>>

\* move_here.  The folder is always given another name first, for its content may have
\* the one it has: a place is chosen for it.
LookInside(read) ==
    /\ step = "move"
    /\ IF get_dir_content_if_unique(read) = None
       THEN step' = "end" /\ UNCHANGED chosen
       ELSE step' = "rename" /\ chosen' = get_alternative_uri_for_uri(Taken, folder)
    /\ balked' = (balked \/ read # TopLevel)
    /\ UNCHANGED <<vars, job, beside, folder, theirs, content, seized>>

\* That this fails is not looked at, nor that another program was at the place before:
\* the folder is held to be there.
Rename(ok) ==
    /\ step = "rename" /\ step' = "look"
    /\ LET renamed == ok /\ beside[chosen] = None
       IN /\ beside' = IF renamed THEN [beside EXCEPT ![folder] = None, ![chosen] = "made"] ELSE beside
          /\ balked' = (balked \/ ~renamed)
    /\ folder' = chosen
    /\ UNCHANGED <<vars, job, theirs, looked>>

\* Its content is looked for once more; of a foreign folder, something of any name or
\* nothing is found.
LookAgain(again, name) ==
    /\ step = "look"
    /\ LET found == CASE beside[folder] = "made" -> get_dir_content_if_unique(again)
                      [] beside[folder] = "foreign" -> name
                      [] beside[folder] \notin {"made", "foreign"} -> None
       IN IF found = None
          THEN step' = "end" /\ UNCHANGED looked
          ELSE /\ step' = "unwrap" /\ content' = found
               /\ chosen' = get_alternative_uri(Taken, found)
               /\ seized' = IF beside[folder] = "foreign" THEN folder ELSE None
    /\ balked' = (balked \/ again # TopLevel)
    /\ UNCHANGED <<vars, job, beside, folder, theirs>>

\* The content is moved to the parent, and the folder deleted, which fails when something
\* is left in it.
Unwrap(moved, removed) ==
    /\ step = "unwrap" /\ step' = "end"
    /\ LET made == beside[folder] = "made"
           out == moved /\ beside[chosen] = None
           emptied == out /\ removed /\ (made => TopLevel = {<< content >>})
       IN /\ beside' = [beside EXCEPT ![chosen] = IF ~out THEN @ ELSE IF made THEN content ELSE "foreign",
                                      ![folder] = IF emptied THEN None ELSE IF made \/ ~out THEN @ ELSE "robbed"]
          /\ balked' = (balked \/ ~out \/ ~removed)
    /\ folder' = chosen
    /\ UNCHANGED <<vars, job, theirs, looked>>

----
\* Another program takes a place.
OthersPut(place) ==
    /\ job # "none" /\ step \in {"extract", "copy", "move", "rename", "look", "unwrap"}
    /\ Cardinality(theirs) < MaxOthers /\ beside[place] = None
    /\ theirs' = theirs \cup {place}
    /\ beside' = [beside EXCEPT ![place] = "foreign"]
    /\ UNCHANGED <<vars, job, step, folder, balked, looked>>

HereInit ==
    /\ Init
    /\ job \in IF op.name = "copy" /\ dest = {} THEN {"none", "local", "remote"} ELSE {"none"}
    /\ step = IF job = "none" THEN "copy" ELSE "make"
    /\ \E taken \in SUBSET (Names \X {1}) :
         /\ Cardinality(taken) <= (IF job = "none" THEN 0 ELSE MaxOthers)
         /\ beside = [place \in Places |-> IF place \in taken THEN "foreign" ELSE None]
         /\ theirs = taken
    /\ folder = None /\ chosen = None /\ content = None /\ seized = None /\ balked = FALSE

HereStep ==
    \/ Extracted \/ Copies
    \/ \E ok \in BOOLEAN : \/ MakeFolder(ok) \/ NotExtracted(ok) \/ Rename(ok)
                           \/ \E removed \in BOOLEAN : Unwrap(ok, removed)
    \/ \E read \in SUBSET TopLevel : LookInside(read) \/ \E name \in Names \cup {None} : LookAgain(read, name)

HereNext == HereStep \/ \E place \in Names \X (1..2) : OthersPut(place)

\* The program that extracts ends, and GIO answers all it is asked.
HereSpec == HereInit /\ [][HereNext]_here_vars /\ WF_here_vars(HereStep)

----
(* Properties. *)

Made == {place \in Places : beside[place] = "made"}
Kept(path) == Made # {} \/ \E place \in Places : beside[place] = Last(path)

\* "Extract here" leaves what others put beside the archive as it is, whenever they do,
\* and loses nothing of what came to its folder.  What it tells for the place of it is
\* that place: of the one thing there is, or of the folder; and no other folder is left
\* over.  Unless the file system refused something, or a copy to a remote place failed, of
\* which a part is left.  One place of others is not left as it is: when a program takes
\* the name that was chosen for our folder before the folder is moved there, which fails
\* and is not looked at, and what the program has put there is a folder: then the only
\* thing that is found in it is moved out and the folder is deleted.
ExtractedHereUnless ==
    job # "none" =>
        /\ \A place \in theirs \ {seized} : beside[place] = "foreign"
        /\ seized # None => balked
        /\ told = "ok" => \A path \in TopLevel : Kept(path)
        /\ step = "end" /\ told = "ok" /\ ~balked =>
             IF Cardinality(TopLevel) = 1 THEN TopLevel = {<< beside[folder] >>} /\ Made = {} ELSE Made = {folder}
        /\ step = "end" /\ told = "error" /\ ~balked => Made = {} \/ walk.error

\* What is asked for ends: a walk that meets a link to a folder above it ends where the
\* system follows links no further, and "extract here" with it.
EndsHere == <>(step = "end")
====

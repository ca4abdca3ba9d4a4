---- MODULE DropboxEmblems ----
(* The emblems of files in the file manager: the file manager asks the extension for the info of
   a file, the extension asks the daemon in the thread of the command client, and adds the emblem
   when the main loop is idle.  Meanwhile the file may be renamed or asked for again, the link
   lost, or the daemon may go on and tell of it by a touch.

   How requests travel is in DropboxCommandClient, how the links come and go in DropboxClient;
   here a request is answered or the link is lost. *)
EXTENDS DropboxFiles, Sequences

CONSTANTS
    MaxRequests  \* requests under way: a bound

VARIABLES
    linked,    \* dropbox_client_is_connected
    touches,   \* names of which the daemon has told and that are not handled
    requests,  \* DropboxFileInfoCommands, the oldest first
    shown      \* the emblems the file manager has for each file

asking == <<linked, touches, requests, shown>>
emblem_vars == <<vars, asking>>

\* An emblem is known by the name the daemon gave it for, as long as that is what it says
\* of it; None stands for what was answered while the file had not the name it was asked
\* for with.
Emblem(f) == IF name[f] = obj2filename[f] THEN name[f] ELSE None

RequestsOf(f) == {i \in DOMAIN requests : requests[i].file = f}

----
\* Mutant: a file for which something is under way is not asked for again.
Ask_Once(f) ==
    /\ UpdateFileInfo(f)
    /\ Len(requests) < MaxRequests
    /\ requests' = IF linked /\ RequestsOf(f) = {}
                   THEN Append(requests, [file |-> f, answered |-> FALSE, emblems |-> {}])
                   ELSE requests
    /\ shown' = [shown EXCEPT ![f] = {}]
    /\ UNCHANGED <<linked, touches>>

\* dropbox_use_operation_in_progress_workaround is always set: the operation is said to
\* be complete, so the file manager takes the file for one without emblems, and never
\* cancels what is under way.
Ask(f) ==
    /\ UpdateFileInfo(f)
    /\ Len(requests) < MaxRequests
    /\ requests' = IF linked
                   THEN Append(requests, [file |-> f, answered |-> FALSE, emblems |-> {}])
                   ELSE requests
    /\ shown' = [shown EXCEPT ![f] = {}]
    /\ UNCHANGED <<linked, touches>>

\* The command thread asks for the name the file has by then.
Answer ==
    /\ \E i \in DOMAIN requests :
         /\ ~requests[i].answered /\ \A j \in 1..i - 1 : requests[j].answered
         /\ requests' = [requests EXCEPT ![i].answered = TRUE,
                            ![i].emblems = {Emblem(requests[i].file)}]
    /\ UNCHANGED <<vars, linked, touches, shown>>

\* athena_dropbox_finish_file_info_command
FinishFileInfoCommand ==
    /\ requests # <<>>
    /\ Head(requests).answered
    /\ shown' = [shown EXCEPT ![Head(requests).file] = @ \cup Head(requests).emblems]
    /\ requests' = Tail(requests)
    /\ UNCHANGED <<vars, linked, touches>>

----
\* Something is synchronised; the daemon tells who listens.
Sync(n) ==
    /\ shown' = [f \in Files |-> shown[f] \ {n}]
    /\ requests' = [i \in DOMAIN requests |-> [requests[i] EXCEPT !.emblems = @ \ {n}]]
    /\ touches' = IF linked THEN touches \cup {n} ELSE touches
    /\ UNCHANGED <<vars, linked>>

Touched(n) ==
    /\ n \in touches
    /\ ShellTouch(n)
    /\ touches' = touches \ {n}
    /\ UNCHANGED <<linked, requests, shown>>

\* on_connect, and on_disconnect: what was asked is answered by nobody.
Connects == ~linked /\ linked' = TRUE /\ UNCHANGED requests
Disconnects ==
    /\ linked /\ linked' = FALSE
    /\ requests' = [i \in DOMAIN requests |-> [requests[i] EXCEPT !.answered = TRUE]]

LinkChanges ==
    /\ Connects \/ Disconnects
    /\ ResetAllFiles
    /\ touches' = {}
    /\ UNCHANGED shown

\* A request holds a reference on its file.
FileManager ==
    /\ \/ \E f \in Files : (RequestsOf(f) = {} /\ Die(f)) \/ Changed(f)
       \/ \E f \in Files, n \in Names \cup {None} : Rename(f, n)
    /\ UNCHANGED asking

NewFile ==
    \E f \in Files, n \in Names \cup {None} :
        /\ Create(f, n)
        /\ shown' = [shown EXCEPT ![f] = {}]
        /\ UNCHANGED <<linked, touches, requests>>

\* Once freed memory was used nothing is known any more; once a file was found renamed
\* nothing is claimed.
Over == (touched_dead \/ missed) /\ UNCHANGED emblem_vars

EmblemInit ==
    /\ Init
    /\ linked = TRUE /\ touches = {}
    /\ requests = <<>> /\ shown = [f \in Files |-> {}]

EmblemNext ==
    \/ /\ ~touched_dead /\ ~missed
       /\ \/ FileManager \/ NewFile \/ Answer \/ FinishFileInfoCommand \/ LinkChanges
          \/ \E f \in Files : Ask(f)
          \/ \E n \in Names : Sync(n) \/ Touched(n)
    \/ Over

EmblemSpec == EmblemInit /\ [][EmblemNext]_emblem_vars

----
\* Nothing is under way for the file: what it shows stays.
Settled(f) ==
    /\ f \in alive \ invalid /\ obj2filename[f] = name[f]
    /\ RequestsOf(f) = {} /\ name[f] \notin touches

\* When nothing is under way for a file, what the daemon says of its name now is among
\* the emblems it shows.  Unless an emblem was asked for while the file had another name,
\* which a rename there and back hides, or a file was found renamed without its
\* "changed".  (Older emblems may stay: each answer is added, that of an earlier request
\* too.)
EmblemsCurrentUnless ==
    ~missed /\ linked =>
        \A f \in Files : Settled(f) /\ name[f] # None =>
            shown[f] \cap {name[f], None} # {}
====

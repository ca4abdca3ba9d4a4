---- MODULE FrProcess ----
(* The script runner of File Roller (fr-process.c): one operation on an archive is a list of
   commands, run one at a time as child processes, whose output the main loop reads from a
   timeout.  A command may be sticky (it runs even after a failure), may have its errors ignored,
   and may have a function that says whether to go on after it.

   Commands are numbered from 1, and current_command = 0 is the -1 of the code.  The owner of the
   process, the window, is busy from the signal START to the signal DONE: it prepares no other
   script and stops nothing at any other time. *)
EXTENDS Integers, Sequences

CONSTANTS
    Ops,        \* what a command does: its arguments
    Scripts,    \* the scripts the owner may prepare
    ExitCodes,  \* how a child may end: exit statuses, and Killed
    Killed,     \* by a signal
    Running,    \* the state of a child that has not ended
    NoChild,
    NCharsets   \* how many character sets to try, 3 in the code

CommandInfo == [op: Ops, sticky: BOOLEAN, ignore_error: BOOLEAN, continue_func: BOOLEAN]

ASSUME ConstantsAssumption ==
    /\ Scripts \subseteq Seq(CommandInfo)
    /\ Running # NoChild /\ {Running, NoChild} \cap (Int \cup ExitCodes) = {}
    /\ Killed \notin Int
    /\ ExitCodes \subseteq (0 .. 255) \cup {Killed}
    /\ NCharsets \in Nat \ {0}

ErrorTypes == {"NONE", "COMMAND_ERROR", "COMMAND_NOT_FOUND", "EXITED_ABNORMALLY",
               "SPAWN", "STOPPED", "IO_CHANNEL", "BAD_CHARSET"}
Errors == [type: ErrorTypes, status: 0 .. 255]
NoError == [type |-> "NONE", status |-> 0]

VARIABLES
    comm,             \* the script
    current_command,  \* the command that runs, 0 when none does
    running, stopping, sticky_only, restart,
    error, first_error,
    current_charset,
    child,            \* the current child: NoChild, Running, or how it ended
    check_timeout,    \* check_child is due
    orphans,          \* operations of children left running and forgotten
    busy,             \* the owner has seen START and not DONE
    ran,              \* ghost: the commands started since the script was
    first_failure,    \* ghost: the first failure since then
    cut_short,        \* ghost: a continue function ended the operation
    spawn_failed      \* ghost: a command could not be started, ever

process_vars == <<comm, current_command, running, stopping, sticky_only, restart, error,
                  first_error, current_charset, child, check_timeout, orphans, busy>>
ghosts == <<ran, first_failure, cut_short, spawn_failed>>
vars == <<process_vars, ghosts>>

\* Between two operations.
Init ==
    /\ comm = <<>> /\ current_command = 0
    /\ running = FALSE /\ stopping = FALSE /\ sticky_only = FALSE /\ restart = FALSE
    /\ error = NoError /\ first_error = NoError
    /\ current_charset = -1 /\ child = NoChild /\ check_timeout = FALSE
    /\ orphans = {} /\ busy = FALSE
    /\ ran = {} /\ first_failure = NoError /\ cut_short = FALSE /\ spawn_failed = FALSE

----
(* How a script is written: flags are set on the command last begun. *)

BeginCommand(script, op) ==
    Append(script, [op |-> op, sticky |-> FALSE, ignore_error |-> FALSE, continue_func |-> FALSE])

SetSticky(script) == [script EXCEPT ![Len(script)].sticky = TRUE]

SetIgnoreError(script) == [script EXCEPT ![Len(script)].ignore_error = TRUE]

SetContinueFunc(script) == [script EXCEPT ![Len(script)].continue_func = TRUE]

----
(* Pieces of the handlers. *)

Info == comm[current_command]

\* start_current_command for command i of the script, with error e so far.  A
\* failure emits DONE and leaves running as it was: TRUE.
StartCurrentCommand(script, i, e, spawned) ==
    /\ current_command' = i
    /\ running' = TRUE
    /\ IF spawned
       THEN /\ child' = Running /\ check_timeout' = TRUE
            /\ error' = e /\ busy' = TRUE
            /\ UNCHANGED spawn_failed
       ELSE /\ child' = NoChild /\ check_timeout' = FALSE
            /\ error' = [e EXCEPT !.type = "SPAWN"]
            /\ busy' = FALSE
            /\ spawn_failed' = TRUE

\* fr_process_start of a process that is not running.
Start(script, spawned) ==
    /\ sticky_only' = FALSE /\ stopping' = FALSE
    /\ ran' = IF script # <<>> /\ spawned THEN {1} ELSE {}
    /\ first_failure' = NoError /\ cut_short' = FALSE
    /\ IF script = <<>>
       THEN /\ current_command' = 1 /\ running' = FALSE /\ error' = NoError
            /\ busy' = FALSE
            /\ UNCHANGED <<child, check_timeout, spawn_failed>>
       ELSE StartCurrentCommand(script, 1, NoError, spawned)

\* What the status of a child that ended means, for a process with error e.
StatusError(e, status) ==
    CASE status = Killed -> [type |-> "EXITED_ABNORMALLY", status |-> 255]
      [] status = 0      -> [e EXCEPT !.type = "NONE"]
      [] status = 255    -> [e EXCEPT !.type = "COMMAND_NOT_FOUND"]
      [] OTHER           -> [type |-> "COMMAND_ERROR", status |-> status]

\* Mutant: a child that ends well clears the stop.
CommandError_ForgetsStop(channel) ==
    CASE channel = "illegal"  -> [type |-> "BAD_CHARSET", status |-> 0]
      [] channel = "io_error" -> [type |-> "IO_CHANNEL", status |-> 0]
      [] OTHER -> IF Info.ignore_error THEN [error EXCEPT !.type = "NONE"]
                  ELSE StatusError(error, child)

\* The error after the current command, whose channels gave `channel': bytes that
\* are not of the character set, a failed read, or nothing to complain of.
CommandError(channel) ==
    CASE channel = "illegal"  -> [type |-> "BAD_CHARSET", status |-> 0]
      [] channel = "io_error" -> [type |-> "IO_CHANNEL", status |-> 0]
      [] OTHER -> IF Info.ignore_error THEN [error EXCEPT !.type = "NONE"]
                  ELSE IF error.type = "STOPPED" THEN error
                  ELSE StatusError(error, child)

\* gzip_continue_func, the only continue function there is: status 2 of gzip is a
\* warning.  The status is the last one set, which a later success leaves alone.
GzipContinue(e) ==
    IF Info.continue_func /\ e.status = 2 THEN NoError ELSE e

Continues(e) == Info.continue_func => e.status = 0

\* Mutant: the command after the one that failed is not considered.
NextCommand_SkipsOne(sticky) ==
    LET from == IF sticky /\ current_command < Len(comm) THEN current_command + 2
                                                         ELSE current_command + 1
    IN CHOOSE i \in from .. Len(comm) + 1 :
        /\ i = Len(comm) + 1 \/ ~sticky \/ comm[i].sticky
        /\ \A j \in from .. i - 1 : sticky /\ ~comm[j].sticky

\* The command to run after the current one: N + 1 when there is none.
NextCommand(sticky) ==
    CHOOSE i \in current_command + 1 .. Len(comm) + 1 :
        /\ i = Len(comm) + 1 \/ ~sticky \/ comm[i].sticky
        /\ \A j \in current_command + 1 .. i - 1 : sticky /\ ~comm[j].sticky

\* allow_sticky_processes_only: only the first error is remembered.
RememberFirst(e) == IF sticky_only THEN first_error ELSE e

\* Mutant: the first error is not restored.
Finish_LastError(e, only_sticky, first) ==
    /\ current_command' = 0
    /\ running' = FALSE /\ stopping' = FALSE
    /\ sticky_only' = only_sticky /\ first_error' = first
    /\ error' = e
    /\ child' = NoChild /\ check_timeout' = FALSE
    /\ busy' = FALSE /\ restart' = FALSE
    /\ UNCHANGED <<comm, current_charset, ran, spawn_failed>>

\* The rest of check_child when nothing is left to run: the operation is over.
Finish(e, only_sticky, first) ==
    /\ current_command' = 0
    /\ running' = FALSE /\ stopping' = FALSE
    /\ sticky_only' = only_sticky /\ first_error' = first
    /\ error' = IF only_sticky THEN first ELSE e
    /\ child' = NoChild /\ check_timeout' = FALSE
    /\ busy' = FALSE /\ restart' = FALSE
    /\ UNCHANGED <<comm, current_charset, ran, spawn_failed>>

NoteFailure(e) ==
    first_failure' = IF first_failure = NoError /\ e.type # "NONE" THEN e ELSE first_failure

\* A child that is still running when its command is given up is never waited for.
Forget == orphans' = IF child = Running THEN orphans \cup {Info.op} ELSE orphans

----
(* The owner. *)

\* fr_process_clear, the commands of an operation, fr_process_start: which does
\* nothing at all on a process that still counts as running.
Request(script, spawned) ==
    /\ ~busy
    /\ comm' = script
    /\ IF running
       THEN UNCHANGED <<current_command, running, stopping, sticky_only, restart, error,
                        current_charset, child, check_timeout, busy, ghosts>>
       ELSE /\ current_charset' = -1
            /\ restart' = FALSE
            /\ Start(script, spawned)
    /\ UNCHANGED <<first_error, orphans>>

\* fr_process_stop while the owner is busy: there is a child, which is told to
\* terminate (it may end in any way, and need not), unless its command is sticky.
Stop ==
    /\ busy /\ running /\ ~stopping
    /\ stopping' = TRUE
    /\ error' = [error EXCEPT !.type = "STOPPED"]
    /\ IF Info.sticky
       THEN /\ first_error' = RememberFirst([error EXCEPT !.type = "STOPPED"])
            /\ sticky_only' = TRUE
            /\ NoteFailure([error EXCEPT !.type = "STOPPED"])
       ELSE UNCHANGED <<first_error, sticky_only, first_failure>>
    /\ UNCHANGED <<comm, current_command, running, restart, current_charset, child,
                   check_timeout, orphans, busy, ran, cut_short, spawn_failed>>

----
(* The main loop. *)

\* Mutant: the character set is tried again.
TryAnotherCharset_Same(spawned) ==
    /\ check_timeout
    /\ current_charset < NCharsets - 1
    /\ UNCHANGED current_charset
    /\ restart' = spawned
    /\ Start(comm, spawned)
    /\ Forget
    /\ UNCHANGED <<comm, first_error>>

\* Output that is not of the character set, and another set to try: the whole script
\* starts again, with the next set.
TryAnotherCharset(spawned) ==
    /\ check_timeout
    /\ current_charset < NCharsets - 1
    /\ current_charset' = current_charset + 1
    /\ restart' = spawned
    /\ Start(comm, spawned)
    /\ Forget
    /\ UNCHANGED <<comm, first_error>>

\* check_child, once the child has ended or one of its channels has failed.  The
\* callback finds nothing to do before that.
CheckChild(channel, spawned) ==
    /\ check_timeout
    /\ channel = "ok" => child # Running
    /\ channel = "illegal" => current_charset = NCharsets - 1
    /\ LET e           == GzipContinue(CommandError(channel))
           only_sticky == sticky_only \/ e.type # "NONE"
           first       == IF e.type # "NONE" THEN RememberFirst(e) ELSE first_error
           next        == NextCommand(only_sticky)
       IN /\ NoteFailure(e)
          /\ IF ~Continues(e)
             THEN /\ Finish(e, sticky_only, first_error)
                  /\ cut_short' = TRUE
             ELSE IF next > Len(comm)
             THEN /\ Finish(e, only_sticky, first)
                  /\ UNCHANGED cut_short
             ELSE /\ StartCurrentCommand(comm, next, e, spawned)
                  /\ sticky_only' = only_sticky /\ first_error' = first
                  /\ restart' = (restart /\ spawned)
                  /\ ran' = IF spawned THEN ran \cup {next} ELSE ran
                  /\ UNCHANGED <<comm, stopping, current_charset, cut_short>>
    /\ Forget

\* Children end when they like.
ChildExits(status) ==
    /\ child = Running
    /\ child' = status
    /\ UNCHANGED <<comm, current_command, running, stopping, sticky_only, restart, error,
                   first_error, current_charset, check_timeout, orphans, busy, ghosts>>

OrphanExits(op) ==
    /\ op \in orphans
    /\ orphans' = orphans \ {op}
    /\ UNCHANGED <<comm, current_command, running, stopping, sticky_only, restart, error,
                   first_error, current_charset, child, check_timeout, busy, ghosts>>

Owner == Stop \/ \E script \in Scripts, spawned \in BOOLEAN : Request(script, spawned)

MainLoop ==
    \E spawned \in BOOLEAN :
        \/ TryAnotherCharset(spawned)
        \/ \E channel \in {"ok", "illegal", "io_error"} : CheckChild(channel, spawned)

SomeChildExits == \E status \in ExitCodes : ChildExits(status)

Next == Owner \/ MainLoop \/ SomeChildExits \/ \E op \in Ops : OrphanExits(op)

Spec == Init /\ [][Next]_vars

\* The main loop runs its timeouts, and the programs that are run end.
FairSpec == Spec /\ WF_vars(MainLoop) /\ WF_vars(SomeChildExits)

----
(* Properties. *)

\* The types; and a check is due exactly while there is a child to look at, of a
\* command of the script, for an owner who waits for it.
TypeOK ==
    /\ comm \in Seq(CommandInfo)
    /\ current_command \in Nat
    /\ running \in BOOLEAN /\ stopping \in BOOLEAN /\ sticky_only \in BOOLEAN
    /\ restart \in BOOLEAN /\ check_timeout \in BOOLEAN /\ busy \in BOOLEAN
    /\ error \in Errors /\ first_error \in Errors /\ first_failure \in Errors
    /\ current_charset \in -1 .. NCharsets - 1
    /\ child \in {NoChild, Running} \cup ExitCodes
    /\ orphans \subseteq Ops
    /\ ran \subseteq Nat
    /\ cut_short \in BOOLEAN /\ spawn_failed \in BOOLEAN
    /\ check_timeout <=> child # NoChild
    /\ check_timeout <=> busy
    /\ busy => running /\ current_command \in DOMAIN comm /\ current_command \in ran

\* No command is started after one that failed, but the sticky ones
\* (allow_sticky_processes_only, the loop in check_child).
OnlyStickyAfterFailure ==
    [][first_failure' # NoError => \A i \in ran' \ ran : comm'[i].sticky]_vars

\* "sticky: whether the command must be executed even if a previous command has
\* failed" (fr-process.c:57-59): when DONE is emitted, each of them has been started.
StickyCommandsRun ==
    ~busy => \A i \in DOMAIN comm : comm[i].sticky => i \in ran

\* It is so unless a command could not be spawned or a continue function said no:
\* both end the operation on the spot.
StickyCommandsRunUnlessCut ==
    ~spawn_failed /\ ~cut_short => StickyCommandsRun

\* What the owner is told is the first error of the operation, whatever the sticky
\* commands did afterwards ("Remember the first error", "Restore the first error").
FirstErrorReported ==
    ~busy /\ ~spawn_failed => error.type = first_failure.type

\* A stop that is still pending lets nothing start but sticky commands, unless the
\* command it interrupts has its errors ignored: the stop goes with them.
StopHonoured ==
    [][error.type = "STOPPED" /\ stopping' =>
          \A i \in ran' \ ran : comm[i].sticky \/ Info.ignore_error]_vars

\* After DONE the process is ready for the next operation, as long as no command
\* failed to start: after that it refuses every script without a word.
ReadyWhenIdle ==
    ~busy /\ ~spawn_failed => ~running /\ ~stopping /\ ~restart

\* Every operation that emitted START emits DONE.
Finishes == busy ~> ~busy
====

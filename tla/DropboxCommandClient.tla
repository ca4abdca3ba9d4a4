---- MODULE DropboxCommandClient ----
(* The command link of athena-dropbox (athena-dropbox-1.4.0/src/dropbox-command-client.c): a
   thread that owns the socket to the Dropbox daemon and serves, one at a time, the requests that
   the main thread pushes on an asynchronous queue.

   Three parties take steps: the command thread (its program counter is pc), the GLib main loop
   (which checks command_connected, pushes requests, and runs the callbacks the thread queued
   with g_idle_add), and the daemon, which answers line by line, late, badly or never.

   A request is the heap object of that request, so it is issued at most once.  A line of a reply
   carries, besides its text, the command it answers: the code cannot see that field, the
   properties can. *)
EXTENDS Naturals, Sequences, FiniteSets

CONSTANTS
    FileRequests,     \* the GET_FILE_INFO requests
    GeneralRequests,  \* the GENERAL_COMMAND requests
    Directories,      \* the file requests about a folder
    Reset,            \* the address of the thread function, pushed as a request
    None,             \* a NULL pointer
    Replies,          \* the replies the daemon may give, as sequences of lines
    MaxArgs,          \* receive_args_until_done gives up at this many arguments
    MaxAttempts,      \* bound: connection attempts reported in a row
    MaxIdle,          \* bound: connection events waiting in the main loop
    MaxResets         \* bound: reset requests in the queue

Requests == FileRequests \cup GeneralRequests

Lines == {"ok", "notok", "arg", "done"}

ASSUME RequestsAssumption ==
    /\ FileRequests \cap GeneralRequests = {}
    /\ Directories \subseteq FileRequests
    /\ Reset \notin Requests
    /\ None \notin Requests \cup {Reset}
    /\ Replies \subseteq Seq(Lines)

ASSUME BoundsAssumption ==
    /\ MaxArgs \in Nat
    /\ MaxAttempts \in Nat
    /\ MaxIdle \in Nat
    /\ MaxResets \in Nat

FileCommands == {"get_emblems", "icon_overlay_file_status", "get_folder_tag"}
Commands == FileCommands \cup {"general"}

\* What a reply answers: a wire command sent on behalf of a request.
Questions == Requests \X Commands
NoQuestion == <<None, "general">>

Question == Questions \cup {NoQuestion}
Line == [text : Lines, to : Questions]

VARIABLES
    pc,                  \* where the command thread is
    dc,                  \* the request the thread is serving, or None
    command,             \* the wire command of that request being exchanged
    numargs,             \* arguments read so far of an "ok" reply
    reply,               \* what the reply being read really answers
    connection_attempts, \* failed attempts since the last connection
    command_queue,       \* the asynchronous queue of requests
    command_connected,   \* the flag behind command_connected_mutex
    idle,                \* callbacks queued on the main loop, oldest first
    main_push,           \* what the main thread has decided to push, or None
    issued,              \* requests handed to the client so far
    runs,                \* how often the handler of each request ran
    announced,           \* the last connection callback the main loop ran
    peer,                \* the socket: "none", "open", or "closed" by the daemon
    inbox,               \* commands the daemon has not begun to answer
    writing,             \* lines of the current reply not yet written
    lines,               \* lines written and not yet read by the thread
    swallowed,           \* an error of get_emblems was ignored on this socket
    crashed              \* the process has written through a NULL line

threadVars == <<pc, dc, command, numargs, reply, connection_attempts>>
mainVars == <<main_push, issued, announced>>
wireVars == <<peer, inbox, writing, lines>>
vars == <<threadVars, command_queue, command_connected, idle, mainVars, runs,
          wireVars, swallowed, crashed>>

ReadPcs == {"status", "args", "errors"}
ServePcs == {"send"} \cup ReadPcs
Pcs == {"connect", "set_connected", "idle_connect", "pop", "drain",
        "set_disconnected", "idle_disconnect"} \cup ServePcs

\* The callbacks: on_connect and on_disconnect, on_connection_attempt with the
\* number of the attempt, and the completion of a file request.
Events == ({"connect", "disconnect"} \X {None})
            \cup ({"attempt"} \X Nat) \cup ({"finish"} \X Requests)

Init ==
    /\ pc = "connect" /\ dc = None /\ command = "general" /\ numargs = 0
    /\ reply = NoQuestion
    /\ connection_attempts = 1
    /\ command_queue = <<>> /\ command_connected = FALSE
    /\ idle = <<>>
    /\ main_push = None /\ issued = {} /\ runs = [r \in Requests \cup {Reset} |-> 0]
    /\ announced = "disconnect"
    /\ peer = "none" /\ inbox = <<>> /\ writing = <<>> /\ lines = <<>>
    /\ swallowed = FALSE /\ crashed = FALSE

----
(* The command thread: connecting. *)

\* The attempt failed or timed out: report it and try again a second later.
ConnectFail ==
    /\ pc = "connect"
    /\ connection_attempts < MaxAttempts
    /\ idle' = Append(idle, <<"attempt", connection_attempts>>)
    /\ connection_attempts' = connection_attempts + 1
    /\ UNCHANGED <<pc, dc, command, numargs, reply, command_queue,
                   command_connected, mainVars, runs, wireVars, swallowed>>

ConnectOk ==
    /\ pc = "connect"
    /\ pc' = "set_connected"
    /\ connection_attempts' = 0
    /\ peer' = "open"
    /\ UNCHANGED <<dc, command, numargs, reply, command_queue,
                   command_connected, idle, mainVars, runs, inbox, writing,
                   lines, swallowed>>

\* SET_CONNECTED_STATE(s), under the mutex.
SetConnectedState(from, s, to) ==
    /\ pc = from
    /\ command_connected' = s
    /\ pc' = to
    /\ UNCHANGED <<dc, command, numargs, reply, connection_attempts,
                   command_queue, idle, mainVars, runs, wireVars, swallowed>>

SetConnected == SetConnectedState("set_connected", TRUE, "idle_connect")
SetDisconnected == SetConnectedState("set_disconnected", FALSE, "idle_disconnect")

\* g_idle_add of on_connect or on_disconnect.
AddConnectionEvent(from, event, to) ==
    /\ pc = from
    /\ Len(idle) < MaxIdle
    /\ idle' = Append(idle, <<event, None>>)
    /\ pc' = to
    /\ UNCHANGED <<dc, command, numargs, reply, connection_attempts,
                   command_queue, command_connected, mainVars, runs,
                   wireVars, swallowed>>

AddOnConnect == AddConnectionEvent("idle_connect", "connect", "pop")
AddOnDisconnect == AddConnectionEvent("idle_disconnect", "disconnect", "connect")

----
(* The command thread: completing a request. *)

\* A file request is finished by a callback on the main loop; the handler of
\* a general command runs here, in the thread, and frees the command.
Finish(r) ==
    IF r \in FileRequests
    THEN /\ idle' = Append(idle, <<"finish", r>>)
         /\ UNCHANGED runs
    ELSE /\ runs' = [runs EXCEPT ![r] = @ + 1]
         /\ UNCHANGED idle

\* end_request: finish with an empty response, but never the reset marker.
EndRequest(r) ==
    IF r = Reset THEN UNCHANGED <<idle, runs>> ELSE Finish(r)

\* The request was served: back to the queue.
Complete ==
    /\ Finish(dc)
    /\ pc' = "pop"
    /\ dc' = None
    /\ command' = "general"

\* The next wire command of the same file request.
Ask(c) ==
    /\ pc' = "send"
    /\ command' = c
    /\ UNCHANGED <<dc, idle, runs>>

\* What follows an answer read to its end.  After get_emblems only an answer
\* with a table ends the request (do_file_info_command).
Answered(hasTable) ==
    IF \/ command = "get_emblems" /\ ~hasTable
    THEN Ask("icon_overlay_file_status")
    ELSE IF command = "icon_overlay_file_status" /\ dc \in Directories
    THEN Ask("get_folder_tag")
    ELSE Complete

\* Mutant: the request is completed on the way out, and ended again.
Failed_CompletesToo ==
    /\ IF dc \in FileRequests
       THEN idle' = idle \o <<<<"finish", dc>>, <<"finish", dc>>>> /\ UNCHANGED runs
       ELSE runs' = [runs EXCEPT ![dc] = @ + 2] /\ UNCHANGED idle
    /\ pc' = "drain" /\ dc' = None /\ command' = "general"
    /\ UNCHANGED swallowed

\* Mutant: the request is ended, the connection is kept.
Failed_KeepsConnection == Complete /\ UNCHANGED swallowed

\* What follows an error.  The error pointer of get_emblems is NULL, so its
\* errors are ignored; any other error ends the request and the connection.
Failed ==
    IF command = "get_emblems"
    THEN /\ Ask("icon_overlay_file_status")
         /\ swallowed' = TRUE
    ELSE /\ EndRequest(dc)
         /\ pc' = "drain"
         /\ dc' = None
         /\ command' = "general"
         /\ UNCHANGED swallowed

----
(* The command thread: serving the queue. *)

Pop ==
    /\ pc = "pop"
    /\ command_queue # <<>>
    /\ command_queue' = Tail(command_queue)
    /\ LET r == Head(command_queue) IN
         \/ /\ r = Reset              \* "this pointer should be unique"
            /\ pc' = "drain"
            /\ UNCHANGED <<dc, command, idle, runs>>
         \/ /\ r \in FileRequests
            /\ pc' = "send" /\ dc' = r /\ command' = "get_emblems"
            /\ UNCHANGED <<idle, runs>>
         \/ /\ r \in FileRequests      \* no local, well encoded file name
            /\ Finish(r)
            /\ UNCHANGED <<pc, dc, command>>
         \/ /\ r \in GeneralRequests
            /\ pc' = "send" /\ dc' = r /\ command' = "general"
            /\ UNCHANGED <<idle, runs>>
    /\ UNCHANGED <<numargs, reply, connection_attempts, command_connected,
                   mainVars, wireVars, swallowed>>

\* Nothing came for a tenth of a second and check_connection finds the socket
\* closed, or data nobody asked for.  When it finds neither, nothing changes.
CheckConnection ==
    /\ pc = "pop"
    /\ command_queue = <<>>
    /\ peer = "closed" \/ lines # <<>>
    /\ pc' = "drain"
    /\ UNCHANGED <<dc, command, numargs, reply, connection_attempts,
                   command_queue, command_connected, idle, mainVars, runs,
                   wireVars, swallowed>>

\* One turn of the loop that ends the requests left in the queue.
Drain ==
    /\ pc = "drain"
    /\ command_queue # <<>>
    /\ command_queue' = Tail(command_queue)
    /\ EndRequest(Head(command_queue))
    /\ UNCHANGED <<threadVars, command_connected, mainVars, wireVars, swallowed>>

\* The queue was empty: the channel is closed, whatever it still held.
Close ==
    /\ pc = "drain"
    /\ command_queue = <<>>
    /\ pc' = "set_disconnected"
    /\ peer' = "none" /\ inbox' = <<>> /\ writing' = <<>> /\ lines' = <<>>
    /\ swallowed' = FALSE
    /\ UNCHANGED <<dc, command, numargs, reply, connection_attempts,
                   command_queue, command_connected, idle, mainVars, runs>>

----
(* The command thread: one exchange with the daemon (send_command_to_db and
   receive_args_until_done). *)

exchangeUnchanged ==
    UNCHANGED <<connection_attempts, command_queue, command_connected, mainVars>>

Send ==
    /\ pc = "send"
    /\ exchangeUnchanged
    /\ \/ /\ peer = "open"
          /\ inbox' = Append(inbox, <<dc, command>>)
          /\ pc' = "status"
          /\ UNCHANGED <<dc, command, numargs, reply, idle, runs, peer,
                         writing, lines, swallowed>>
       \/ /\ peer = "closed"
          /\ Failed
          /\ UNCHANGED <<numargs, reply, wireVars>>

\* g_io_channel_read_line returned a line.
ReadLine(text) ==
    /\ lines # <<>>
    /\ Head(lines).text = text
    /\ lines' = Tail(lines)
    /\ UNCHANGED <<peer, inbox, writing>>

ReadStatus ==
    /\ pc = "status"
    /\ \E text \in Lines :
         /\ ReadLine(text)
         /\ pc' = IF text = "ok" THEN "args" ELSE "errors"
         /\ reply' = Head(lines).to
    /\ numargs' = 0
    /\ exchangeUnchanged
    /\ UNCHANGED <<dc, command, idle, runs, swallowed>>

\* The reply to a command was read up to "done".
EndOfReply(hasTable) ==
    /\ Answered(hasTable)
    /\ numargs' = 0
    /\ reply' = NoQuestion
    /\ UNCHANGED swallowed

\* The reply was given up: whatever it still holds stays in the channel.
GiveUp ==
    /\ Failed
    /\ numargs' = 0
    /\ reply' = NoQuestion

TooManyArgs ==
    /\ pc = "args"
    /\ numargs >= MaxArgs
    /\ GiveUp
    /\ exchangeUnchanged
    /\ UNCHANGED wireVars

ReadArg ==
    /\ pc = "args"
    /\ numargs < MaxArgs
    /\ exchangeUnchanged
    /\ \/ /\ ReadLine("done")
          /\ EndOfReply(TRUE)
       \/ /\ ReadLine("arg")
          /\ numargs' = numargs + 1
          /\ UNCHANGED <<pc, dc, command, reply, idle, runs, swallowed>>
       \/ /\ \E text \in {"ok", "notok"} : ReadLine(text)   \* no tab: parse error
          /\ GiveUp

ReadErrors ==
    /\ pc = "errors"
    /\ exchangeUnchanged
    /\ \/ /\ ReadLine("done")
          /\ EndOfReply(FALSE)
       \/ /\ \E text \in Lines \ {"done"} : ReadLine(text)
          /\ UNCHANGED <<pc, dc, command, numargs, reply, idle, runs, swallowed>>

\* The daemon closed the socket and everything it wrote was read.
ReadEof ==
    /\ pc \in ReadPcs
    /\ pc = "args" => numargs < MaxArgs
    /\ lines = <<>>
    /\ peer = "closed"
    /\ GiveUp
    /\ exchangeUnchanged
    /\ UNCHANGED wireVars

\* Mutant: no receive timeout on the socket.
ReadTimeout_Never == FALSE

\* Three seconds without a line (SO_RCVTIMEO).
ReadTimeout ==
    /\ pc \in {"status", "errors"}
    /\ lines = <<>>
    /\ peer = "open"
    /\ GiveUp
    /\ exchangeUnchanged
    /\ UNCHANGED wireVars

\* The same while reading arguments: that status is not tested, and the NULL
\* line is written to.
ArgsTimeout ==
    /\ pc = "args"
    /\ numargs < MaxArgs
    /\ lines = <<>>
    /\ peer = "open"
    /\ crashed' = TRUE
    /\ UNCHANGED <<threadVars, command_queue, command_connected, idle,
                   mainVars, runs, wireVars, swallowed>>

Thread ==
    \/ ArgsTimeout
    \/ /\ UNCHANGED crashed
       /\ \/ ConnectFail \/ ConnectOk \/ SetConnected \/ AddOnConnect
          \/ Pop \/ CheckConnection \/ Drain \/ Close
          \/ SetDisconnected \/ AddOnDisconnect
          \/ Send \/ ReadStatus \/ TooManyArgs \/ ReadArg \/ ReadErrors
          \/ ReadEof \/ ReadTimeout

----
(* The main loop.  A push that follows a test of command_connected is a separate step: the mutex
   is released in between. *)

AtLoop == main_push = None

Decide(r) ==
    /\ AtLoop
    /\ main_push' = r
    /\ UNCHANGED <<threadVars, command_queue, command_connected, idle, runs,
                   announced, wireVars, swallowed>>

\* athena_dropbox_update_file_info, when the client is connected.
RequestFileInfo(r) ==
    /\ r \notin issued
    /\ command_connected
    /\ issued' = issued \cup {r}
    /\ Decide(r)

\* dropbox_command_client_send_command: no test at all.
RequestGeneral(r) ==
    /\ r \notin issued
    /\ issued' = issued \cup {r}
    /\ Decide(r)

ForceReconnect ==
    /\ command_connected
    /\ Cardinality({i \in DOMAIN command_queue : command_queue[i] = Reset}) < MaxResets
    /\ Decide(Reset)
    /\ UNCHANGED issued

\* dropbox_command_client_request.
Request ==
    /\ main_push # None
    /\ command_queue' = Append(command_queue, main_push)
    /\ main_push' = None
    /\ UNCHANGED <<threadVars, command_connected, idle, issued, announced,
                   runs, wireVars, swallowed>>

\* The main loop runs the oldest callback.
Dispatch ==
    /\ AtLoop
    /\ idle # <<>>
    /\ idle' = Tail(idle)
    /\ LET event == Head(idle) IN
         /\ announced' = IF event[1] \in {"connect", "disconnect"}
                         THEN event[1] ELSE announced
         /\ runs' = IF event[1] = "finish"
                    THEN [runs EXCEPT ![event[2]] = @ + 1] ELSE runs
    /\ UNCHANGED <<threadVars, command_queue, command_connected, main_push,
                   issued, wireVars, swallowed>>

Main ==
    \/ \E r \in FileRequests : RequestFileInfo(r)
    \/ \E r \in GeneralRequests : RequestGeneral(r)
    \/ ForceReconnect
    \/ Request
    \/ Dispatch

----
(* The daemon. *)

clientUnchanged ==
    UNCHANGED <<threadVars, command_queue, command_connected, idle, mainVars,
                runs, swallowed>>

\* Take the oldest command and choose what to answer.
DaemonAnswer ==
    /\ peer = "open"
    /\ writing = <<>>
    /\ inbox # <<>>
    /\ inbox' = Tail(inbox)
    /\ \E answer \in Replies :
         writing' = [i \in DOMAIN answer |->
                       [text |-> answer[i], to |-> Head(inbox)]]
    /\ UNCHANGED <<peer, lines>>
    /\ clientUnchanged

DaemonWrite ==
    /\ peer = "open"
    /\ writing # <<>>
    /\ lines' = Append(lines, Head(writing))
    /\ writing' = Tail(writing)
    /\ UNCHANGED <<peer, inbox>>
    /\ clientUnchanged

\* The daemon exits or drops the connection, perhaps in the middle of a reply.
DaemonClose ==
    /\ peer = "open"
    /\ peer' = "closed"
    /\ inbox' = <<>> /\ writing' = <<>>
    /\ UNCHANGED lines
    /\ clientUnchanged

Daemon == DaemonAnswer \/ DaemonWrite \/ DaemonClose

----
Running == ~crashed

\* After the crash nothing happens any more.
Crashed == crashed /\ UNCHANGED vars

Next ==
    \/ Running /\ Thread
    \/ Running /\ Main /\ UNCHANGED crashed
    \/ Running /\ Daemon /\ UNCHANGED crashed
    \/ Crashed

Spec == Init /\ [][Next]_vars

\* The operating system runs the thread, the main loop comes back to its
\* callbacks after every handler, and the daemon, when asked again and again,
\* accepts a connection.  Nothing is assumed of its answers.
Fairness ==
    /\ WF_vars(Running /\ Thread)
    /\ WF_vars(Running /\ ConnectOk /\ UNCHANGED crashed)
    /\ WF_vars(Running /\ Request /\ UNCHANGED crashed)
    /\ SF_vars(Running /\ Dispatch /\ UNCHANGED crashed)

FairSpec == Spec /\ Fairness

----
(* Properties. *)

\* The queue, the channel and the place of the thread have their types, and so has
\* every line on its way.
TypeOK ==
    /\ pc \in Pcs
    /\ dc \in Requests \cup {None}
    /\ command \in Commands
    /\ numargs \in Nat
    /\ reply \in Question
    /\ connection_attempts \in Nat
    /\ command_queue \in Seq(Requests \cup {Reset})
    /\ command_connected \in BOOLEAN
    /\ idle \in Seq(Events)
    /\ main_push \in Requests \cup {Reset, None}
    /\ issued \in SUBSET Requests
    /\ runs \in [Requests \cup {Reset} -> Nat]
    /\ announced \in {"connect", "disconnect"}
    /\ peer \in {"none", "open", "closed"}
    /\ inbox \in Seq(Questions)
    /\ writing \in Seq(Line)
    /\ lines \in Seq(Line)
    /\ swallowed \in BOOLEAN
    /\ crashed \in BOOLEAN

\* Where a request can be: about to be pushed, in the queue, being served,
\* waiting for its callback on the main loop, or freed by its handler.
Pushing == {main_push} \ {None, Reset}
Queued == {command_queue[i] : i \in DOMAIN command_queue} \ {Reset}
Serving == {dc} \ {None}
Finishing == {r \in Requests : \E i \in DOMAIN idle : idle[i] = <<"finish", r>>}
freed == {r \in Requests : runs[r] > 0}

\* No request handed to the client is ever lost, by an error, a timeout, a
\* reset or a lost connection.
NothingLost == issued = Pushing \cup Queued \cup Serving \cup Finishing \cup freed

QueueDistinct ==
    \A i, j \in DOMAIN command_queue :
      command_queue[i] = command_queue[j] /\ command_queue[i] # Reset => i = j

IdleDistinct ==
    \A i, j \in DOMAIN idle : idle[i] = idle[j] /\ idle[i][1] = "finish" => i = j

PlacesDisjoint ==
    /\ Pushing \cap (Queued \cup Serving \cup Finishing \cup freed) = {}
    /\ Queued \cap (Serving \cup Finishing \cup freed) = {}
    /\ Serving \cap (Finishing \cup freed) = {}
    /\ Finishing \cap freed = {}

RunsOnce == runs[Reset] = 0 /\ \A r \in Requests : runs[r] <= 1

\* No request is in two places: it is answered once, and nothing holds it after
\* its handler freed it (finish_general_command in the thread,
\* athena_dropbox_finish_file_info_command in the main loop).
NothingTwice == QueueDistinct /\ IdleDistinct /\ PlacesDisjoint /\ RunsOnce

\* Seen by its callers, the client is a service that answers each request at
\* most once, whatever the daemon and the connection do.
Service == INSTANCE RequestService
             WITH answers <- [r \in Requests |-> runs[r]]
IsRequestService == Service!Spec

\* A command is answered with the reply to that command.
AnswersMatch ==
    pc \in {"args", "errors"} => reply = <<dc, command>>

\* It is, as long as no error of get_emblems was ignored on the connection.
AnswersMatchUnlessSwallowed == ~swallowed => AnswersMatch

\* Every request is answered in the end, provided the daemon can be reached.
EveryRequestAnswered ==
    \A r \in Requests : (r \in issued) ~> (r \in freed \/ crashed)
====

---- MODULE DropboxClient ----
(* The Dropbox client of athena-dropbox: the two links to the daemon (dropbox-client.c), which it
   folds into one "connected" by four flags, and the extension's handlers of that event
   (athena-dropbox.c), which keep the icon theme's search path.

   The command link is a thread (DropboxCommandClient has its detail): it tells the main loop of
   its connections through callbacks.  The hook link lives in the main loop (DropboxHooks has its
   detail): a callback of the one may close and reopen the other before it returns, so a callback
   is one step, built from one operator per C function. *)
EXTENDS Naturals, Sequences

CONSTANTS
    None,      \* a NULL pointer
    MaxIdle,   \* bound: callbacks queued on the main loop
    MaxQueue   \* bound: commands queued for the thread

ASSUME BoundsAssumption == MaxIdle \in Nat /\ MaxQueue \in Nat

\* The emblem directories: those the daemon names, or DEFAULT_EMBLEM_PATHS.
Paths == {"daemon", "default"}

ASSUME NoneAssumption == None \notin Paths

VARIABLES
    client,            \* what main-loop callbacks work on, a record
    command_queue,     \* the commands that matter here: "reset", "get_emblem_paths"
    command_connected, \* the flag of the command thread
    thread,            \* where the command thread is
    table,             \* the emblem table its handler is installing, or None
    theme              \* the emblem directories in the icon theme's search path

vars == <<client, command_queue, command_connected, thread, table, theme>>

\* The fields of client: the flags of dropbox-client.h; hooks, hookserv->connected with its
\* watch; retry, try_to_connect waits on its timer; command, the last command callback was a
\* connection; told, what the extension was told last; emblem_paths; what it has decided to push
\* to the command client, and the callbacks queued in the main loop, oldest first.  Ghosts:
\* lone, a link was lost out of turn; raced, told of a loss in mid get_emblem_paths_cb.

----
(* The handlers of the extension: on_connect and on_disconnect. *)

OnConnect(c) ==
    [c EXCEPT !.told = "connect", !.pushing = Append(@, "get_emblem_paths")]

\* remove_emblem_paths does nothing with a NULL table.
OnDisconnect(c) ==
    [c EXCEPT !.told = "disconnect",
              !.idle = IF c.emblem_paths = None THEN @
                       ELSE Append(@, <<"remove", c.emblem_paths>>),
              !.raced = @ \/ table # None,
              !.emblem_paths = None]

----
(* The four callbacks of dropbox-client.c, and the parts of the hook link they call.  reconnected
   says whether try_to_connect succeeds at once. *)

ConnectFlags(c) ==
    IF c.hook_connect_called /\ c.command_connect_called
    THEN [OnConnect(c) EXCEPT !.hook_connect_called = FALSE,
                              !.command_connect_called = FALSE]
    ELSE c

DisconnectFlags(c) ==
    [OnDisconnect(c) EXCEPT !.hook_disconnect_called = FALSE,
                            !.command_disconnect_called = FALSE]

\* Mutant: the hook link's own connection is not noted.
HookOnConnect_Forgets(c) == ConnectFlags(c)

HookOnConnect(c) == ConnectFlags([c EXCEPT !.hook_connect_called = TRUE])

CommandOnConnect(c) ==
    ConnectFlags([c EXCEPT !.command_connect_called = TRUE, !.command = TRUE])

\* Calls dropbox_command_client_force_reconnect, whose push comes after its
\* test of command_connected.
HookOnDisconnect(c) ==
    LET d == [c EXCEPT !.hook_disconnect_called = TRUE] IN
      IF d.command_disconnect_called THEN DisconnectFlags(d)
      ELSE IF command_connected THEN [d EXCEPT !.pushing = Append(@, "reset")]
      ELSE d

TryToConnect(c, reconnected) ==
    IF reconnected THEN HookOnConnect([c EXCEPT !.hooks = TRUE, !.retry = FALSE])
    ELSE [c EXCEPT !.retry = TRUE]

WatchKiller(c, reconnected) ==
    TryToConnect(HookOnDisconnect([c EXCEPT !.hooks = FALSE]), reconnected)

HooksForceReconnect(c, reconnected) ==
    IF c.hooks THEN WatchKiller(c, reconnected) ELSE [c EXCEPT !.lone = TRUE]

CommandOnDisconnect(c, reconnected) ==
    LET d == [c EXCEPT !.command_disconnect_called = TRUE, !.command = FALSE] IN
      IF d.hook_disconnect_called THEN DisconnectFlags(d)
      ELSE HooksForceReconnect(d, reconnected)

----
\* athena_dropbox_instance_init starts the hook link before the thread.
Init ==
    /\ command_connected = FALSE
    /\ table = None
    /\ \E reconnected \in BOOLEAN :
         client = TryToConnect(
           [ hook_connect_called |-> FALSE, command_connect_called |-> FALSE,
             hook_disconnect_called |-> FALSE, command_disconnect_called |-> FALSE,
             hooks |-> FALSE, retry |-> FALSE, command |-> FALSE,
             told |-> "disconnect", lone |-> FALSE,
             raced |-> FALSE, emblem_paths |-> None,
             pushing |-> <<>>, idle |-> <<>> ], reconnected)
    /\ command_queue = <<>>
    /\ thread = "down"
    /\ theme = {}

----
(* The main loop. *)

\* The extension was told of the connection and no news of the command link is
\* on its way.
Settled ==
    /\ client.told = "connect" /\ client.hooks /\ client.command /\ thread = "up"
    /\ \A i \in DOMAIN client.idle : client.idle[i] \notin {<<"connect">>, <<"disconnect">>}

AtLoop == client.pushing = <<>>

mainUnchanged == UNCHANGED <<command_connected, thread, table>>

\* dropbox_command_client_request.
Push ==
    /\ ~AtLoop
    /\ command_queue' = Append(command_queue, Head(client.pushing))
    /\ client' = [client EXCEPT !.pushing = Tail(@)]
    /\ UNCHANGED theme
    /\ mainUnchanged

\* The hook socket is closed by the daemon, or its input is not understood.
HookLost ==
    /\ AtLoop
    /\ client.hooks
    /\ Len(command_queue) < MaxQueue
    /\ \E reconnected \in BOOLEAN :
         client' = WatchKiller([client EXCEPT !.lone = @ \/ ~Settled], reconnected)
    /\ UNCHANGED <<command_queue, theme>>
    /\ mainUnchanged

\* The timer fires; when the attempt fails it is set again.
HookRetry ==
    /\ AtLoop
    /\ client.retry
    /\ Len(command_queue) < MaxQueue
    /\ client' = TryToConnect(client, TRUE)
    /\ UNCHANGED <<command_queue, theme>>
    /\ mainUnchanged

\* on_connect and on_disconnect of dropbox-command-client.c, add_emblem_paths
\* and remove_emblem_paths.
Dispatch ==
    /\ AtLoop
    /\ client.idle # <<>>
    /\ LET event == Head(client.idle)
           c == [client EXCEPT !.idle = Tail(@)]
       IN
         /\ \E reconnected \in BOOLEAN :
              client' = CASE event[1] = "connect" -> CommandOnConnect(c)
                          [] event[1] = "disconnect" -> CommandOnDisconnect(c, reconnected)
                          [] OTHER -> c
         /\ theme' = CASE event[1] = "add" -> theme \cup {event[2]}
                       [] event[1] = "remove" -> theme \ {event[2]}
                       [] OTHER -> theme
    /\ UNCHANGED command_queue
    /\ mainUnchanged

MainRuns == Push \/ HookRetry \/ Dispatch

Main == MainRuns \/ HookLost

----
(* The command thread. *)

IdleAdd(events) == client' = [client EXCEPT !.idle = @ \o events]

LinkUp ==
    /\ thread = "down"
    /\ Len(client.idle) < MaxIdle
    /\ thread' = "up"
    /\ command_connected' = TRUE
    /\ IdleAdd(<< <<"connect">> >>)
    /\ UNCHANGED <<command_queue, table, theme>>

\* Any request may fail, and the daemon may close the socket, at any time.
LinkLost ==
    /\ thread = "up"
    /\ thread' = "closing"
    /\ UNCHANGED <<client, command_queue, command_connected, table, theme>>

\* Mutant: the table it replaces is dropped.
InstallTable_DropsOld(paths) ==
    /\ table' = paths
    /\ client' = [client EXCEPT !.emblem_paths = paths]

\* get_emblem_paths_cb, first half: under emblem_paths_mutex the new table
\* replaces the old one, whose removal is queued.
InstallTable(paths) ==
    /\ table' = paths
    /\ client' = [client EXCEPT
                    !.emblem_paths = paths,
                    !.idle = IF client.emblem_paths = None THEN @
                             ELSE Append(@, <<"remove", client.emblem_paths>>)]

\* Second half, after the mutex is released.
AddTable ==
    /\ table # None
    /\ table' = None
    /\ IdleAdd(<< <<"add", table>> >>)
    /\ UNCHANGED <<command_queue, command_connected, thread, theme>>

TakeCommand ==
    /\ table = None
    /\ command_queue # <<>>
    /\ command_queue' = Tail(command_queue)
    /\ UNCHANGED <<command_connected, theme>>

ServeReset ==
    /\ thread = "up"
    /\ TakeCommand
    /\ Head(command_queue) = "reset"
    /\ thread' = "closing"
    /\ UNCHANGED <<client, table>>

\* The daemon names its directories or refuses ...
ServeEmblemPaths ==
    /\ thread = "up"
    /\ TakeCommand
    /\ Head(command_queue) = "get_emblem_paths"
    /\ \E paths \in Paths : InstallTable(paths)
    /\ UNCHANGED thread

\* ... or the exchange fails.
ServeFails ==
    /\ thread = "up"
    /\ TakeCommand
    /\ Head(command_queue) = "get_emblem_paths"
    /\ InstallTable("default")
    /\ thread' = "closing"

\* The commands left are ended without a response; a reset is dropped.
Drain ==
    /\ thread = "closing"
    /\ TakeCommand
    /\ UNCHANGED thread
    /\ IF Head(command_queue) = "reset"
       THEN UNCHANGED <<client, table>>
       ELSE InstallTable("default")

Drained ==
    /\ thread = "closing"
    /\ table = None
    /\ command_queue = <<>>
    /\ thread' = "closed"
    /\ UNCHANGED <<client, command_queue, command_connected, table, theme>>

LinkDown ==
    /\ thread = "closed"
    /\ Len(client.idle) < MaxIdle
    /\ thread' = "down"
    /\ command_connected' = FALSE
    /\ IdleAdd(<< <<"disconnect">> >>)
    /\ UNCHANGED <<command_queue, table, theme>>

ThreadRuns ==
    \/ LinkUp \/ AddTable \/ ServeReset \/ ServeEmblemPaths \/ ServeFails
    \/ Drain \/ Drained \/ LinkDown

Thread == ThreadRuns \/ LinkLost

Next == Main \/ Thread

Spec == Init /\ [][Next]_vars

\* The main loop and the thread run; both daemon sockets accept when retried.
\* Nothing makes the daemon close a link.
FairSpec == Spec /\ WF_vars(MainRuns) /\ WF_vars(ThreadRuns)

----
Quiet ==
    /\ client.idle = <<>> /\ client.pushing = <<>>
    /\ command_queue = <<>> /\ table = None

\* When nothing is on its way, the icon theme has the directories the
\* extension will know to remove, and no others.
EmblemsTracked ==
    Quiet => theme = {client.emblem_paths} \ {None}

\* That holds as long as no disconnection came between the two halves of
\* get_emblem_paths_cb.
EmblemsTrackedUnlessRaced == ~client.raced => EmblemsTracked

Loss == HookLost \/ LinkLost \/ ServeFails
LinksStable == <>[][~Loss]_vars

\* Once neither link is lost any more, the extension ends up told that the
\* client is connected.
Recovers == LinksStable => <>[](client.told = "connect")

\* The same, when no link was lost out of turn before.
RecoversUnlessLone == [](~client.lone) => Recovers
====

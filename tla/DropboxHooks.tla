---- MODULE DropboxHooks ----
(* The hook link of athena-dropbox (athena-dropbox-hooks.c): a coroutine on a non-blocking socket
   that reads the daemon's messages, line by line, and dispatches each to its hook.

   All of it runs in the main loop, in three callbacks: the watch on the socket, which reads
   lines until there are none, the retry timer, and whatever calls force_reconnect.  The daemon
   writes and closes at any time.

   A line carries the connection and message it belongs to and its place in it: the code cannot
   see these, the properties can. *)
EXTENDS Naturals, Sequences

CONSTANTS
    Messages,       \* what the daemon may send, as sequences of texts
    MaxArgs,        \* the coroutine gives up at this many argument lines
    MaxConnections, \* bound: connections
    MaxSent         \* bound: messages on one connection

Texts == {"name", "arg", "junk", "done"}

ASSUME ConstantsAssumption ==
    /\ Messages \subseteq Seq(Texts)
    /\ MaxArgs \in Nat /\ MaxConnections \in Nat /\ MaxSent \in Nat

VARIABLES
    line,         \* where the coroutine resumes: at its start, or in a read
    numargs,      \* argument lines read of this message
    command,      \* the lines held by command_name and command_args
    reading,      \* the watch callback is running
    connected,    \* and the watch is installed
    timer,        \* the retry timer is set
    connection,   \* ghost: the number of the connection
    sent,         \* ghost: the messages begun on it
    writing,      \* lines of the last one not yet written
    wire,         \* lines written and not yet read
    open,         \* the daemon has not closed its end
    served,       \* ghost: the messages dispatched on this connection
    dispatched    \* ghost: the lines of the last one

coroutine == <<line, numargs, command>>
link == <<connected, timer, connection>>
daemon == <<sent, writing, open>>
hooksVars == <<coroutine, reading, link, daemon, wire, served, dispatched>>

\* A line has its text and the connection, the message and the place in it that it is of.

HooksInit ==
    /\ line = "start" /\ numargs = 0 /\ command = <<>>
    /\ reading = FALSE
    /\ connected = FALSE /\ timer = TRUE /\ connection = 0
    /\ sent = 0 /\ writing = <<>> /\ wire = <<>> /\ open = FALSE
    /\ served = 0 /\ dispatched = <<>>

----
(* Connecting. *)

\* The coroutine starts over on a new connection.
Reset == line' = "start" /\ command' = <<>>

\* Mutant: what the old channel had buffered is read on the new connection.
CloseChannel_KeepsBuffer == UNCHANGED wire

\* The channel goes, and with it what it had not given out.
CloseChannel == wire' = <<>>

\* try_to_connect: a connection, or a timer to try again.  It changes nothing of
\* numargs, which the coroutine sets at its start.
HooksTryToConnect ==
    /\ CloseChannel
    /\ writing' = <<>>
    /\ \/ /\ connection < MaxConnections
          /\ Reset
          /\ connected' = TRUE /\ timer' = FALSE
          /\ connection' = connection + 1
          /\ sent' = 0 /\ served' = 0 /\ open' = TRUE
          /\ UNCHANGED <<numargs, dispatched>>
       \/ /\ connected' = FALSE /\ timer' = TRUE
          /\ command' = <<>> /\ open' = FALSE
          /\ UNCHANGED <<line, numargs, connection, sent, served, dispatched>>

\* watch_killer: what the coroutine holds is freed, the socket closed with all
\* it still held, and the next connection tried at once.
HooksWatchKiller == reading' = FALSE /\ HooksTryToConnect

\* The timer is gone when try_to_connect returns, unless it set another.
Retry ==
    /\ timer /\ ~reading
    /\ HooksTryToConnect
    /\ UNCHANGED reading

\* athena_dropbox_hooks_force_reconnect removes the watch.
ForceReconnect ==
    /\ connected /\ ~reading
    /\ HooksWatchKiller

----
(* handle_hook_server_input. *)

\* A message begins empty.
Begin == line' = "name" /\ numargs' = 0 /\ command' = <<>>

\* Mutant: the place to resume at is lost.
Wake_StartsOver ==
    /\ connected /\ ~reading
    /\ wire # <<>> \/ ~open
    /\ reading' = TRUE
    /\ line' = "name" /\ numargs' = 0 /\ command' = <<>>
    /\ UNCHANGED <<link, daemon, wire, served, dispatched>>

\* The watch fires: there is a line, or the end of the stream.  The coroutine
\* begins or resumes.
Wake ==
    /\ connected /\ ~reading
    /\ wire # <<>> \/ ~open
    /\ reading' = TRUE
    /\ IF line = "start" THEN Begin ELSE UNCHANGED coroutine
    /\ UNCHANGED <<link, daemon, wire, served, dispatched>>

\* CRREADLINE got a line.
ReadLine ==
    /\ wire # <<>>
    /\ wire' = Tail(wire)

\* Any line is taken for the name of a hook.
ReadName ==
    /\ reading /\ line = "name"
    /\ ReadLine
    /\ command' = Append(command, Head(wire))
    /\ line' = "arg"
    /\ UNCHANGED <<numargs, reading, link, daemon, served, dispatched>>

\* A line with a tab.
ReadArg ==
    /\ reading /\ line = "arg" /\ numargs < MaxArgs
    /\ ReadLine
    /\ Head(wire).text = "arg"
    /\ command' = Append(command, Head(wire))
    /\ numargs' = numargs + 1
    /\ UNCHANGED <<line, reading, link, daemon, served, dispatched>>

\* The message is complete: its hook is called.
CallHook ==
    /\ reading /\ line = "arg" /\ numargs < MaxArgs
    /\ ReadLine
    /\ Head(wire).text = "done"
    /\ dispatched' = Append(command, Head(wire))
    /\ served' = served + 1
    /\ Begin
    /\ UNCHANGED <<reading, link, daemon>>

\* Nothing more to read for now.
Yield ==
    /\ reading
    /\ line = "arg" => numargs < MaxArgs
    /\ wire = <<>> /\ open
    /\ reading' = FALSE
    /\ UNCHANGED <<coroutine, link, daemon, wire, served, dispatched>>

\* Too many arguments, a line that is none, or the end of the stream: the
\* source is removed.
Halt ==
    /\ reading
    /\ \/ line = "arg" /\ numargs >= MaxArgs
       \/ line = "arg" /\ wire # <<>> /\ Head(wire).text \notin {"arg", "done"}
       \/ wire = <<>> /\ ~open
    /\ HooksWatchKiller

----
(* The daemon. *)

hooksUnchanged == UNCHANGED <<coroutine, reading, link, served, dispatched>>

DaemonBegin ==
    /\ open /\ writing = <<>>
    /\ sent < MaxSent
    /\ sent' = sent + 1
    /\ \E message \in Messages :
         writing' = [i \in DOMAIN message |->
                       [text |-> message[i], connection |-> connection,
                        message |-> sent + 1, place |-> i]]
    /\ UNCHANGED <<wire, open>>
    /\ hooksUnchanged

DaemonWrite ==
    /\ open /\ writing # <<>>
    /\ wire' = Append(wire, Head(writing))
    /\ writing' = Tail(writing)
    /\ UNCHANGED <<sent, open>>
    /\ hooksUnchanged

\* The daemon exits; the line it was writing may arrive cut short, as one
\* without a tab, or as if it were whole.
DaemonClose ==
    /\ open
    /\ open' = FALSE
    /\ writing' = <<>>
    /\ \/ UNCHANGED wire
       \/ /\ writing # <<>>
          /\ \E text \in {Head(writing).text, "junk"} :
               wire' = Append(wire, [Head(writing) EXCEPT !.text = text])
    /\ UNCHANGED sent
    /\ hooksUnchanged

Input == Wake \/ ReadName \/ ReadArg \/ CallHook \/ Yield \/ Halt

HooksNext ==
    \/ Input \/ Retry \/ ForceReconnect
    \/ DaemonBegin \/ DaemonWrite \/ DaemonClose

HooksSpec == HooksInit /\ [][HooksNext]_hooksVars

\* The main loop runs the watch callback to its end.
HooksFairSpec == HooksSpec /\ WF_hooksVars(Input)

----
\* One message of one connection from its first line to its last.
Whole(lines) ==
    /\ lines # <<>>
    /\ \A i \in DOMAIN lines :
         lines[i] = [lines[1] EXCEPT !.place = i, !.text = lines[i].text]

\* A hook is only called with a message of one connection, whole, whatever was cut
\* short on the connections before; and with those of a connection in the order they
\* were sent, none twice and none left out.
DispatchedInOrder ==
    /\ dispatched # <<>> => Whole(dispatched)
    /\ served > 0 =>
         /\ dispatched[1].connection = connection
         /\ dispatched[1].message = served

\* What was sent whole is dispatched, unless the connection is given up: the
\* coroutine never sleeps on a line it already has.
Delivered ==
    \A c \in 1..MaxConnections, k \in 1..MaxSent :
      (connection = c /\ sent = k /\ writing = <<>> /\ open)
        ~> (served >= k \/ connection # c \/ ~connected)
====

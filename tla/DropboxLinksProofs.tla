---- MODULE DropboxLinksProofs ----
(* The proofs about the two links of athena-dropbox to the daemon, for any bounds: the extension
   never loses track of the emblem directories it has put into the icon theme, unless it is told
   of a disconnection in the middle of get_emblem_paths_cb (DropboxClient); and a hook is only
   called with whole messages, in the order they were sent, for any messages of the daemon that
   end with their only "done" (DropboxHooks). *)
EXTENDS DropboxClient, DropboxHooks, SequenceTheorems, TLAPS

----
(* The client of both links. *)
Events == {<<"connect">>, <<"disconnect">>} \cup ({"add", "remove"} \X Paths)
Commands == {"reset", "get_emblem_paths"}

Clients == [ hook_connect_called : BOOLEAN, command_connect_called : BOOLEAN,
             hook_disconnect_called : BOOLEAN, command_disconnect_called : BOOLEAN,
             hooks : BOOLEAN, retry : BOOLEAN, command : BOOLEAN,
             told : {"connect", "disconnect"}, lone : BOOLEAN, raced : BOOLEAN,
             emblem_paths : Paths \cup {None},
             pushing : Seq(Commands), idle : Seq(Events) ]

TypeOK ==
    /\ client \in Clients
    /\ command_queue \in Seq(Commands)
    /\ command_connected \in BOOLEAN
    /\ thread \in {"down", "up", "closing", "closed"}
    /\ table \in Paths \cup {None}
    /\ theme \subseteq Paths

\* A directory is in the search path once the callbacks of a queue have run.
WillBe(queue, themed, p) ==
    \/ \E i \in 1..Len(queue) :
         /\ queue[i] = <<"add", p>>
         /\ \A j \in 1..Len(queue) : j > i => queue[j] # <<"remove", p>>
    \/ p \in themed /\ \A j \in 1..Len(queue) : queue[j] # <<"remove", p>>

\* What is in the search path, or will be, is the table the extension remembers.
Tracked(c, themed, installing) ==
    ~c.raced =>
      \A p \in Paths :
        (WillBe(c.idle, themed, p) \/ installing = p) <=> c.emblem_paths = p

IInv == TypeOK /\ Tracked(client, theme, table)

----
(* Queues of callbacks. *)

LEMMA EventsDiffer ==
    ASSUME NEW p, NEW q
    PROVE  /\ <<"connect">> # <<"add", p>> /\ <<"connect">> # <<"remove", p>>
           /\ <<"disconnect">> # <<"add", p>> /\ <<"disconnect">> # <<"remove", p>>
           /\ <<"add", p>> # <<"remove", q>>
           /\ <<"add", p>> = <<"add", q>> <=> p = q
           /\ <<"remove", p>> = <<"remove", q>> <=> p = q
<1>1. Len(<<"connect">>) = 1 /\ Len(<<"disconnect">>) = 1
      /\ Len(<<"add", p>>) = 2 /\ Len(<<"remove", p>>) = 2
 OBVIOUS
<1>. QED BY <1>1

LEMMA Longer ==
    ASSUME NEW queue, NEW after, NEW n \in Nat, NEW e, NEW themed, NEW p,
           Len(queue) = n, Len(after) = n + 1, after[n + 1] = e,
           \A i \in 1..n : after[i] = queue[i]
    PROVE  /\ e = <<"add", p>> => WillBe(after, themed, p)
           /\ e = <<"remove", p>> => ~WillBe(after, themed, p)
           /\ e # <<"add", p>> /\ e # <<"remove", p>> =>
                (WillBe(after, themed, p) <=> WillBe(queue, themed, p))
<1>1. /\ \A i \in 1..Len(after) : i \in 1..n \/ i = n + 1
      /\ \A i \in 1..n : i \in 1..Len(after) /\ n + 1 > i /\ ~(i > n + 1)
      /\ n + 1 \in 1..Len(after) /\ 1..n = 1..Len(queue)
 OBVIOUS
<1>2. e = <<"add", p>> => WillBe(after, themed, p) BY <1>1 DEF WillBe
<1>3. e = <<"remove", p>> => ~WillBe(after, themed, p) BY <1>1, EventsDiffer DEF WillBe
<1>4. e # <<"add", p>> /\ e # <<"remove", p>> =>
        (WillBe(after, themed, p) <=> WillBe(queue, themed, p))
 BY <1>1 DEF WillBe
<1>. QED BY <1>2, <1>3, <1>4

\* What a callback put at the end of a queue changes.
LEMMA Appended ==
    ASSUME NEW queue \in Seq(Events), NEW e \in Events, NEW themed, NEW p \in Paths
    PROVE  /\ Append(queue, e) \in Seq(Events)
           /\ e = <<"add", p>> => WillBe(Append(queue, e), themed, p)
           /\ e = <<"remove", p>> => ~WillBe(Append(queue, e), themed, p)
           /\ e # <<"add", p>> /\ e # <<"remove", p>> =>
                (WillBe(Append(queue, e), themed, p) <=> WillBe(queue, themed, p))
<1>. DEFINE after == Append(queue, e)
<1>1. /\ after \in Seq(Events) /\ Len(after) = Len(queue) + 1 /\ Len(queue) \in Nat
      /\ \A i \in 1..Len(queue) : after[i] = queue[i]
      /\ after[Len(queue) + 1] = e
 BY AppendProperties
<1>. HIDE DEF after
<1>2. /\ e = <<"add", p>> => WillBe(after, themed, p)
      /\ e = <<"remove", p>> => ~WillBe(after, themed, p)
      /\ e # <<"add", p>> /\ e # <<"remove", p>> =>
           (WillBe(after, themed, p) <=> WillBe(queue, themed, p))
 BY <1>1, Longer
<1>. QED BY <1>1, <1>2 DEF after

\* What the theme is after the first callback of a queue.
Ran(event, themed) ==
    CASE event[1] = "add" -> themed \cup {event[2]}
      [] event[1] = "remove" -> themed \ {event[2]}
      [] OTHER -> themed

LEMMA Shorter ==
    ASSUME NEW queue, NEW rest, NEW n \in Nat, NEW themed, NEW p \in Paths,
           Len(queue) = n + 1, Len(rest) = n, queue[1] \in Events,
           \A i \in 1..n : rest[i] = queue[i + 1]
    PROVE  WillBe(rest, Ran(queue[1], themed), p) <=> WillBe(queue, themed, p)
<1>1. /\ \A i \in 1..Len(queue) : i = 1 \/ (i - 1 \in 1..n /\ rest[i - 1] = queue[i])
      /\ \A i \in 1..n : i + 1 \in 1..Len(queue) /\ i + 1 > 1
      /\ 1 \in 1..Len(queue) /\ 1..n = 1..Len(rest)
      /\ \A i, j \in 1..n : j > i <=> j + 1 > i + 1
      /\ \A i, j \in 1..Len(queue) : (j # 1 /\ i # 1) => (j > i <=> j - 1 > i - 1)
 OBVIOUS
<1>2. (\A j \in 1..Len(rest) : rest[j] # <<"remove", p>>) <=>
      (\A j \in 1..Len(queue) : j > 1 => queue[j] # <<"remove", p>>)
 BY <1>1
<1>. DEFINE Added(q, i) ==
               /\ q[i] = <<"add", p>>
               /\ \A j \in 1..Len(q) : j > i => q[j] # <<"remove", p>>
<1>3. (\E i \in 1..Len(rest) : Added(rest, i)) <=> \E i \in 1..Len(queue) : i # 1 /\ Added(queue, i)
 <2>1. ASSUME NEW i \in 1..Len(rest), Added(rest, i)
       PROVE  Added(queue, i + 1) /\ i + 1 \in 1..Len(queue) /\ i + 1 # 1
  <3>1. ASSUME NEW j \in 1..Len(queue), j > i + 1
        PROVE  queue[j] # <<"remove", p>>
   <4>1. j - 1 \in 1..Len(rest) /\ j - 1 > i /\ rest[j - 1] = queue[j] BY <1>1, <2>1, <3>1
   <4>. QED BY <4>1, <2>1
  <3>. QED BY <1>1, <2>1, <3>1
 <2>2. ASSUME NEW i \in 1..Len(queue), i # 1, Added(queue, i)
       PROVE  Added(rest, i - 1) /\ i - 1 \in 1..Len(rest)
  <3>1. ASSUME NEW j \in 1..Len(rest), j > i - 1
        PROVE  rest[j] # <<"remove", p>>
   <4>1. j + 1 \in 1..Len(queue) /\ j + 1 > i /\ rest[j] = queue[j + 1] BY <1>1, <2>2, <3>1
   <4>. QED BY <4>1, <2>2
  <3>. QED BY <1>1, <2>2, <3>1
 <2>. HIDE DEF Added
 <2>. QED BY <2>1, <2>2
<1>4. p \in Ran(queue[1], themed) <=>
        (queue[1] = <<"add", p>> \/ (p \in themed /\ queue[1] # <<"remove", p>>))
 BY EventsDiffer DEF Ran, Events
<1>5. queue[1] = <<"add", p>> => queue[1] # <<"remove", p>> BY EventsDiffer
<1>. QED BY <1>1, <1>2, <1>3, <1>4, <1>5 DEF WillBe

LEMMA FirstRuns ==
    ASSUME NEW queue \in Seq(Events), queue # <<>>, NEW themed, NEW p \in Paths
    PROVE  /\ Tail(queue) \in Seq(Events) /\ Head(queue) \in Events
           /\ WillBe(Tail(queue), Ran(Head(queue), themed), p) <=> WillBe(queue, themed, p)
<1>. DEFINE rest == Tail(queue)
<1>1. /\ rest \in Seq(Events) /\ Len(rest) = Len(queue) - 1
      /\ \A i \in 1..Len(rest) : rest[i] = queue[i + 1]
      /\ Head(queue) = queue[1] /\ queue[1] \in Events
      /\ Len(queue) \in Nat /\ Len(queue) > 0
 BY HeadTailProperties
<1>. HIDE DEF rest
<1>2. Len(queue) - 1 \in Nat /\ Len(queue) = (Len(queue) - 1) + 1 BY <1>1
<1>3. WillBe(rest, Ran(queue[1], themed), p) <=> WillBe(queue, themed, p) BY <1>1, <1>2, Shorter
<1>. QED BY <1>1, <1>3 DEF rest

----
(* The handlers: each leaves the emblem directories alone, or does to them what on_disconnect
   does. *)

Keeps(c, d) ==
    /\ d.idle = c.idle
    /\ d.emblem_paths = c.emblem_paths
    /\ d.raced = c.raced

Disconnects(c, d) ==
    /\ d.idle = OnDisconnect(c).idle
    /\ d.emblem_paths = None
    /\ d.raced = OnDisconnect(c).raced

LEMMA PushesTyped ==
    ASSUME NEW s \in Seq(Commands), NEW e \in Commands
    PROVE  Append(s, e) \in Seq(Commands)
BY AppendProperties

LEMMA HookOnConnectKeeps ==
    ASSUME NEW c \in Clients
    PROVE  HookOnConnect(c) \in Clients /\ Keeps(c, HookOnConnect(c))
BY PushesTyped DEF HookOnConnect, ConnectFlags, OnConnect, Clients, Commands, Keeps

LEMMA CommandOnConnectKeeps ==
    ASSUME NEW c \in Clients
    PROVE  CommandOnConnect(c) \in Clients /\ Keeps(c, CommandOnConnect(c))
BY PushesTyped DEF CommandOnConnect, ConnectFlags, OnConnect, Clients, Commands, Keeps

LEMMA DisconnectFlagsDisconnects ==
    ASSUME NEW c \in Clients
    PROVE  DisconnectFlags(c) \in Clients /\ Disconnects(c, DisconnectFlags(c))
<1>1. c.emblem_paths # None => Append(c.idle, <<"remove", c.emblem_paths>>) \in Seq(Events)
 BY AppendProperties DEF Clients, Events
<1>. QED BY <1>1 DEF DisconnectFlags, OnDisconnect, Clients, Disconnects

LEMMA TryToConnectKeeps ==
    ASSUME NEW c \in Clients, NEW reconnected \in BOOLEAN
    PROVE  TryToConnect(c, reconnected) \in Clients /\ Keeps(c, TryToConnect(c, reconnected))
<1>. DEFINE d == [c EXCEPT !.hooks = TRUE, !.retry = FALSE]
            e == [c EXCEPT !.retry = TRUE]
<1>1. /\ d \in Clients /\ Keeps(c, d)
      /\ e \in Clients /\ Keeps(c, e)
 BY DEF Clients, Keeps
<1>. HIDE DEF d
<1>2. HookOnConnect(d) \in Clients /\ Keeps(c, HookOnConnect(d))
 BY <1>1, HookOnConnectKeeps DEF Keeps
<1>. QED BY <1>1, <1>2 DEF TryToConnect, d

LEMMA WatchKillerActs ==
    ASSUME NEW c \in Clients, NEW reconnected \in BOOLEAN
    PROVE  /\ WatchKiller(c, reconnected) \in Clients
           /\ \/ Keeps(c, WatchKiller(c, reconnected))
              \/ Disconnects(c, WatchKiller(c, reconnected))
<1>. DEFINE d == [[c EXCEPT !.hooks = FALSE] EXCEPT !.hook_disconnect_called = TRUE]
            e == [d EXCEPT !.pushing = Append(@, "reset")]
            f == HookOnDisconnect([c EXCEPT !.hooks = FALSE])
<1>1. d \in Clients /\ Keeps(c, d) /\ e \in Clients /\ Keeps(c, e)
 BY PushesTyped DEF Clients, Keeps, Commands
<1>2. f \in {DisconnectFlags(d), d, e} BY DEF HookOnDisconnect
<1>. HIDE DEF d, e, f
<1>3. Disconnects(d, DisconnectFlags(d)) => Disconnects(c, DisconnectFlags(d))
 BY <1>1 DEF Keeps, Disconnects, OnDisconnect, Clients
<1>4. f \in Clients /\ (Keeps(c, f) \/ Disconnects(c, f))
 BY <1>1, <1>2, <1>3, DisconnectFlagsDisconnects
<1>5. TryToConnect(f, reconnected) \in Clients /\ Keeps(f, TryToConnect(f, reconnected))
 BY <1>4, TryToConnectKeeps
<1>6. WatchKiller(c, reconnected) = TryToConnect(f, reconnected) BY DEF WatchKiller, f
<1>. QED BY <1>4, <1>5, <1>6 DEF Keeps, Disconnects

LEMMA CommandOnDisconnectActs ==
    ASSUME NEW c \in Clients, NEW reconnected \in BOOLEAN
    PROVE  /\ CommandOnDisconnect(c, reconnected) \in Clients
           /\ \/ Keeps(c, CommandOnDisconnect(c, reconnected))
              \/ Disconnects(c, CommandOnDisconnect(c, reconnected))
<1>. DEFINE d == [c EXCEPT !.command_disconnect_called = TRUE, !.command = FALSE]
            e == [d EXCEPT !.lone = TRUE]
<1>1. d \in Clients /\ Keeps(c, d) /\ e \in Clients /\ Keeps(c, e) BY DEF Clients, Keeps
<1>2. CommandOnDisconnect(c, reconnected) \in
        {DisconnectFlags(d), WatchKiller(d, reconnected), e}
 BY DEF CommandOnDisconnect, HooksForceReconnect
<1>. HIDE DEF d, e
<1>3. \A f : /\ Disconnects(d, f) => Disconnects(c, f)
             /\ Keeps(d, f) => Keeps(c, f)
 BY <1>1 DEF Keeps, Disconnects, OnDisconnect, Clients
<1>. QED BY <1>1, <1>2, <1>3, DisconnectFlagsDisconnects, WatchKillerActs

----
(* The invariant. *)

\* Nothing a callback does to the emblem directories loses track of them.
LEMMA ActsTracked ==
    ASSUME TypeOK, NEW b \in Clients, NEW c \in Clients, NEW themed,
           Tracked(b, themed, table),
           Keeps(b, c) \/ Disconnects(b, c)
    PROVE  Tracked(c, themed, table)
<1>1. CASE Keeps(b, c) BY <1>1 DEF Keeps, Tracked
<1>2. CASE Disconnects(b, c) /\ ~c.raced
 <2>1. table = None /\ ~b.raced /\ c.emblem_paths = None
       /\ c.idle = IF b.emblem_paths = None THEN b.idle
                   ELSE Append(b.idle, <<"remove", b.emblem_paths>>)
  BY <1>2 DEF Disconnects, OnDisconnect, TypeOK, Clients
 <2>2. ASSUME NEW p \in Paths
       PROVE  ~WillBe(c.idle, themed, p)
  <3>1. WillBe(b.idle, themed, p) <=> b.emblem_paths = p BY <2>1, NoneAssumption DEF Tracked
  <3>2. CASE b.emblem_paths = None BY <2>1, <3>1, <3>2, NoneAssumption
  <3>3. CASE b.emblem_paths \in Paths
   <4>1. <<"remove", b.emblem_paths>> \in Events /\ b.idle \in Seq(Events)
    BY <3>3 DEF Events, Clients
   <4>2. /\ b.emblem_paths = p => ~WillBe(c.idle, themed, p)
         /\ b.emblem_paths # p =>
              (WillBe(c.idle, themed, p) <=> WillBe(b.idle, themed, p))
    BY <2>1, <3>3, <4>1, Appended, EventsDiffer, NoneAssumption
   <4>. QED BY <3>1, <4>2
  <3>. QED BY <3>2, <3>3 DEF Clients
 <2>. QED BY <1>2, <2>1, <2>2, NoneAssumption DEF Tracked
<1>3. CASE c.raced BY <1>3 DEF Tracked
<1>. QED BY <1>1, <1>2, <1>3

\* News of the link puts nothing in the search path.
LEMMA NewsTracked ==
    ASSUME IInv, NEW e \in {<<"connect">>, <<"disconnect">>}, IdleAdd(<<e>>)
    PROVE  client' \in Clients /\ Tracked(client', theme, table)
<1>1. e \in Events /\ client.idle \in Seq(Events) /\ client.idle \o <<e>> = Append(client.idle, e)
 BY AppendIsConcat DEF Events, IInv, TypeOK, Clients
<1>2. client' \in Clients /\ client'.idle = Append(client.idle, e)
      /\ client'.raced = client.raced /\ client'.emblem_paths = client.emblem_paths
 <2>1. client' = [client EXCEPT !.idle = Append(client.idle, e)] BY <1>1 DEF IdleAdd
 <2>2. Append(client.idle, e) \in Seq(Events) BY <1>1, AppendProperties
 <2>. QED BY <2>1, <2>2 DEF IInv, TypeOK, Clients
<1>3. \A p \in Paths : WillBe(client'.idle, theme, p) <=> WillBe(client.idle, theme, p)
 BY <1>1, <1>2, Appended, EventsDiffer
<1>. QED BY <1>2, <1>3 DEF IInv, Tracked

\* The old table is to be removed and the new one is being installed.
LEMMA InstallTracked ==
    ASSUME IInv, table = None, NEW paths \in Paths, InstallTable(paths)
    PROVE  client' \in Clients /\ Tracked(client', theme, paths)
<1>1. client'.idle = (IF client.emblem_paths = None THEN client.idle
                     ELSE Append(client.idle, <<"remove", client.emblem_paths>>))
      /\ client'.raced = client.raced /\ client'.emblem_paths = paths
      /\ client.emblem_paths \in Paths \cup {None} /\ client.idle \in Seq(Events)
 BY DEF InstallTable, IInv, TypeOK, Clients
<1>2. client.emblem_paths # None => <<"remove", client.emblem_paths>> \in Events BY <1>1 DEF Events
<1>3. client' \in Clients
 BY <1>1, <1>2, Appended, AppendProperties DEF InstallTable, IInv, TypeOK, Clients
<1>4. ASSUME NEW p \in Paths, ~client.raced
      PROVE  ~WillBe(client'.idle, theme, p)
 <2>1. WillBe(client.idle, theme, p) <=> client.emblem_paths = p
  BY <1>4, NoneAssumption DEF IInv, Tracked
 <2>2. CASE client.emblem_paths = None BY <1>1, <2>1, <2>2, NoneAssumption
 <2>3. CASE client.emblem_paths \in Paths
  <3>1. /\ client.emblem_paths = p => ~WillBe(client'.idle, theme, p)
        /\ client.emblem_paths # p =>
             (WillBe(client'.idle, theme, p) <=> WillBe(client.idle, theme, p))
   BY <1>1, <1>2, <2>3, Appended, EventsDiffer, NoneAssumption
  <3>. QED BY <2>1, <3>1
 <2>. QED BY <1>1, <2>2, <2>3
<1>. QED BY <1>1, <1>3, <1>4 DEF Tracked

\* The table that was being installed is to be added.
LEMMA AddTracked ==
    ASSUME IInv, AddTable
    PROVE  client' \in Clients /\ Tracked(client', theme, None)
<1>1. table \in Paths /\ client.idle \in Seq(Events) /\ <<"add", table>> \in Events
 BY DEF AddTable, IInv, TypeOK, Clients, Events
<1>2. client.idle \o << <<"add", table>> >> = Append(client.idle, <<"add", table>>)
 BY <1>1, AppendIsConcat
<1>3. client' \in Clients /\ client'.idle = Append(client.idle, <<"add", table>>)
      /\ client'.raced = client.raced /\ client'.emblem_paths = client.emblem_paths
 <2>1. client' = [client EXCEPT !.idle = Append(client.idle, <<"add", table>>)]
  BY <1>2 DEF AddTable, IdleAdd
 <2>2. Append(client.idle, <<"add", table>>) \in Seq(Events) BY <1>1, AppendProperties
 <2>. QED BY <2>1, <2>2 DEF IInv, TypeOK, Clients
<1>4. \A p \in Paths : WillBe(client'.idle, theme, p) <=> WillBe(client.idle, theme, p) \/ table = p
 BY <1>1, <1>3, Appended, EventsDiffer
<1>. QED BY <1>3, <1>4, NoneAssumption DEF IInv, Tracked

\* A callback of the main loop has run.
LEMMA DispatchTracked ==
    ASSUME IInv, Dispatch
    PROVE  client' \in Clients /\ theme' \subseteq Paths /\ Tracked(client', theme', table)
<1>. DEFINE event == Head(client.idle)
            c == [client EXCEPT !.idle = Tail(@)]
<1>1. /\ client \in Clients /\ client.idle \in Seq(Events) /\ client.idle # <<>>
      /\ event \in Events /\ Tail(client.idle) \in Seq(Events)
 BY FirstRuns, HeadTailProperties DEF Dispatch, IInv, TypeOK, Clients
<1>2. c \in Clients /\ c.raced = client.raced /\ c.emblem_paths = client.emblem_paths
      /\ c.idle = Tail(client.idle)
 BY <1>1 DEF Clients
<1>3. theme' = Ran(event, theme) /\ theme' \subseteq Paths
 <2>1. theme' = Ran(event, theme) BY DEF Dispatch, Ran
 <2>2. Ran(event, theme) \subseteq Paths BY <1>1 DEF Ran, Events, IInv, TypeOK
 <2>. QED BY <2>1, <2>2
<1>4. Tracked(c, theme', table)
 <2>1. \A p \in Paths : WillBe(c.idle, theme', p) <=> WillBe(client.idle, theme, p)
  BY <1>1, <1>2, <1>3, FirstRuns
 <2>. QED BY <1>2, <2>1 DEF IInv, Tracked
<1>5. client' = c \/ client' = CommandOnConnect(c)
      \/ \E reconnected \in BOOLEAN : client' = CommandOnDisconnect(c, reconnected)
 BY DEF Dispatch
<1>. HIDE DEF c, event
<1>6. client' \in Clients /\ (Keeps(c, client') \/ Disconnects(c, client'))
 BY <1>2, <1>5, CommandOnConnectKeeps, CommandOnDisconnectActs DEF Keeps
<1>. QED BY <1>2, <1>3, <1>4, <1>6, ActsTracked DEF IInv

LEMMA InitIInv == Init => IInv
<1>. SUFFICES ASSUME Init PROVE IInv OBVIOUS
<1>. DEFINE c == [ hook_connect_called |-> FALSE, command_connect_called |-> FALSE,
             hook_disconnect_called |-> FALSE, command_disconnect_called |-> FALSE,
             hooks |-> FALSE, retry |-> FALSE, command |-> FALSE,
             told |-> "disconnect", lone |-> FALSE,
             raced |-> FALSE, emblem_paths |-> None,
             pushing |-> <<>>, idle |-> <<>> ]
<1>1. c \in Clients /\ c.idle = <<>> /\ c.emblem_paths = None BY DEF Clients
<1>2. PICK reconnected \in BOOLEAN : client = TryToConnect(c, reconnected) BY DEF Init
<1>. HIDE DEF c
<1>3. client \in Clients /\ client.idle = <<>> /\ client.emblem_paths = None
 BY <1>1, <1>2, TryToConnectKeeps DEF Keeps
<1>4. \A p \in Paths : ~WillBe(<<>>, {}, p) BY DEF WillBe
<1>5. TypeOK
 <2>1. /\ command_queue = <<>> /\ command_connected = FALSE /\ thread = "down"
       /\ table = None /\ theme = {}
  BY DEF Init
 <2>2. command_queue \in Seq(Commands) /\ theme \subseteq Paths BY <2>1
 <2>3. command_connected \in BOOLEAN /\ thread \in {"down", "up", "closing", "closed"} BY <2>1
 <2>. QED BY <1>3, <2>1, <2>2, <2>3 DEF TypeOK
<1>6. Tracked(client, theme, table) BY <1>3, <1>4, NoneAssumption DEF Init, Tracked
<1>. QED BY <1>5, <1>6 DEF IInv

LEMMA TakenTyped ==
    ASSUME TypeOK, TakeCommand
    PROVE  command_queue' \in Seq(Commands)
<1>1. command_queue \in Seq(Commands) /\ command_queue # <<>> /\ command_queue' = Tail(command_queue)
 BY DEF TypeOK, TakeCommand
<1>2. Tail(command_queue) \in Seq(Commands) BY <1>1, HeadTailProperties
<1>. QED BY <1>1, <1>2

LEMMA NextIInv == IInv /\ [Next]_vars => IInv'
<1>. SUFFICES ASSUME IInv, [Next]_vars PROVE IInv' OBVIOUS
<1>0. client \in Clients /\ TypeOK BY DEF IInv, TypeOK
<1>1. CASE Push
 <2>1. Head(client.pushing) \in Commands /\ Tail(client.pushing) \in Seq(Commands)
  BY <1>0, <1>1, HeadTailProperties DEF Push, AtLoop, Clients
 <2>2. client' \in Clients /\ Keeps(client, client') BY <1>0, <1>1, <2>1 DEF Push, Clients, Keeps
 <2>3. command_queue' \in Seq(Commands) BY <1>0, <1>1, <2>1, PushesTyped DEF Push, TypeOK
 <2>4. Tracked(client', theme, table) BY <1>0, <2>2, ActsTracked DEF IInv
 <2>. QED BY <1>0, <1>1, <2>2, <2>3, <2>4 DEF Push, mainUnchanged, IInv, TypeOK
<1>2. CASE HookLost
 <2>. DEFINE c == [client EXCEPT !.lone = @ \/ ~Settled]
 <2>1. c \in Clients /\ Keeps(client, c) BY <1>0 DEF Clients, Keeps
 <2>2. \E reconnected \in BOOLEAN : client' = WatchKiller(c, reconnected) BY <1>2 DEF HookLost
 <2>. HIDE DEF c
 <2>3. client' \in Clients /\ (Keeps(c, client') \/ Disconnects(c, client'))
  BY <2>1, <2>2, WatchKillerActs
 <2>4. Tracked(c, theme, table) BY <1>0, <2>1, ActsTracked DEF IInv
 <2>5. Tracked(client', theme, table) BY <1>0, <2>1, <2>3, <2>4, ActsTracked
 <2>. QED BY <1>0, <1>2, <2>3, <2>5 DEF HookLost, mainUnchanged, IInv, TypeOK
<1>3. CASE HookRetry
 <2>1. client' \in Clients /\ Keeps(client, client') BY <1>0, <1>3, TryToConnectKeeps DEF HookRetry
 <2>2. Tracked(client', theme, table) BY <1>0, <2>1, ActsTracked DEF IInv
 <2>. QED BY <1>0, <1>3, <2>1, <2>2 DEF HookRetry, mainUnchanged, IInv, TypeOK
<1>4. CASE Dispatch
 <2>1. UNCHANGED <<command_queue, command_connected, thread, table>>
  BY <1>4 DEF Dispatch, mainUnchanged
 <2>. QED BY <1>0, <1>4, <2>1, DispatchTracked DEF IInv, TypeOK
<1>5. CASE LinkUp
 <2>1. client' \in Clients /\ Tracked(client', theme, table) BY <1>5, NewsTracked DEF LinkUp
 <2>. QED BY <1>0, <1>5, <2>1 DEF LinkUp, IInv, TypeOK
<1>6. CASE LinkDown
 <2>1. client' \in Clients /\ Tracked(client', theme, table) BY <1>6, NewsTracked DEF LinkDown
 <2>. QED BY <1>0, <1>6, <2>1 DEF LinkDown, IInv, TypeOK
<1>7. CASE AddTable BY <1>0, <1>7, AddTracked DEF AddTable, IInv, TypeOK
<1>8. CASE ServeEmblemPaths
 <2>1. PICK paths \in Paths : InstallTable(paths) BY <1>8 DEF ServeEmblemPaths
 <2>2. table = None /\ table' = paths BY <1>8, <2>1 DEF ServeEmblemPaths, TakeCommand, InstallTable
 <2>. QED
  BY <1>0, <1>8, <2>1, <2>2, InstallTracked, TakenTyped DEF ServeEmblemPaths, TakeCommand, IInv, TypeOK
<1>9. CASE ServeFails
 <2>1. "default" \in Paths /\ InstallTable("default") /\ table = None /\ table' = "default"
  BY <1>9 DEF ServeFails, TakeCommand, InstallTable, Paths
 <2>. QED BY <1>0, <1>9, <2>1, InstallTracked, TakenTyped DEF ServeFails, TakeCommand, IInv, TypeOK
<1>10. CASE Drain
 <2>1. CASE Head(command_queue) = "reset"
  BY <1>0, <1>10, <2>1, TakenTyped DEF Drain, TakeCommand, IInv, TypeOK
 <2>2. CASE Head(command_queue) # "reset"
  <3>1. "default" \in Paths /\ InstallTable("default") /\ table = None /\ table' = "default"
   BY <1>10, <2>2 DEF Drain, TakeCommand, InstallTable, Paths
  <3>. QED BY <1>0, <1>10, <3>1, InstallTracked, TakenTyped DEF Drain, TakeCommand, IInv, TypeOK
 <2>. QED BY <2>1, <2>2
<1>11. CASE ServeReset BY <1>0, <1>11, TakenTyped DEF ServeReset, TakeCommand, IInv, TypeOK
<1>12. CASE LinkLost BY <1>0, <1>12 DEF LinkLost, IInv, TypeOK
<1>13. CASE Drained BY <1>0, <1>13 DEF Drained, IInv, TypeOK
<1>14. CASE UNCHANGED vars BY <1>14 DEF vars, IInv, TypeOK
<1>. QED
 BY <1>1, <1>2, <1>3, <1>4, <1>5, <1>6, <1>7, <1>8, <1>9, <1>10, <1>11, <1>12, <1>13, <1>14
 DEF Next, Main, MainRuns, Thread, ThreadRuns

----
\* The variables of the client keep their types, for any bounds.
THEOREM TypeCorrect == Spec => []TypeOK
<1>1. IInv => TypeOK BY DEF IInv
<1>. QED BY InitIInv, NextIInv, <1>1, PTL DEF Spec

\* When nothing is on its way the icon theme has the emblem directories that
\* the extension will remove when it is disconnected, and no others, unless a
\* disconnection came in the middle of get_emblem_paths_cb.
THEOREM EmblemDirectoriesTracked == Spec => []EmblemsTrackedUnlessRaced
<1>1. IInv => EmblemsTrackedUnlessRaced
 <2>. SUFFICES ASSUME IInv, ~client.raced, Quiet PROVE theme = {client.emblem_paths} \ {None}
  BY DEF EmblemsTrackedUnlessRaced, EmblemsTracked
 <2>1. \A p \in Paths : WillBe(<<>>, theme, p) <=> p \in theme BY DEF WillBe
 <2>2. \A p \in Paths : p \in theme <=> client.emblem_paths = p
  BY <2>1, NoneAssumption DEF Quiet, IInv, Tracked
 <2>3. theme \subseteq Paths /\ client.emblem_paths \in Paths \cup {None}
  BY DEF IInv, TypeOK, Clients
 <2>. QED BY <2>2, <2>3, NoneAssumption
<1>. QED BY InitIInv, NextIInv, <1>1, PTL DEF Spec

----
(* The hook link. *)

\* A message has a name before the "done" that ends it.
MessagesEnd ==
    \A m \in Messages :
      Len(m) > 1 /\ \A i \in DOMAIN m : m[i] = "done" <=> i = Len(m)

WireLines == [text : Texts, connection : Nat, message : Nat, place : Nat]

HooksTypeOK ==
    /\ line \in {"start", "name", "arg"}
    /\ command \in Seq(WireLines)
    /\ reading \in BOOLEAN /\ connected \in BOOLEAN /\ open \in BOOLEAN
    /\ connection \in Nat /\ sent \in Nat /\ served \in Nat
    /\ writing \in Seq(WireLines)
    /\ wire \in Seq(WireLines)
    /\ dispatched \in Seq(WireLines)

\* The coroutine holds something exactly when it resumes among the arguments, and the
\* daemon's end is open or has left something to read only while the watch is installed.
Resumes ==
    /\ reading => connected
    /\ connected => (line = "arg" <=> command # <<>>)
    /\ reading => line # "start"
    /\ ~connected => command = <<>> /\ wire = <<>> /\ writing = <<>> /\ ~open

\* What the coroutine holds is the beginning of the next message.
Held ==
    \A i \in 1..Len(command) :
      /\ command[i].connection = connection
      /\ command[i].message = served + 1
      /\ command[i].place = i
      /\ command[i].text # "done"

\* The line that is to come, and the one that comes after another.
Expected(l) == l.message = served + 1 /\ l.place = Len(command) + 1
Follows(a, b) ==
    IF a.text = "done" THEN b.message = a.message + 1 /\ b.place = 1
    ELSE b.message = a.message /\ b.place = a.place + 1

Ours(l) == l.connection = connection /\ (l.place = 1 => l.text # "done")

OnWire ==
    /\ \A i \in 1..Len(wire) : Ours(wire[i])
    /\ \A i \in 1..(Len(wire) - 1) : Follows(wire[i], wire[i + 1])
    /\ wire # <<>> => Expected(wire[1])

Coming ==
    /\ \A i \in 1..Len(writing) :
         /\ Ours(writing[i])
         /\ writing[i].message = sent
         /\ writing[i].text = "done" <=> i = Len(writing)
    /\ \A i \in 1..(Len(writing) - 1) : Follows(writing[i], writing[i + 1])

\* Where the lines on the wire meet those still to be written.
Seam ==
    open =>
      IF writing # <<>>
      THEN IF wire = <<>> THEN Expected(writing[1]) ELSE Follows(wire[Len(wire)], writing[1])
      ELSE IF wire = <<>> THEN command = <<>> /\ served = sent
           ELSE wire[Len(wire)].text = "done" /\ wire[Len(wire)].message = sent

Shut == ~open => writing = <<>>

Stream == Held /\ OnWire /\ Coming /\ Seam /\ Shut
HooksInv == HooksTypeOK /\ Resumes /\ Stream /\ DispatchedInOrder

----
(* Sequences of lines. *)
LEMMA LineAppended ==
    ASSUME NEW S, NEW s \in Seq(S), NEW l \in S
    PROVE  /\ Append(s, l) \in Seq(S) /\ Append(s, l) # <<>>
           /\ Len(Append(s, l)) = Len(s) + 1 /\ Len(s) \in Nat
           /\ \A i \in 1..Len(s) : Append(s, l)[i] = s[i]
           /\ Append(s, l)[Len(s) + 1] = l
  BY AppendProperties, LenProperties

LEMMA NonEmpty ==
    ASSUME NEW S, NEW s \in Seq(S)
    PROVE  Len(s) \in Nat /\ (s = <<>> <=> Len(s) = 0)
  OBVIOUS

LEMMA Taken ==
    ASSUME NEW S, NEW s \in Seq(S), s # <<>>
    PROVE  /\ Head(s) \in S /\ Head(s) = s[1]
           /\ Tail(s) \in Seq(S)
           /\ Len(s) \in Nat \ {0} /\ Len(Tail(s)) = Len(s) - 1
           /\ \A i \in 1..(Len(s) - 1) : Tail(s)[i] = s[i + 1]
           /\ Tail(s) = <<>> <=> Len(s) = 1
<1>1. Len(s) \in Nat \ {0} /\ Head(s) = s[1] BY NonEmpty
<1>2. Len(Tail(s)) = Len(s) - 1 /\ Tail(s) \in Seq(S) /\ Head(s) \in S BY HeadTailProperties
<1>3. \A i \in 1..(Len(s) - 1) : Tail(s)[i] = s[i + 1] BY <1>2, HeadTailProperties
<1>4. Tail(s) = <<>> <=> Len(Tail(s)) = 0 BY <1>2, NonEmpty
<1> QED BY <1>1, <1>2, <1>3, <1>4

LEMMA EmptyLines == <<>> \in Seq(WireLines) /\ Len(<<>>) = 0
  BY EmptySeq

----
(* Connecting. *)
LEMMA IInvInit == HooksInit => HooksInv
<1> SUFFICES ASSUME HooksInit PROVE HooksInv OBVIOUS
<1>1. HooksTypeOK /\ Resumes BY EmptyLines DEF HooksInit, HooksTypeOK, Resumes
<1>2. Stream BY EmptyLines DEF HooksInit, Stream, Held, OnWire, Coming, Seam, Shut
<1>3. DispatchedInOrder BY DEF HooksInit, DispatchedInOrder
<1> QED BY <1>1, <1>2, <1>3 DEF HooksInv

\* A new connection starts with nothing held and nothing on its way.
LEMMA ConnectKeeps ==
    ASSUME HooksInv, HooksTryToConnect, reading' = FALSE
    PROVE  HooksInv'
<1>1. /\ command' = <<>> /\ wire' = <<>> /\ writing' = <<>>
      /\ dispatched' = dispatched
      /\ \/ /\ connected' = TRUE /\ line' = "start" /\ connection' = connection + 1
            /\ sent' = 0 /\ served' = 0 /\ open' = TRUE
         \/ /\ connected' = FALSE /\ open' = FALSE
            /\ UNCHANGED <<line, connection, sent, served>>
 BY DEF HooksTryToConnect, CloseChannel, Reset
<1>2. HooksTypeOK'
 <2>1. command' \in Seq(WireLines) /\ wire' \in Seq(WireLines) /\ writing' \in Seq(WireLines)
  BY <1>1, EmptyLines
 <2>2. /\ line' \in {"start", "name", "arg"} /\ connected' \in BOOLEAN /\ open' \in BOOLEAN
       /\ connection' \in Nat /\ sent' \in Nat /\ served' \in Nat
  <3>1. line \in {"start", "name", "arg"} /\ connection \in Nat /\ sent \in Nat /\ served \in Nat
   BY DEF HooksInv, HooksTypeOK
  <3>2. line' \in {"start", "name", "arg"} /\ connected' \in BOOLEAN /\ open' \in BOOLEAN
   BY <1>1, <3>1, Zenon
  <3>3. connection + 1 \in Nat /\ 0 \in Nat BY <3>1
  <3>4. connection' \in Nat /\ sent' \in Nat /\ served' \in Nat BY <1>1, <3>1, <3>3, Zenon
  <3> QED BY <3>2, <3>4
 <2>3. dispatched' \in Seq(WireLines) BY <1>1 DEF HooksInv, HooksTypeOK
 <2> QED BY <2>1, <2>2, <2>3 DEF HooksTypeOK
<1>3. Resumes' BY <1>1 DEF Resumes
<1>4. Stream' BY <1>1, EmptyLines DEF Stream, Held, OnWire, Coming, Seam, Shut
<1>5. DispatchedInOrder' BY <1>1 DEF HooksInv, HooksTypeOK, DispatchedInOrder
<1> QED BY <1>2, <1>3, <1>4, <1>5 DEF HooksInv

----
(* Reading. *)

\* The first line on the wire is the next of the message, and what follows it is then
\* the first.
LEMMA ReadKeeps ==
    ASSUME HooksInv, ReadLine, UNCHANGED <<writing, open, sent, connection>>,
           \/ /\ Head(wire).text # "done"
              /\ served' = served /\ command' = Append(command, Head(wire))
           \/ /\ Head(wire).text = "done" /\ command # <<>>
              /\ served' = served + 1 /\ command' = <<>>
    PROVE  Stream' /\ wire' \in Seq(WireLines) /\ command' \in Seq(WireLines)
<1> DEFINE l == wire[1]
<1>1. /\ wire \in Seq(WireLines) /\ command \in Seq(WireLines) /\ wire # <<>> /\ wire' = Tail(wire)
      /\ served \in Nat /\ writing \in Seq(WireLines)
 BY DEF HooksInv, HooksTypeOK, ReadLine
<1>2. /\ l \in WireLines /\ Head(wire) = l
      /\ wire' \in Seq(WireLines)
      /\ Len(wire) \in Nat \ {0} /\ Len(wire') = Len(wire) - 1
      /\ \A i \in 1..(Len(wire) - 1) : wire'[i] = wire[i + 1]
      /\ wire' = <<>> <=> Len(wire) = 1
 BY <1>1, Taken
<1>3. Len(command) \in Nat /\ (command = <<>> <=> Len(command) = 0) BY <1>1, NonEmpty
<1>4. Ours(l) /\ Expected(l) BY <1>1, <1>2 DEF HooksInv, Stream, OnWire
<1>5. \/ /\ l.text # "done" /\ served' = served
         /\ command' \in Seq(WireLines) /\ command' # <<>> /\ Len(command') = Len(command) + 1
         /\ \A i \in 1..Len(command) : command'[i] = command[i]
         /\ command'[Len(command) + 1] = l
      \/ /\ l.text = "done" /\ served' = served + 1
         /\ command' \in Seq(WireLines) /\ command' = <<>> /\ Len(command') = 0
 <2>1. CASE l.text # "done"
  <3>1. served' = served /\ command' = Append(command, l) /\ command \in Seq(WireLines) /\ l \in WireLines
   BY <1>1, <1>2, <2>1
  <3> HIDE DEF l
  <3>2. PICK x : x = l /\ x \in WireLines BY <3>1
  <3>3. PICK c : c = command /\ c \in Seq(WireLines) BY <3>1
  <3>4. command' = Append(c, x) BY <3>1, <3>2, <3>3
  <3>5. /\ Append(c, x) \in Seq(WireLines) /\ Append(c, x) # <<>> /\ Len(Append(c, x)) = Len(c) + 1
        /\ \A i \in 1..Len(c) : Append(c, x)[i] = c[i]
        /\ Append(c, x)[Len(c) + 1] = x
   BY <3>2, <3>3, LineAppended
  <3> QED BY <2>1, <3>1, <3>2, <3>3, <3>4, <3>5, Zenon
 <2>2. CASE l.text = "done" BY <1>2, <2>2, EmptyLines
 <2> QED BY <2>1, <2>2
<1>6. Held'
 <2> SUFFICES ASSUME NEW i \in 1..Len(command')
              PROVE  /\ command'[i].connection = connection'
                     /\ command'[i].message = served' + 1
                     /\ command'[i].place = i
                     /\ command'[i].text # "done"
  BY DEF Held
 <2>1. served' = served /\ Len(command') = Len(command) + 1 BY <1>3, <1>5
 <2>2. CASE i \in 1..Len(command) BY <1>5, <2>1, <2>2 DEF HooksInv, Stream, Held
 <2>3. CASE i = Len(command) + 1 BY <1>4, <1>5, <2>1, <2>3 DEF Ours, Expected
 <2> QED BY <1>3, <2>1, <2>2, <2>3
<1>7. ASSUME NEW m, Follows(l, m) PROVE Expected(m)'
 <2>1. l.message = served + 1 /\ l.place = Len(command) + 1 BY <1>4 DEF Expected
 <2>2. CASE l.text = "done"
  <3>1. served' = served + 1 /\ Len(command') = 0 BY <1>5, <2>2
  <3> QED BY <1>7, <2>1, <2>2, <3>1 DEF Follows, Expected
 <2>3. CASE l.text # "done"
  <3>1. served' = served /\ Len(command') = Len(command) + 1 BY <1>5, <2>3
  <3> QED BY <1>7, <2>1, <2>3, <3>1 DEF Follows, Expected
 <2> QED BY <2>2, <2>3
<1>9. OnWire'
 <2>1. \A i \in 1..Len(wire') : i + 1 \in 1..Len(wire) /\ wire'[i] = wire[i + 1] BY <1>2
 <2>2. \A i \in 1..Len(wire') : Ours(wire[i + 1]) BY <2>1 DEF HooksInv, Stream, OnWire
 <2>3. \A i \in 1..Len(wire') : Ours(wire[i])' BY <2>1, <2>2 DEF Ours
 <2>4. \A i \in 1..(Len(wire') - 1) :
         /\ i \in 1..Len(wire') /\ i + 1 \in 1..Len(wire') /\ i + 1 \in 1..(Len(wire) - 1)
  BY <1>2
 <2>5. \A i \in 1..(Len(wire') - 1) : Follows(wire'[i], wire'[i + 1])
  <3> SUFFICES ASSUME NEW i \in 1..(Len(wire') - 1)
               PROVE  Follows(wire'[i], wire'[i + 1])
   OBVIOUS
  <3>1. Follows(wire[i + 1], wire[(i + 1) + 1]) BY <2>4 DEF HooksInv, Stream, OnWire
  <3> QED BY <2>1, <2>4, <3>1
 <2>6. ASSUME wire' # <<>> PROVE Expected(wire[1])'
  <3>1. 1 \in 1..(Len(wire) - 1) /\ wire'[1] = wire[1 + 1] BY <1>2, <2>6
  <3>2. Follows(wire[1], wire[1 + 1]) BY <3>1 DEF HooksInv, Stream, OnWire
  <3> QED BY <1>7, <3>1, <3>2 DEF Expected
 <2> QED BY <2>3, <2>5, <2>6 DEF OnWire
<1>10. Coming' /\ Shut' BY DEF HooksInv, Stream, Coming, Shut, Ours, Follows
<1>11. Seam'
 <2> SUFFICES ASSUME open PROVE Seam' BY DEF Seam
 <2>1. wire' # <<>> => wire'[Len(wire')] = wire[Len(wire)] BY <1>2
 <2>2. CASE writing # <<>> /\ wire' = <<>>
  <3>1. Follows(l, writing[1]) BY <1>1, <1>2, <2>2 DEF HooksInv, Stream, Seam
  <3> QED BY <1>7, <2>2, <3>1 DEF Seam, Expected
 <2>3. CASE writing # <<>> /\ wire' # <<>> BY <1>1, <2>1, <2>3 DEF HooksInv, Stream, Seam, Follows
 <2>4. CASE writing = <<>> /\ wire' # <<>> BY <1>1, <2>1, <2>4 DEF HooksInv, Stream, Seam
 <2>5. CASE writing = <<>> /\ wire' = <<>>
  <3>1. l.text = "done" /\ l.message = sent BY <1>1, <1>2, <2>5 DEF HooksInv, Stream, Seam
  <3> QED BY <1>4, <1>5, <2>5, <3>1 DEF Seam, Expected
 <2> QED BY <2>2, <2>3, <2>4, <2>5
<1> QED BY <1>2, <1>5, <1>6, <1>9, <1>10, <1>11 DEF Stream

\* What was dispatched is what was held and the line that ends it.
LEMMA DispatchWhole ==
    ASSUME HooksInv, CallHook
    PROVE  DispatchedInOrder' /\ dispatched' \in Seq(WireLines)
<1> DEFINE l == Head(wire)
           n == Len(command)
<1>1. /\ command \in Seq(WireLines) /\ wire \in Seq(WireLines) /\ wire # <<>> /\ served \in Nat
      /\ dispatched' = Append(command, l) /\ served' = served + 1 /\ connection' = connection
      /\ command # <<>>
 BY DEF HooksInv, HooksTypeOK, CallHook, ReadLine, link, Resumes
<1>2. l \in WireLines /\ l = wire[1] BY <1>1, Taken
<1>3. /\ dispatched' \in Seq(WireLines) /\ dispatched' # <<>> /\ Len(dispatched') = n + 1
      /\ n \in Nat \ {0}
      /\ \A i \in 1..n : dispatched'[i] = command[i]
      /\ dispatched'[n + 1] = l
 BY <1>1, <1>2, LineAppended, NonEmpty
<1>4. l.message = served + 1 /\ l.place = n + 1 /\ l.connection = connection
 <2>1. Len(wire) \in Nat \ {0} BY <1>1, Taken
 <2> QED BY <1>1, <1>2, <2>1 DEF HooksInv, Stream, OnWire, Expected, Ours
<1>5. \A i \in 1..n : /\ command[i].connection = connection
                      /\ command[i].message = served + 1 /\ command[i].place = i
 BY DEF HooksInv, Stream, Held
<1>6. \A i \in 1..(n + 1) :
        /\ dispatched'[i] \in WireLines
        /\ dispatched'[i].connection = connection /\ dispatched'[i].message = served + 1
        /\ dispatched'[i].place = i
 <2> SUFFICES ASSUME NEW i \in 1..(n + 1)
              PROVE  /\ dispatched'[i] \in WireLines
                     /\ dispatched'[i].connection = connection
                     /\ dispatched'[i].message = served + 1
                     /\ dispatched'[i].place = i
  OBVIOUS
 <2>1. dispatched'[i] \in WireLines BY <1>3, ElementOfSeq
 <2>2. i \in 1..n \/ i = n + 1 BY <1>3
 <2> QED BY <1>3, <1>4, <1>5, <2>1, <2>2
<1>7. DOMAIN dispatched' = 1..(n + 1) BY <1>3, LenProperties
<1>8. \A i \in DOMAIN dispatched' :
        dispatched'[i] = [dispatched'[1] EXCEPT !.place = i, !.text = dispatched'[i].text]
 <2> SUFFICES ASSUME NEW i \in 1..(n + 1)
              PROVE  dispatched'[i] = [dispatched'[1] EXCEPT !.place = i, !.text = dispatched'[i].text]
  BY <1>7
 <2> DEFINE a == dispatched'[1]
            b == dispatched'[i]
 <2>1. 1 \in 1..(n + 1) BY <1>3
 <2>2. /\ a \in WireLines /\ b \in WireLines
       /\ a.connection = b.connection /\ a.message = b.message /\ b.place = i
  BY <1>6, <2>1
 <2> HIDE DEF a, b
 <2>3. b = [a EXCEPT !.place = i, !.text = b.text] BY <2>2 DEF WireLines
 <2> QED BY <2>3 DEF a, b
<1>9. 1 \in 1..(n + 1) BY <1>3
<1> QED BY <1>1, <1>3, <1>6, <1>8, <1>9 DEF DispatchedInOrder, Whole

LEMMA InputKeeps == HooksInv /\ Input => HooksInv'
<1> SUFFICES ASSUME HooksInv, Input PROVE HooksInv' OBVIOUS
<1> USE DEF coroutine, link, daemon
<1>1. CASE Wake
 <2>1. /\ connected /\ reading' /\ UNCHANGED <<link, daemon, wire, served, dispatched>>
       /\ command' = command /\ line' \in {"name", "arg"}
       /\ line' = "arg" <=> line = "arg"
  <3>1. CASE line = "start" BY <1>1, <3>1 DEF Wake, Begin, HooksInv, Resumes
  <3>2. CASE line # "start" BY <1>1, <3>2 DEF Wake, HooksInv, HooksTypeOK
  <3> QED BY <3>1, <3>2
 <2>2. HooksTypeOK' BY <2>1 DEF HooksInv, HooksTypeOK
 <2>3. Resumes' BY <2>1 DEF HooksInv, Resumes
 <2> QED
  BY <2>1, <2>2, <2>3
     DEF HooksInv, Stream, Held, OnWire, Coming, Seam, Shut, Ours, Expected, Follows, DispatchedInOrder
<1>2. CASE ReadName
 <2>1. /\ reading /\ ReadLine /\ UNCHANGED <<reading, link, daemon, served, dispatched>>
       /\ command' = Append(command, Head(wire)) /\ line = "name" /\ line' = "arg"
       /\ command = <<>> /\ connected
  BY <1>2 DEF ReadName, HooksInv, Resumes
 <2>2. /\ wire \in Seq(WireLines) /\ wire # <<>> /\ command \in Seq(WireLines)
  BY <2>1 DEF HooksInv, HooksTypeOK, ReadLine
 <2>3. Head(wire).text # "done"
  <3>1. Ours(wire[1]) /\ Expected(wire[1]) /\ Head(wire) = wire[1]
   BY <2>2, Taken DEF HooksInv, Stream, OnWire
  <3>2. wire[1].place = 1 BY <2>1, <3>1, EmptyLines DEF Expected
  <3> QED BY <3>1, <3>2 DEF Ours
 <2>4. Stream' /\ wire' \in Seq(WireLines) /\ command' \in Seq(WireLines) BY <2>1, <2>3, ReadKeeps
 <2>5. command' # <<>> BY <2>1, <2>2, Taken, LineAppended
 <2> QED BY <2>1, <2>4, <2>5 DEF HooksInv, HooksTypeOK, Resumes, DispatchedInOrder
<1>3. CASE ReadArg
 <2>1. /\ reading /\ ReadLine /\ UNCHANGED <<line, reading, link, daemon, served, dispatched>>
       /\ command' = Append(command, Head(wire)) /\ line = "arg" /\ Head(wire).text = "arg"
       /\ connected
  BY <1>3 DEF ReadArg, HooksInv, Resumes
 <2>2. /\ wire \in Seq(WireLines) /\ wire # <<>> /\ command \in Seq(WireLines)
  BY <2>1 DEF HooksInv, HooksTypeOK, ReadLine
 <2>4. Stream' /\ wire' \in Seq(WireLines) /\ command' \in Seq(WireLines) BY <2>1, ReadKeeps
 <2>5. command' # <<>> BY <2>1, <2>2, Taken, LineAppended
 <2> QED BY <2>1, <2>4, <2>5 DEF HooksInv, HooksTypeOK, Resumes, DispatchedInOrder
<1>4. CASE CallHook
 <2>1. /\ reading /\ ReadLine /\ UNCHANGED <<reading, link, daemon>>
       /\ command' = <<>> /\ line' = "name" /\ Head(wire).text = "done"
       /\ served' = served + 1 /\ connected /\ command # <<>>
  BY <1>4 DEF CallHook, Begin, HooksInv, Resumes
 <2>2. Stream' /\ wire' \in Seq(WireLines) /\ command' \in Seq(WireLines) BY <2>1, ReadKeeps
 <2> QED BY <1>4, <2>1, <2>2, DispatchWhole DEF HooksInv, HooksTypeOK, Resumes
<1>5. CASE Yield
 BY <1>5 DEF Yield, HooksInv, HooksTypeOK, Resumes, Stream, Held, OnWire, Coming, Seam, Shut,
    Ours, Expected, Follows, DispatchedInOrder
<1>6. CASE Halt BY <1>6, ConnectKeeps DEF Halt, HooksWatchKiller
<1> QED BY <1>1, <1>2, <1>3, <1>4, <1>5, <1>6 DEF Input

----
(* The daemon. *)
LEMMA BeginKeeps ==
    ASSUME MessagesEnd, HooksInv, DaemonBegin
    PROVE  Stream' /\ writing' \in Seq(WireLines)
<1>1. PICK m \in Messages :
        writing' = [i \in DOMAIN m |-> [text |-> m[i], connection |-> connection,
                                        message |-> sent + 1, place |-> i]]
 BY DEF DaemonBegin
<1> DEFINE n == Len(m)
<1>2. m \in Seq(Texts) BY ConstantsAssumption
<1>3. n \in Nat /\ n > 1 /\ DOMAIN m = 1..n BY <1>2, LenProperties DEF MessagesEnd
<1>4. \A i \in 1..n : m[i] \in Texts BY <1>2, ElementOfSeq
<1>5. \A i \in 1..n : m[i] = "done" <=> i = n BY <1>3 DEF MessagesEnd
<1> HIDE DEF n
<1>6. /\ open /\ writing = <<>> /\ sent' = sent + 1 /\ wire' = wire /\ open' = open
      /\ UNCHANGED <<line, numargs, command, connection, served>>
      /\ connection \in Nat /\ sent \in Nat /\ wire \in Seq(WireLines)
 BY DEF DaemonBegin, hooksUnchanged, coroutine, link, HooksInv, HooksTypeOK
<1>7. \A i \in 1..n :
        [text |-> m[i], connection |-> connection, message |-> sent + 1, place |-> i] \in WireLines
 <2> SUFFICES ASSUME NEW i \in 1..n
              PROVE  [text |-> m[i], connection |-> connection,
                      message |-> sent + 1, place |-> i] \in WireLines
  OBVIOUS
 <2>1. m[i] \in Texts /\ connection \in Nat /\ sent + 1 \in Nat /\ i \in Nat BY <1>3, <1>4, <1>6
 <2> QED BY <2>1 DEF WireLines
<1>8. writing' \in Seq(WireLines) /\ Len(writing') = n
 <2>1. writing' \in [1..n -> WireLines] BY <1>1, <1>3, <1>7, Zenon
 <2> QED BY <1>3, <2>1
<1>10. \A i \in 1..n :
        /\ writing'[i].connection = connection /\ writing'[i].message = sent + 1
        /\ writing'[i].place = i /\ writing'[i].text = m[i]
 <2> SUFFICES ASSUME NEW i \in 1..n
              PROVE  /\ writing'[i].connection = connection /\ writing'[i].message = sent + 1
                     /\ writing'[i].place = i /\ writing'[i].text = m[i]
  OBVIOUS
 <2>1. writing'[i] = [text |-> m[i], connection |-> connection, message |-> sent + 1, place |-> i]
  BY <1>1, <1>3
 <2> QED BY <2>1
<1>9. Coming'
 <2>1. \A i \in 1..n : i = 1 => m[i] # "done" BY <1>3, <1>5
 <2>2. \A i \in 1..n : Ours(writing[i])' BY <1>6, <1>10, <2>1 DEF Ours
 <2>3. \A i \in 1..(n - 1) : i \in 1..n /\ i + 1 \in 1..n /\ i # n BY <1>3
 <2>4. \A i \in 1..(n - 1) : Follows(writing'[i], writing'[i + 1]) BY <1>5, <1>10, <2>3 DEF Follows
 <2>5. \A i \in 1..n : writing'[i].message = sent' /\ (writing'[i].text = "done" <=> i = n)
  BY <1>5, <1>6, <1>10
 <2> QED BY <1>8, <2>2, <2>4, <2>5 DEF Coming
<1>11. Seam'
 <2>1. 1 \in 1..n /\ writing' # <<>> BY <1>3, <1>8, NonEmpty
 <2>2. CASE wire = <<>>
  <3>1. served = sent /\ Len(command) = 0 BY <1>6, <2>2, EmptyLines DEF HooksInv, Stream, Seam
  <3> QED BY <1>6, <1>10, <2>1, <2>2, <3>1 DEF Seam, Expected
 <2>3. CASE wire # <<>>
  <3>1. wire[Len(wire)].text = "done" /\ wire[Len(wire)].message = sent
   BY <1>6, <2>3 DEF HooksInv, Stream, Seam
  <3>2. Follows(wire[Len(wire)], writing'[1]) BY <1>10, <2>1, <3>1 DEF Follows
  <3> QED BY <1>6, <2>1, <2>3, <3>2 DEF Seam
 <2> QED BY <2>2, <2>3
<1> QED
 BY <1>6, <1>8, <1>9, <1>11
    DEF HooksInv, Stream, Held, OnWire, Shut, Ours, Expected

\* A line goes from one end of the seam to the other; the text of a line that was cut
\* is of no matter to what it follows.
LEMMA WriteWire ==
    ASSUME HooksInv, open, writing # <<>>, UNCHANGED <<command, connection, served>>,
           NEW l \in WireLines, l.text = writing[1].text \/ l.text = "junk",
           l.connection = writing[1].connection, l.message = writing[1].message,
           l.place = writing[1].place,
           wire' = Append(wire, l)
    PROVE  OnWire' /\ wire' \in Seq(WireLines) /\ wire' # <<>> /\ wire'[Len(wire')] = l
<1> DEFINE n == Len(wire)
<1>1. wire \in Seq(WireLines) /\ writing \in Seq(WireLines) /\ Len(writing) \in Nat \ {0}
 BY Taken DEF HooksInv, HooksTypeOK
<1>2. /\ wire' \in Seq(WireLines) /\ wire' # <<>> /\ Len(wire') = n + 1 /\ n \in Nat
      /\ \A i \in 1..n : wire'[i] = wire[i]
      /\ wire'[n + 1] = l
 BY <1>1, LineAppended
<1>3. wire = <<>> <=> n = 0 BY <1>1, NonEmpty
<1>4. Ours(l)
 <2>1. Ours(writing[1]) BY <1>1 DEF HooksInv, Stream, Coming
 <2> QED BY <2>1 DEF Ours
<1>5. \A i \in 1..(n + 1) : Ours(wire[i])'
 <2>1. \A i \in 1..n : Ours(wire[i]) BY DEF HooksInv, Stream, OnWire
 <2>2. \A i \in 1..(n + 1) : i \in 1..n \/ i = n + 1 BY <1>2
 <2>3. \A i \in 1..(n + 1) : Ours(wire'[i]) BY <1>2, <1>4, <2>1, <2>2
 <2> QED BY <2>3 DEF Ours
<1>6. ASSUME NEW i \in 1..n PROVE Follows(wire'[i], wire'[i + 1])
 <2>1. CASE i \in 1..(n - 1)
  <3>1. i + 1 \in 1..n BY <1>2, <2>1
  <3>2. Follows(wire[i], wire[i + 1]) BY <2>1 DEF HooksInv, Stream, OnWire
  <3> QED BY <1>2, <3>1, <3>2
 <2>2. CASE i = n
  <3>1. wire # <<>> BY <1>2, <1>3
  <3>2. Follows(wire[n], writing[1]) BY <3>1 DEF HooksInv, Stream, Seam
  <3>3. Follows(wire[n], l) BY <3>2 DEF Follows
  <3> QED BY <1>2, <2>2, <3>3
 <2> QED BY <1>2, <2>1, <2>2
<1>7. Expected(wire[1])'
 <2>1. CASE wire = <<>>
  <3>1. Expected(writing[1]) BY <2>1 DEF HooksInv, Stream, Seam
  <3> QED BY <1>2, <1>3, <2>1, <3>1 DEF Expected
 <2>2. CASE wire # <<>>
  <3>1. Expected(wire[1]) BY <2>2 DEF HooksInv, Stream, OnWire
  <3>2. 1 \in 1..n BY <1>2, <1>3, <2>2
  <3> QED BY <1>2, <3>1, <3>2 DEF Expected
 <2> QED BY <2>1, <2>2
<1> QED BY <1>2, <1>5, <1>6, <1>7 DEF OnWire, Ours, Expected, Follows

LEMMA DaemonKeeps ==
    MessagesEnd /\ HooksInv /\ (DaemonBegin \/ DaemonWrite \/ DaemonClose) => HooksInv'
<1> SUFFICES ASSUME MessagesEnd, HooksInv, DaemonBegin \/ DaemonWrite \/ DaemonClose PROVE HooksInv'
 OBVIOUS
<1>1. /\ open
      /\ UNCHANGED <<line, numargs, command, reading, connected, timer, connection, served, dispatched>>
      /\ connected
 BY DEF DaemonBegin, DaemonWrite, DaemonClose, hooksUnchanged, coroutine, link, HooksInv, Resumes
<1>2. Resumes' /\ DispatchedInOrder' /\ Held'
 BY <1>1 DEF HooksInv, Resumes, DispatchedInOrder, Stream, Held
<1>3. CASE DaemonBegin
 <2>1. Stream' /\ writing' \in Seq(WireLines) BY <1>3, BeginKeeps
 <2> QED BY <1>1, <1>2, <1>3, <2>1 DEF DaemonBegin, HooksInv, HooksTypeOK
<1>4. CASE DaemonWrite
 <2>1. /\ writing \in Seq(WireLines) /\ writing # <<>> /\ writing' = Tail(writing)
       /\ wire' = Append(wire, Head(writing)) /\ sent' = sent /\ open' = open
  BY <1>4 DEF DaemonWrite, HooksInv, HooksTypeOK
 <2>2. /\ Head(writing) \in WireLines /\ Head(writing) = writing[1]
       /\ writing' \in Seq(WireLines)
       /\ Len(writing) \in Nat \ {0} /\ Len(writing') = Len(writing) - 1
       /\ \A i \in 1..(Len(writing) - 1) : writing'[i] = writing[i + 1]
       /\ writing' = <<>> <=> Len(writing) = 1
  BY <2>1, Taken
 <2>3. OnWire' /\ wire' \in Seq(WireLines) /\ wire' # <<>> /\ wire'[Len(wire')] = writing[1]
  BY <1>1, <2>1, <2>2, WriteWire
 <2>4. Coming'
  <3>1. \A i \in 1..Len(writing') : i + 1 \in 1..Len(writing) /\ writing'[i] = writing[i + 1]
   BY <2>2
  <3>2. \A i \in 1..Len(writing') :
          /\ Ours(writing[i + 1]) /\ writing[i + 1].message = sent
          /\ writing[i + 1].text = "done" <=> i + 1 = Len(writing)
   BY <3>1 DEF HooksInv, Stream, Coming
  <3>3. \A i \in 1..(Len(writing') - 1) :
          i \in 1..Len(writing') /\ i + 1 \in 1..Len(writing') /\ i + 1 \in 1..(Len(writing) - 1)
   BY <2>2
  <3>4. \A i \in 1..(Len(writing') - 1) : Follows(writing'[i], writing'[i + 1])
   <4> SUFFICES ASSUME NEW i \in 1..(Len(writing') - 1)
                PROVE  Follows(writing'[i], writing'[i + 1])
    OBVIOUS
   <4>1. Follows(writing[i + 1], writing[(i + 1) + 1]) BY <3>3 DEF HooksInv, Stream, Coming
   <4> QED BY <3>1, <3>3, <4>1
  <3>5. \A i \in 1..Len(writing') : Ours(writing[i])' BY <1>1, <3>1, <3>2 DEF Ours
  <3>6. \A i \in 1..Len(writing') :
          /\ writing'[i].message = sent'
          /\ writing'[i].text = "done" <=> i = Len(writing')
   <4> SUFFICES ASSUME NEW i \in 1..Len(writing')
                PROVE  /\ writing'[i].message = sent'
                       /\ writing'[i].text = "done" <=> i = Len(writing')
    OBVIOUS
   <4>1. i + 1 = Len(writing) <=> i = Len(writing') BY <2>2
   <4> QED BY <2>1, <3>1, <3>2, <4>1
  <3> QED BY <3>4, <3>5, <3>6 DEF Coming, Ours, Follows
 <2>5. Seam'
  <3>1. CASE writing' = <<>>
   <4>1. writing[1].text = "done" /\ writing[1].message = sent
    BY <2>2, <3>1 DEF HooksInv, Stream, Coming
   <4> QED BY <2>1, <2>3, <3>1, <4>1 DEF Seam
  <3>2. CASE writing' # <<>>
   <4>1. 1 \in 1..(Len(writing) - 1) /\ writing'[1] = writing[1 + 1] BY <2>2, <3>2
   <4>2. Follows(writing[1], writing[1 + 1]) BY <4>1 DEF HooksInv, Stream, Coming
   <4> QED BY <2>3, <3>2, <4>1, <4>2 DEF Seam, Follows
  <3> QED BY <3>1, <3>2
 <2> QED BY <1>1, <1>2, <2>1, <2>2, <2>3, <2>4, <2>5 DEF HooksInv, HooksTypeOK, Stream, Shut
<1>5. CASE DaemonClose
 <2>1. ~open' /\ writing' = <<>> /\ sent' = sent BY <1>5 DEF DaemonClose
 <2>2. OnWire' /\ wire' \in Seq(WireLines)
  <3>1. CASE wire' = wire
   BY <1>1, <3>1 DEF HooksInv, HooksTypeOK, Stream, OnWire, Ours, Expected, Follows
  <3>2. CASE /\ writing # <<>>
             /\ \E text \in {Head(writing).text, "junk"} :
                  wire' = Append(wire, [Head(writing) EXCEPT !.text = text])
   <4>1. PICK text \in {Head(writing).text, "junk"} :
           wire' = Append(wire, [Head(writing) EXCEPT !.text = text])
    BY <3>2
   <4> DEFINE h == Head(writing)
              l == [h EXCEPT !.text = text]
   <4>2. h \in WireLines /\ h = writing[1] BY <3>2, Taken DEF HooksInv, HooksTypeOK
   <4>3. wire' = Append(wire, l) /\ text \in {h.text, "junk"} BY <4>1
   <4> HIDE DEF h
   <4>4. /\ l \in WireLines /\ l.connection = h.connection /\ l.message = h.message
         /\ l.place = h.place /\ (l.text = h.text \/ l.text = "junk")
    BY <4>2, <4>3 DEF WireLines, Texts
   <4> HIDE DEF l
   <4> QED BY <1>1, <3>2, <4>2, <4>3, <4>4, WriteWire
  <3> QED BY <1>5, <3>1, <3>2 DEF DaemonClose
 <2>3. Coming' /\ Seam' /\ Shut' BY <2>1, EmptyLines DEF Coming, Seam, Shut
 <2>4. writing' \in Seq(WireLines) /\ open' \in BOOLEAN BY <1>5, EmptyLines DEF DaemonClose
 <2> QED BY <1>1, <1>2, <2>1, <2>2, <2>3, <2>4 DEF HooksInv, HooksTypeOK, Stream
<1> QED BY <1>3, <1>4, <1>5

LEMMA IInvNext == MessagesEnd /\ HooksInv /\ [HooksNext]_hooksVars => HooksInv'
<1> SUFFICES ASSUME MessagesEnd, HooksInv, [HooksNext]_hooksVars PROVE HooksInv' OBVIOUS
<1>1. CASE Retry BY <1>1, ConnectKeeps DEF Retry, HooksInv, HooksTypeOK
<1>2. CASE ForceReconnect BY <1>2, ConnectKeeps DEF ForceReconnect, HooksWatchKiller
<1>3. CASE UNCHANGED hooksVars
 BY <1>3 DEF hooksVars, coroutine, link, daemon, HooksInv, HooksTypeOK, Resumes, Stream, Held, OnWire, Coming,
    Seam, Shut, Ours, Expected, Follows, DispatchedInOrder
<1> QED BY <1>1, <1>2, <1>3, InputKeeps, DaemonKeeps DEF HooksNext

\* Whatever is cut short, given up or reconnected, handle_hook_server_input calls a hook
\* only with all the lines of one message of its connection, message after message.
THEOREM HooksCalledInOrder ==
    ASSUME MessagesEnd
    PROVE  HooksSpec => []DispatchedInOrder
<1>1. HooksInv /\ [HooksNext]_hooksVars => HooksInv' BY IInvNext
<1>2. HooksInv => DispatchedInOrder BY DEF HooksInv
<1> QED BY <1>1, <1>2, IInvInit, PTL DEF HooksSpec
====

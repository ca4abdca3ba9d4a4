---- MODULE DropboxCommandClientProofs ----
(* Proofs about DropboxCommandClient, for any sets of requests, any replies of the daemon and any
   bounds. *)
EXTENDS DropboxCommandClient, TLAPS

----
(* Type correctness.  The command thread has a request in hand exactly while it exchanges
   commands with the daemon. *)
InHand == dc # None <=> pc \in ServePcs

Typed == TypeOK /\ InHand

LEMMA Marks == None \notin Requests /\ Reset \notin Requests /\ Reset # None
  BY RequestsAssumption

LEMMA Parts == FileRequests \subseteq Requests /\ GeneralRequests \subseteq Requests
               /\ Requests \ FileRequests \subseteq GeneralRequests
  BY DEF Requests

LEMMA EventTypes ==
    /\ <<"connect", None>> \in Events
    /\ <<"disconnect", None>> \in Events
    /\ \A n \in Nat : <<"attempt", n>> \in Events
    /\ \A r \in Requests : <<"finish", r>> \in Events
  BY DEF Events

LEMMA EventFields ==
    ASSUME NEW e \in Events
    PROVE  /\ e[1] \in {"connect", "disconnect", "attempt", "finish"}
           /\ e[1] = "finish" => e[2] \in Requests /\ e = <<"finish", e[2]>>
  BY DEF Events

LEMMA QuestionTypes ==
    /\ NoQuestion \in Question
    /\ Questions \subseteq Question
    /\ \A r \in Requests, c \in Commands : <<r, c>> \in Questions
  BY DEF Question, Questions, NoQuestion

LEMMA LineTypes ==
    /\ \A l \in Line : l.to \in Questions
    /\ \A t \in Lines, q \in Questions : [text |-> t, to |-> q] \in Line
  BY DEF Line

LEMMA CommandTypes ==
    {"general", "get_emblems", "icon_overlay_file_status", "get_folder_tag"} \subseteq Commands
  BY DEF Commands, FileCommands

LEMMA TypedInit == Init => Typed
<1> SUFFICES ASSUME Init PROVE Typed OBVIOUS
<1>1. /\ command_queue \in Seq(Requests \cup {Reset})
      /\ idle \in Seq(Events)
      /\ inbox \in Seq(Questions)
      /\ writing \in Seq(Line)
      /\ lines \in Seq(Line)
 BY DEF Init
<1>2. pc \in Pcs /\ InHand BY DEF Init, InHand, Pcs, ServePcs, ReadPcs
<1>3. command \in Commands /\ reply \in Question BY CommandTypes, QuestionTypes DEF Init
<1> QED BY <1>1, <1>2, <1>3 DEF Init, Typed, TypeOK

\* What the end of a request appends to the main loop, and frees.
LEMMA FinishTyped ==
    ASSUME idle \in Seq(Events), runs \in [Requests \cup {Reset} -> Nat],
           NEW r \in Requests, Finish(r)
    PROVE  idle' \in Seq(Events) /\ runs' \in [Requests \cup {Reset} -> Nat]
<1>1. <<"finish", r>> \in Events BY EventTypes
<1>2. CASE r \in FileRequests
 <2>1. idle' = Append(idle, <<"finish", r>>) /\ runs' = runs BY <1>2 DEF Finish
 <2> QED BY <1>1, <2>1
<1>3. CASE r \notin FileRequests BY <1>3 DEF Finish
<1> QED BY <1>2, <1>3

LEMMA EndRequestTyped ==
    ASSUME idle \in Seq(Events), runs \in [Requests \cup {Reset} -> Nat],
           NEW r \in Requests \cup {Reset}, EndRequest(r)
    PROVE  idle' \in Seq(Events) /\ runs' \in [Requests \cup {Reset} -> Nat]
  BY FinishTyped DEF EndRequest

\* What the end of an exchange determines: the thread's place and request, the
\* callbacks it queued and the requests it freed.
OutcomeTyped ==
    /\ pc \in Pcs
    /\ dc \in Requests \cup {None}
    /\ command \in Commands
    /\ idle \in Seq(Events)
    /\ runs \in [Requests \cup {Reset} -> Nat]
    /\ InHand

LEMMA CompleteTyped == Typed /\ dc \in Requests /\ Complete => OutcomeTyped'
  BY FinishTyped, CommandTypes
     DEF Complete, OutcomeTyped, InHand, Typed, TypeOK, Pcs, ServePcs, ReadPcs

LEMMA AskTyped ==
    ASSUME Typed, dc \in Requests, NEW c \in Commands, Ask(c)
    PROVE  OutcomeTyped'
  BY Marks DEF Ask, OutcomeTyped, InHand, Typed, TypeOK, Pcs, ServePcs, ReadPcs

LEMMA AnsweredTyped ==
    ASSUME Typed, dc \in Requests, NEW t \in BOOLEAN, Answered(t)
    PROVE  OutcomeTyped'
  BY CompleteTyped, AskTyped, CommandTypes DEF Answered

LEMMA FailedTyped ==
    Typed /\ dc \in Requests /\ Failed => OutcomeTyped' /\ swallowed' \in BOOLEAN
<1> SUFFICES ASSUME Typed, dc \in Requests, Failed
             PROVE  OutcomeTyped' /\ swallowed' \in BOOLEAN
 OBVIOUS
<1>1. CASE command = "get_emblems" BY <1>1, AskTyped, CommandTypes DEF Failed
<1>2. CASE command # "get_emblems"
 BY <1>2, EndRequestTyped, CommandTypes
    DEF Failed, OutcomeTyped, InHand, Typed, TypeOK, Pcs, ServePcs, ReadPcs
<1> QED BY <1>1, <1>2

LEMMA ReadLineTyped ==
    ASSUME Typed, NEW text, ReadLine(text)
    PROVE  /\ lines' \in Seq(Line)
           /\ Head(lines).to \in Question
           /\ UNCHANGED <<peer, inbox, writing>>
  BY LineTypes, QuestionTypes DEF Typed, TypeOK, ReadLine

LEMMA ThreadTyped == Typed /\ Running /\ Thread => Typed'
<1> SUFFICES ASSUME Typed, Running, Thread PROVE Typed' OBVIOUS
<1> USE DEF Typed, TypeOK, InHand, threadVars, mainVars, wireVars, Pcs, ServePcs, ReadPcs
<1>1. CASE ArgsTimeout BY <1>1 DEF ArgsTimeout
<1>2. CASE ConnectFail /\ UNCHANGED crashed BY <1>2, EventTypes DEF ConnectFail
<1>3. CASE ConnectOk /\ UNCHANGED crashed BY <1>3 DEF ConnectOk
<1>4. CASE SetConnected /\ UNCHANGED crashed BY <1>4 DEF SetConnected, SetConnectedState
<1>5. CASE AddOnConnect /\ UNCHANGED crashed
 BY <1>5, EventTypes DEF AddOnConnect, AddConnectionEvent
<1>6. CASE Pop /\ UNCHANGED crashed
 <2> DEFINE r == Head(command_queue)
 <2>1. r \in Requests \cup {Reset} /\ command_queue' \in Seq(Requests \cup {Reset}) BY <1>6 DEF Pop
 <2>2. CASE pc' = "drain" /\ UNCHANGED <<dc, command, idle, runs>> BY <1>6, <2>1, <2>2 DEF Pop
 <2>3. CASE /\ r \in Requests
            /\ pc' = "send" /\ dc' = r /\ command' \in Commands
            /\ UNCHANGED <<idle, runs>>
  BY <1>6, <2>1, <2>3, Marks DEF Pop
 <2>4. CASE r \in Requests /\ Finish(r) /\ UNCHANGED <<pc, dc, command>>
  BY <1>6, <2>1, <2>4, FinishTyped DEF Pop
 <2> QED BY <1>6, <2>2, <2>3, <2>4, Parts, CommandTypes DEF Pop
<1>7. CASE CheckConnection /\ UNCHANGED crashed BY <1>7 DEF CheckConnection
<1>8. CASE Drain /\ UNCHANGED crashed
 <2>1. command_queue' \in Seq(Requests \cup {Reset}) BY <1>8 DEF Drain
 <2>2. idle' \in Seq(Events) /\ runs' \in [Requests \cup {Reset} -> Nat]
  <3>1. Head(command_queue) \in Requests \cup {Reset} BY <1>8 DEF Drain
  <3> QED BY <1>8, <3>1, EndRequestTyped DEF Drain
 <2> QED BY <1>8, <2>1, <2>2 DEF Drain
<1>9. CASE Close /\ UNCHANGED crashed
 <2>1. inbox' \in Seq(Questions) /\ writing' \in Seq(Line) /\ lines' \in Seq(Line)
  BY <1>9 DEF Close
 <2> QED BY <1>9, <2>1 DEF Close
<1>10. CASE SetDisconnected /\ UNCHANGED crashed BY <1>10 DEF SetDisconnected, SetConnectedState
<1>11. CASE AddOnDisconnect /\ UNCHANGED crashed
 BY <1>11, EventTypes DEF AddOnDisconnect, AddConnectionEvent
<1>12. CASE Send /\ UNCHANGED crashed
 <2>1. dc \in Requests BY <1>12 DEF Send
 <2>2. CASE peer = "open"
  <3>1. <<dc, command>> \in Questions BY <2>1, QuestionTypes
  <3>2. inbox' = Append(inbox, <<dc, command>>) BY <1>12, <2>2 DEF Send
  <3>3. inbox' \in Seq(Questions) BY <3>1, <3>2
  <3> QED BY <1>12, <2>1, <2>2, <3>3 DEF Send, exchangeUnchanged
 <2>3. CASE peer = "closed"
  BY <1>12, <2>1, <2>3, FailedTyped DEF Send, exchangeUnchanged, OutcomeTyped
 <2> QED BY <1>12, <2>2, <2>3 DEF Send
<1>13. CASE ReadStatus /\ UNCHANGED crashed
 <2>1. PICK text \in Lines :
         /\ ReadLine(text)
         /\ pc' = IF text = "ok" THEN "args" ELSE "errors"
         /\ reply' = Head(lines).to
  BY <1>13 DEF ReadStatus
 <2>2. lines' \in Seq(Line) /\ reply' \in Question /\ UNCHANGED <<peer, inbox, writing>>
  BY <2>1, ReadLineTyped
 <2> QED BY <1>13, <2>1, <2>2 DEF ReadStatus, exchangeUnchanged
<1>14. ASSUME pc \in ReadPcs, exchangeUnchanged, UNCHANGED <<wireVars, crashed>>, GiveUp
       PROVE  Typed'
 <2>1. dc \in Requests BY <1>14
 <2> QED BY <1>14, <2>1, FailedTyped, QuestionTypes DEF GiveUp, exchangeUnchanged, OutcomeTyped
<1>15. CASE ReadArg /\ UNCHANGED crashed
 <2>1. dc \in Requests BY <1>15 DEF ReadArg
 <2>2. lines' \in Seq(Line) /\ peer' = peer /\ inbox' = inbox /\ writing' = writing
  BY <1>15, ReadLineTyped DEF ReadArg
 <2>3. CASE EndOfReply(TRUE)
  BY <1>15, <2>1, <2>2, <2>3, AnsweredTyped, QuestionTypes
     DEF ReadArg, exchangeUnchanged, EndOfReply, OutcomeTyped
 <2>4. CASE GiveUp
  BY <1>15, <2>1, <2>2, <2>4, FailedTyped, QuestionTypes
     DEF ReadArg, exchangeUnchanged, GiveUp, OutcomeTyped
 <2>5. CASE numargs' = numargs + 1 /\ UNCHANGED <<pc, dc, command, reply, idle, runs, swallowed>>
  BY <1>15, <2>2, <2>5 DEF ReadArg, exchangeUnchanged
 <2> QED BY <1>15, <2>3, <2>4, <2>5 DEF ReadArg
<1>16. CASE ReadErrors /\ UNCHANGED crashed
 <2>1. dc \in Requests BY <1>16 DEF ReadErrors
 <2>2. lines' \in Seq(Line) /\ peer' = peer /\ inbox' = inbox /\ writing' = writing
  BY <1>16, ReadLineTyped DEF ReadErrors
 <2>3. CASE EndOfReply(FALSE)
  BY <1>16, <2>1, <2>2, <2>3, AnsweredTyped, QuestionTypes
     DEF ReadErrors, exchangeUnchanged, EndOfReply, OutcomeTyped
 <2>4. CASE UNCHANGED <<pc, dc, command, numargs, reply, idle, runs, swallowed>>
  BY <1>16, <2>2, <2>4 DEF ReadErrors, exchangeUnchanged
 <2> QED BY <1>16, <2>3, <2>4 DEF ReadErrors
<1>17. CASE (TooManyArgs \/ ReadEof \/ ReadTimeout) /\ UNCHANGED crashed
 BY <1>14, <1>17 DEF TooManyArgs, ReadEof, ReadTimeout
<1> QED BY <1>1, <1>2, <1>3, <1>4, <1>5, <1>6, <1>7, <1>8, <1>9, <1>10, <1>11,
    <1>12, <1>13, <1>15, <1>16, <1>17 DEF Thread

LEMMA MainTyped == Typed /\ Main /\ UNCHANGED crashed => Typed'
<1> SUFFICES ASSUME Typed, Main, UNCHANGED crashed PROVE Typed' OBVIOUS
<1> USE DEF Typed, TypeOK, InHand, threadVars, mainVars, wireVars, ServePcs, ReadPcs
<1>1. CASE \E r \in FileRequests : RequestFileInfo(r) BY <1>1, Parts DEF RequestFileInfo, Decide
<1>2. CASE \E r \in GeneralRequests : RequestGeneral(r) BY <1>2, Parts DEF RequestGeneral, Decide
<1>3. CASE ForceReconnect BY <1>3 DEF ForceReconnect, Decide
<1>4. CASE Request BY <1>4 DEF Request
<1>5. CASE Dispatch
 <2> DEFINE event == Head(idle)
 <2>1. event \in Events /\ idle' \in Seq(Events) BY <1>5 DEF Dispatch
 <2>2. announced' \in {"connect", "disconnect"} /\ runs' \in [Requests \cup {Reset} -> Nat]
  BY <1>5, <2>1, EventFields DEF Dispatch
 <2> QED BY <1>5, <2>1, <2>2 DEF Dispatch
<1> QED BY <1>1, <1>2, <1>3, <1>4, <1>5 DEF Main

\* A function on 1..n is a sequence: the reply of the daemon is written as one.
LEMMA FunctionIsSeq ==
    ASSUME NEW S, NEW n \in Nat, NEW f \in [1..n -> S]
    PROVE  f \in Seq(S)
  OBVIOUS

LEMMA DaemonTyped == Typed /\ Daemon /\ UNCHANGED crashed => Typed'
<1> SUFFICES ASSUME Typed, Daemon, UNCHANGED crashed PROVE Typed' OBVIOUS
<1> USE DEF Typed, TypeOK, InHand, threadVars, mainVars, wireVars, clientUnchanged
<1>1. CASE DaemonAnswer
 <2>1. PICK answer \in Replies :
         writing' = [i \in DOMAIN answer |->
                       [text |-> answer[i], to |-> Head(inbox)]]
  BY <1>1 DEF DaemonAnswer
 <2>2. answer \in Seq(Lines) /\ Head(inbox) \in Questions
  BY <1>1, RequestsAssumption DEF DaemonAnswer
 <2>3. \A i \in DOMAIN answer : [text |-> answer[i], to |-> Head(inbox)] \in Line
  <3> SUFFICES ASSUME NEW i \in DOMAIN answer
               PROVE  [text |-> answer[i], to |-> Head(inbox)] \in Line
   OBVIOUS
  <3>1. answer[i] \in Lines BY <2>2
  <3> QED BY <3>1, <2>2, LineTypes
 <2>4. PICK n \in Nat : DOMAIN answer = 1..n BY <2>2
 <2>5. writing' \in [1..n -> Line] BY <2>1, <2>3, <2>4, Zenon
 <2>6. writing' \in Seq(Line) BY <2>5, FunctionIsSeq
 <2>7. inbox' \in Seq(Questions) BY <1>1 DEF DaemonAnswer
 <2> QED BY <1>1, <2>6, <2>7 DEF DaemonAnswer
<1>2. CASE DaemonWrite BY <1>2, EventTypes DEF DaemonWrite
<1>3. CASE DaemonClose BY <1>3 DEF DaemonClose
<1> QED BY <1>1, <1>2, <1>3 DEF Daemon

LEMMA TypedStutter == Typed /\ UNCHANGED vars => Typed'
  BY DEF Typed, TypeOK, InHand, ServePcs, ReadPcs, vars, threadVars, mainVars, wireVars

LEMMA TypedNext == Typed /\ [Next]_vars => Typed'
  BY ThreadTyped, MainTyped, DaemonTyped, TypedStutter DEF Next, Crashed

\* In every state every variable has its type: in particular the thread never
\* serves a NULL request and what a reply answers is a command that was sent.
THEOREM TypeCorrect == Spec => []TypeOK
<1> QED BY TypedInit, TypedNext, PTL DEF Spec, Typed
----
(* No request is lost or answered twice.  The invariant says that the five places of a request
   are disjoint and hold together what was issued; each step moves one request from one place to
   the next. *)
Placed == NothingLost /\ NothingTwice
Conserved == Typed /\ Placed

LEMMA QueueSame ==
    UNCHANGED command_queue =>
      Queued' = Queued /\ (QueueDistinct => QueueDistinct')
  BY DEF Queued, QueueDistinct

LEMMA QueueAppended ==
    ASSUME command_queue \in Seq(Requests \cup {Reset}),
           NEW r \in Requests \cup {Reset},
           command_queue' = Append(command_queue, r)
    PROVE  /\ Queued' = Queued \cup ({r} \ {Reset})
           /\ QueueDistinct /\ r \notin Queued => QueueDistinct'
<1>1. /\ DOMAIN command_queue = 1..Len(command_queue)
      /\ DOMAIN command_queue' = 1..(Len(command_queue) + 1)
      /\ Len(command_queue) \in Nat
 OBVIOUS
<1>2. \A i \in DOMAIN command_queue : command_queue'[i] = command_queue[i] OBVIOUS
<1>3. command_queue'[Len(command_queue) + 1] = r OBVIOUS
<1>4. \A i \in DOMAIN command_queue' :
        i \in DOMAIN command_queue \/ i = Len(command_queue) + 1
 BY <1>1
<1>5. DOMAIN command_queue \subseteq DOMAIN command_queue'
      /\ Len(command_queue) + 1 \in DOMAIN command_queue'
 BY <1>1
<1>6. Queued' = Queued \cup ({r} \ {Reset}) BY <1>2, <1>3, <1>4, <1>5 DEF Queued
<1>7. ASSUME QueueDistinct, r \notin Queued PROVE QueueDistinct'
 BY <1>2, <1>3, <1>4, <1>7 DEF Queued, QueueDistinct
<1> QED BY <1>6, <1>7

LEMMA QueueTaken ==
    ASSUME command_queue \in Seq(Requests \cup {Reset}), command_queue # <<>>,
           command_queue' = Tail(command_queue), QueueDistinct
    PROVE  /\ Head(command_queue) \in Queued \cup {Reset}
           /\ Queued' = Queued \ {Head(command_queue)}
           /\ QueueDistinct'
<1> DEFINE n == Len(command_queue)
<1>1. /\ DOMAIN command_queue = 1..n /\ DOMAIN command_queue' = 1..(n - 1)
      /\ n \in Nat /\ n > 0
      /\ Head(command_queue) = command_queue[1]
 OBVIOUS
<1>2. \A i \in DOMAIN command_queue' :
        i + 1 \in DOMAIN command_queue /\ command_queue'[i] = command_queue[i + 1]
 BY <1>1
<1>3. \A i \in DOMAIN command_queue :
        i = 1 \/ (i - 1 \in DOMAIN command_queue' /\ command_queue[i] = command_queue'[i - 1])
 BY <1>1
<1>4. Head(command_queue) \in Queued \cup {Reset} BY <1>1 DEF Queued
<1>5. QueueDistinct'
 <2> SUFFICES ASSUME NEW i \in DOMAIN command_queue', NEW j \in DOMAIN command_queue',
                     command_queue'[i] = command_queue'[j], command_queue'[i] # Reset
              PROVE  i = j
  BY DEF QueueDistinct
 <2>1. i + 1 = j + 1 BY <1>2 DEF QueueDistinct
 <2> QED BY <1>1, <2>1
<1>6. ASSUME NEW i \in DOMAIN command_queue', command_queue'[i] # Reset
      PROVE  command_queue'[i] # Head(command_queue)
 <2>1. i + 1 # 1 /\ 1 \in DOMAIN command_queue BY <1>1
 <2> QED BY <1>1, <1>2, <1>6, <2>1 DEF QueueDistinct
<1>7. Queued' \subseteq Queued \ {Head(command_queue)} BY <1>2, <1>6 DEF Queued
<1>8. Queued \ {Head(command_queue)} \subseteq Queued'
 <2> SUFFICES ASSUME NEW i \in DOMAIN command_queue, command_queue[i] # Reset,
                     command_queue[i] # Head(command_queue)
              PROVE  command_queue[i] \in Queued'
  BY DEF Queued
 <2> QED BY <1>1, <1>3 DEF Queued
<1> QED BY <1>4, <1>5, <1>7, <1>8

LEMMA IdleSame ==
    UNCHANGED idle => Finishing' = Finishing /\ (IdleDistinct => IdleDistinct')
  BY DEF Finishing, IdleDistinct

LEMMA IdleAppended ==
    ASSUME idle \in Seq(Events), NEW e \in Events, idle' = Append(idle, e)
    PROVE  /\ e[1] # "finish" =>
                Finishing' = Finishing /\ (IdleDistinct => IdleDistinct')
           /\ \A r \in Requests : e = <<"finish", r>> =>
                /\ Finishing' = Finishing \cup {r}
                /\ IdleDistinct /\ r \notin Finishing => IdleDistinct'
<1>1. /\ DOMAIN idle = 1..Len(idle) /\ DOMAIN idle' = 1..(Len(idle) + 1)
      /\ Len(idle) \in Nat
 OBVIOUS
<1>2. \A i \in DOMAIN idle : idle'[i] = idle[i] OBVIOUS
<1>3. idle'[Len(idle) + 1] = e OBVIOUS
<1>4. \A i \in DOMAIN idle' : i \in DOMAIN idle \/ i = Len(idle) + 1 BY <1>1
<1>5. DOMAIN idle \subseteq DOMAIN idle' /\ Len(idle) + 1 \in DOMAIN idle' BY <1>1
<1>6. ASSUME e[1] # "finish"
      PROVE  Finishing' = Finishing /\ (IdleDistinct => IdleDistinct')
 <2>1. \A r : e # <<"finish", r>> BY <1>6
 <2>2. Finishing' = Finishing BY <1>2, <1>3, <1>4, <1>5, <2>1 DEF Finishing
 <2>3. ASSUME IdleDistinct PROVE IdleDistinct' BY <1>2, <1>3, <1>4, <1>6, <2>3 DEF IdleDistinct
 <2> QED BY <2>2, <2>3
<1>7. ASSUME NEW r \in Requests, e = <<"finish", r>>
      PROVE  /\ Finishing' = Finishing \cup {r}
             /\ IdleDistinct /\ r \notin Finishing => IdleDistinct'
 <2>1. \A q : e = <<"finish", q>> <=> q = r BY <1>7
 <2>2. Finishing' = Finishing \cup {r} BY <1>2, <1>3, <1>4, <1>5, <2>1 DEF Finishing
 <2>3. ASSUME IdleDistinct, r \notin Finishing PROVE IdleDistinct'
  <3>1. \A i \in DOMAIN idle : idle[i] # e BY <1>7, <2>3 DEF Finishing
  <3> QED BY <1>2, <1>3, <1>4, <2>3, <3>1 DEF IdleDistinct
 <2> QED BY <2>2, <2>3
<1> QED BY <1>6, <1>7

LEMMA IdleTaken ==
    ASSUME idle \in Seq(Events), idle # <<>>, idle' = Tail(idle), IdleDistinct
    PROVE  /\ Head(idle) \in Events
           /\ IdleDistinct'
           /\ Head(idle)[1] # "finish" => Finishing' = Finishing
           /\ Head(idle)[1] = "finish" =>
                /\ Head(idle)[2] \in Finishing
                /\ Finishing' = Finishing \ {Head(idle)[2]}
<1> DEFINE n == Len(idle)
<1>1. /\ DOMAIN idle = 1..n /\ DOMAIN idle' = 1..(n - 1)
      /\ n \in Nat /\ n > 0 /\ Head(idle) = idle[1] /\ Head(idle) \in Events
 OBVIOUS
<1>2. \A i \in DOMAIN idle' : i + 1 \in DOMAIN idle /\ idle'[i] = idle[i + 1] BY <1>1
<1>3. \A i \in DOMAIN idle :
        i = 1 \/ (i - 1 \in DOMAIN idle' /\ idle[i] = idle'[i - 1])
 BY <1>1
<1>4. IdleDistinct'
 <2> SUFFICES ASSUME NEW i \in DOMAIN idle', NEW j \in DOMAIN idle',
                     idle'[i] = idle'[j], idle'[i][1] = "finish"
              PROVE  i = j
  BY DEF IdleDistinct
 <2>1. i + 1 = j + 1 BY <1>2 DEF IdleDistinct
 <2> QED BY <1>1, <2>1
<1>5. Finishing' \subseteq Finishing BY <1>2 DEF Finishing
<1>6. ASSUME NEW r \in Finishing, Head(idle) # <<"finish", r>> PROVE r \in Finishing'
 BY <1>1, <1>3, <1>6 DEF Finishing
<1>7. ASSUME Head(idle)[1] # "finish" PROVE Finishing' = Finishing
 <2>1. \A r : Head(idle) # <<"finish", r>> BY <1>7
 <2> QED BY <1>5, <1>6, <2>1
<1>8. ASSUME Head(idle)[1] = "finish"
      PROVE  /\ Head(idle)[2] \in Finishing
             /\ Finishing' = Finishing \ {Head(idle)[2]}
 <2> DEFINE h == Head(idle)[2]
 <2>1. h \in Requests /\ Head(idle) = <<"finish", h>> BY <1>1, <1>8, EventFields
 <2>2. h \in Finishing BY <1>1, <2>1 DEF Finishing
 <2>3. h \notin Finishing'
  <3>1. \A i \in DOMAIN idle' : idle'[i] # idle[1]
   <4> SUFFICES ASSUME NEW i \in DOMAIN idle', idle'[i] = idle[1] PROVE FALSE OBVIOUS
   <4>1. i + 1 = 1 BY <1>1, <1>2, <1>8 DEF IdleDistinct
   <4> QED BY <1>1, <4>1
  <3> QED BY <1>1, <2>1, <3>1 DEF Finishing
 <2>4. \A r : r # h => Head(idle) # <<"finish", r>> BY <2>1
 <2> QED BY <1>5, <1>6, <2>2, <2>3, <2>4
<1> QED BY <1>1, <1>4, <1>7, <1>8

\* A handler runs: the request is freed, for the first time.
LEMMA RunsSame == UNCHANGED runs => freed' = freed /\ (RunsOnce => RunsOnce')
  BY DEF freed, RunsOnce

LEMMA RunsAdded ==
    ASSUME runs \in [Requests \cup {Reset} -> Nat], NEW r \in Requests,
           runs' = [runs EXCEPT ![r] = @ + 1]
    PROVE  freed' = freed \cup {r} /\ (RunsOnce /\ r \notin freed => RunsOnce')
<1>1. runs'[r] = runs[r] + 1 /\ runs[r] \in Nat OBVIOUS
<1>2. \A q \in Requests \cup {Reset} : q # r => runs'[q] = runs[q] OBVIOUS
<1>3. freed' = freed \cup {r} BY <1>1, <1>2 DEF freed
<1>4. ASSUME RunsOnce, r \notin freed PROVE RunsOnce'
 <2>1. runs'[r] <= 1 BY <1>1, <1>4 DEF freed
 <2> QED BY <1>2, <1>4, <2>1, Marks DEF RunsOnce
<1> QED BY <1>3, <1>4

\* Finishing a request moves it to the callbacks or to the freed ones.
LEMMA FinishMoves ==
    ASSUME Typed, IdleDistinct, RunsOnce, Finishing \cap freed = {},
           NEW r \in Requests, r \notin Finishing \cup freed, Finish(r)
    PROVE  /\ Finishing' \cup freed' = Finishing \cup freed \cup {r}
           /\ Finishing' \cap freed' = {}
           /\ IdleDistinct' /\ RunsOnce'
<1>1. CASE r \in FileRequests
 <2>1. idle' = Append(idle, <<"finish", r>>) /\ UNCHANGED runs BY <1>1 DEF Finish
 <2>2. <<"finish", r>> \in Events /\ idle \in Seq(Events) BY EventTypes DEF Typed, TypeOK
 <2>3. Finishing' = Finishing \cup {r} /\ IdleDistinct' BY <2>1, <2>2, IdleAppended
 <2> QED BY <2>1, <2>3, RunsSame
<1>2. CASE r \notin FileRequests
 <2>1. runs' = [runs EXCEPT ![r] = @ + 1] /\ UNCHANGED idle BY <1>2 DEF Finish
 <2>2. freed' = freed \cup {r} /\ RunsOnce' BY <2>1, RunsAdded DEF Typed, TypeOK
 <2> QED BY <2>1, <2>2, IdleSame
<1> QED BY <1>1, <1>2

USE DEF Conserved, Placed, NothingLost, NothingTwice, PlacesDisjoint

\* Steps that move no request.
LEMMA NothingMoved ==
    Conserved /\ UNCHANGED <<command_queue, idle, runs, dc, main_push, issued>>
      => Placed'
  BY QueueSame, IdleSame, RunsSame DEF Pushing, Serving

LEMMA EventAdded ==
    ASSUME Conserved, NEW e \in Events, e[1] # "finish", idle' = Append(idle, e),
           UNCHANGED <<command_queue, runs, dc, main_push, issued>>
    PROVE  Placed'
<1> QED BY IdleAppended, QueueSame, RunsSame DEF Typed, TypeOK, Pushing, Serving

\* The request being served ends.
LEMMA ServedEnds ==
    ASSUME Conserved, dc \in Requests, Finish(dc), dc' = None,
           UNCHANGED <<command_queue, main_push, issued>>
    PROVE  Placed'
<1>1. Serving = {dc} /\ Serving' = {} BY Marks DEF Serving
<1>2. /\ Finishing' \cup freed' = Finishing \cup freed \cup {dc}
      /\ Finishing' \cap freed' = {}
      /\ IdleDistinct' /\ RunsOnce'
 BY <1>1, FinishMoves
<1>3. Queued' = Queued /\ QueueDistinct' /\ Pushing' = Pushing BY QueueSame DEF Pushing
<1> QED BY <1>1, <1>2, <1>3

\* The oldest request of the queue ends, is taken up, or was a reset.
LEMMA QueuedEnds ==
    ASSUME Conserved, command_queue # <<>>, command_queue' = Tail(command_queue),
           EndRequest(Head(command_queue)),
           UNCHANGED <<dc, main_push, issued>>
    PROVE  Placed'
<1> DEFINE r == Head(command_queue)
<1>1. /\ r \in Queued \cup {Reset} /\ Queued' = Queued \ {r} /\ QueueDistinct'
      /\ r \in Requests \cup {Reset}
 BY QueueTaken DEF Typed, TypeOK
<1>2. Pushing' = Pushing /\ Serving' = Serving BY DEF Pushing, Serving
<1>3. CASE r = Reset
 <2>1. Finishing' = Finishing /\ IdleDistinct' /\ freed' = freed /\ RunsOnce'
  BY <1>3, IdleSame, RunsSame DEF EndRequest
 <2>2. Queued' = Queued BY <1>1, <1>3 DEF Queued
 <2> QED BY <1>1, <1>2, <2>1, <2>2
<1>4. CASE r # Reset
 <2>1. r \in Queued /\ r \in Requests /\ Finish(r) BY <1>1, <1>4 DEF EndRequest
 <2>2. /\ Finishing' \cup freed' = Finishing \cup freed \cup {r}
       /\ Finishing' \cap freed' = {}
       /\ IdleDistinct' /\ RunsOnce'
  BY <2>1, FinishMoves
 <2> QED BY <1>1, <1>2, <2>1, <2>2
<1> QED BY <1>3, <1>4

LEMMA QueuedServed ==
    ASSUME Conserved, command_queue # <<>>, command_queue' = Tail(command_queue),
           dc = None, dc' = Head(command_queue), dc' \in Requests,
           UNCHANGED <<idle, runs, main_push, issued>>
    PROVE  Placed'
<1> DEFINE r == Head(command_queue)
<1>1. r \in Queued /\ Queued' = Queued \ {r} /\ QueueDistinct'
 BY QueueTaken, Marks DEF Typed, TypeOK
<1>2. Pushing' = Pushing /\ Serving = {} /\ Serving' = {r} BY Marks DEF Pushing, Serving
<1>3. Finishing' = Finishing /\ IdleDistinct' /\ freed' = freed /\ RunsOnce' BY IdleSame, RunsSame
<1> QED BY <1>1, <1>2, <1>3

LEMMA AnsweredConserves ==
    ASSUME Conserved, dc \in Requests, NEW t \in BOOLEAN, Answered(t),
           UNCHANGED <<command_queue, main_push, issued>>
    PROVE  Placed'
  BY ServedEnds, NothingMoved DEF Answered, Complete, Ask

LEMMA FailedConserves ==
    Conserved /\ dc \in Requests /\ Failed
      /\ UNCHANGED <<command_queue, main_push, issued>> => Placed'
  BY ServedEnds, NothingMoved, Marks DEF Failed, Ask, EndRequest

LEMMA ThreadConserves == Conserved /\ Running /\ Thread => Placed'
<1> SUFFICES ASSUME Conserved, Running, Thread PROVE Placed' OBVIOUS
<1> USE DEF mainVars, threadVars, exchangeUnchanged
<1>0. pc \in ServePcs => dc \in Requests BY DEF Typed, TypeOK, InHand
<1>1. CASE ArgsTimeout \/ ConnectOk \/ SetConnected \/ CheckConnection \/ Close
           \/ SetDisconnected \/ ReadStatus
 BY <1>1, NothingMoved DEF ArgsTimeout, ConnectOk, SetConnected,
    SetDisconnected, SetConnectedState, CheckConnection, Close, ReadStatus
<1>2. CASE ConnectFail
 <2>1. <<"attempt", connection_attempts>> \in Events BY EventTypes DEF Typed, TypeOK
 <2> QED BY <1>2, <2>1, EventAdded DEF ConnectFail
<1>3. CASE AddOnConnect \/ AddOnDisconnect
 BY <1>3, EventAdded, EventTypes DEF AddOnConnect, AddOnDisconnect, AddConnectionEvent
<1>4. CASE Pop
 <2> DEFINE r == Head(command_queue)
 <2>1. dc = None BY <1>4 DEF Pop, Typed, InHand, ServePcs, ReadPcs
 <2>2. CASE r = Reset /\ UNCHANGED <<dc, idle, runs>> BY <1>4, <2>2, QueuedEnds DEF Pop, EndRequest
 <2>3. CASE dc' = r /\ r \in Requests /\ UNCHANGED <<idle, runs>>
  BY <1>4, <2>1, <2>3, QueuedServed DEF Pop
 <2>4. CASE r \in Requests /\ Finish(r) /\ UNCHANGED dc
  BY <1>4, <2>4, QueuedEnds, Marks DEF Pop, EndRequest
 <2> QED BY <1>4, <2>2, <2>3, <2>4, Parts DEF Pop
<1>5. CASE Drain BY <1>5, QueuedEnds DEF Drain
<1>6. CASE Send BY <1>0, <1>6, FailedConserves, NothingMoved DEF Send, ServePcs
<1>7. CASE TooManyArgs \/ ReadEof \/ ReadTimeout
 BY <1>0, <1>7, FailedConserves
    DEF TooManyArgs, ReadEof, ReadTimeout, GiveUp, ServePcs, ReadPcs
<1>8. CASE ReadArg
 BY <1>0, <1>8, FailedConserves, AnsweredConserves, NothingMoved
    DEF ReadArg, EndOfReply, GiveUp, ServePcs, ReadPcs
<1>9. CASE ReadErrors
 BY <1>0, <1>9, AnsweredConserves, NothingMoved
    DEF ReadErrors, EndOfReply, ServePcs, ReadPcs
<1> QED BY <1>1, <1>2, <1>3, <1>4, <1>5, <1>6, <1>7, <1>8, <1>9 DEF Thread

LEMMA MainConserves == Conserved /\ Main => Placed'
<1> SUFFICES ASSUME Conserved, Main PROVE Placed' OBVIOUS
<1> USE DEF threadVars
<1>1. ASSUME NEW r \in Requests, AtLoop, main_push' = r, r \notin issued,
             issued' = issued \cup {r}, UNCHANGED <<command_queue, idle, runs, dc>>
      PROVE  Placed'
 <2>1. Pushing = {} /\ Pushing' = {r} /\ Serving' = Serving
  BY <1>1, Marks DEF AtLoop, Pushing, Serving
 <2> QED BY <1>1, <2>1, QueueSame, IdleSame, RunsSame
<1>2. CASE \E r \in FileRequests : RequestFileInfo(r)
 BY <1>1, <1>2, Parts DEF RequestFileInfo, Decide
<1>3. CASE \E r \in GeneralRequests : RequestGeneral(r)
 BY <1>1, <1>3, Parts DEF RequestGeneral, Decide
<1>4. CASE ForceReconnect
 <2>1. Pushing = {} /\ Pushing' = {} /\ Serving' = Serving
  BY <1>4 DEF ForceReconnect, Decide, AtLoop, Pushing, Serving
 <2> QED BY <1>4, <2>1, QueueSame, IdleSame, RunsSame DEF ForceReconnect, Decide
<1>5. CASE Request
 <2>1. /\ Queued' = Queued \cup ({main_push} \ {Reset})
       /\ main_push \notin Queued => QueueDistinct'
  BY <1>5, QueueAppended DEF Request, Typed, TypeOK
 <2>2. Pushing = {main_push} \ {Reset} /\ Pushing' = {} /\ Serving' = Serving
  BY <1>5 DEF Request, Pushing, Serving
 <2>3. main_push \notin Queued BY <2>2 DEF Queued
 <2>4. /\ Finishing' = Finishing /\ IdleDistinct'
       /\ freed' = freed /\ RunsOnce' /\ issued' = issued
  BY <1>5, IdleSame, RunsSame DEF Request
 <2> QED BY <2>1, <2>2, <2>3, <2>4
<1>6. CASE Dispatch
 <2> DEFINE e == Head(idle)
 <2>1. /\ IdleDistinct'
       /\ e[1] # "finish" => Finishing' = Finishing
       /\ e[1] = "finish" => e[2] \in Finishing /\ Finishing' = Finishing \ {e[2]}
  BY <1>6, IdleTaken DEF Dispatch, Typed, TypeOK
 <2>2. RunsOnce' /\ freed' = IF e[1] = "finish" THEN freed \cup {e[2]} ELSE freed
  <3>1. CASE e[1] = "finish"
   <4>1. e[2] \in Finishing /\ e[2] \in Requests /\ e[2] \notin freed BY <2>1, <3>1 DEF Finishing
   <4>2. runs' = [runs EXCEPT ![e[2]] = @ + 1] BY <1>6, <3>1 DEF Dispatch
   <4> QED BY <3>1, <4>1, <4>2, RunsAdded DEF Typed, TypeOK
  <3>2. CASE e[1] # "finish" BY <1>6, <3>2, RunsSame DEF Dispatch
  <3> QED BY <3>1, <3>2
 <2>3. /\ Queued' = Queued /\ QueueDistinct'
       /\ Pushing' = Pushing /\ Serving' = Serving /\ issued' = issued
  BY <1>6, QueueSame DEF Dispatch, Pushing, Serving
 <2>4. CASE e[1] = "finish" BY <2>1, <2>2, <2>3, <2>4
 <2>5. CASE e[1] # "finish" BY <2>1, <2>2, <2>3, <2>5
 <2> QED BY <2>4, <2>5
<1> QED BY <1>2, <1>3, <1>4, <1>5, <1>6 DEF Main

LEMMA ConservedInit == Init => Conserved
<1> SUFFICES ASSUME Init PROVE Conserved OBVIOUS
<1>1. Typed BY TypedInit
<1>2. /\ Pushing = {} /\ Queued = {} /\ Serving = {} /\ Finishing = {}
      /\ freed = {} /\ QueueDistinct /\ IdleDistinct /\ RunsOnce
 BY DEF Init, Pushing, Queued, Serving, Finishing, freed, QueueDistinct, IdleDistinct, RunsOnce
<1> QED BY <1>1, <1>2 DEF Init

LEMMA ConservedNext == Conserved /\ [Next]_vars => Conserved'
<1> SUFFICES ASSUME Conserved, [Next]_vars PROVE Placed' BY TypedNext
<1>1. CASE Running /\ Thread BY <1>1, ThreadConserves
<1>2. CASE Main BY <1>2, MainConserves
<1>3. CASE Daemon
 BY <1>3, NothingMoved
    DEF Daemon, DaemonAnswer, DaemonWrite, DaemonClose, clientUnchanged, threadVars, mainVars
<1>4. CASE UNCHANGED vars BY <1>4, NothingMoved DEF vars, threadVars, mainVars
<1> QED BY <1>1, <1>2, <1>3, <1>4 DEF Next, Crashed

LEMMA ConservedAlways == Spec => []Conserved
  BY ConservedInit, ConservedNext, PTL DEF Spec

\* No request is lost: whatever fails, it is in the queue, in the thread, on
\* its way back to the main loop, or answered.
THEOREM NoRequestLost == Spec => []NothingLost
  BY ConservedAlways, PTL

\* No request is answered twice, or used after its handler freed it.
THEOREM NoRequestTwice == Spec => []NothingTwice
  BY ConservedAlways, PTL
----
(* The command client implements the request service: a step issues one request, answers one, or
   does neither. *)
ServiceStep == [Service!Next]_(Service!vars)


LEMMA AnswerStep ==
    ASSUME Conserved, NEW r \in Queued \cup Serving \cup Finishing, r \in Requests,
           runs' = [runs EXCEPT ![r] = @ + 1], issued' = issued
    PROVE  ServiceStep
<1> DEFINE answers == [q \in Requests |-> runs[q]]
<1>1. r \in issued /\ r \notin freed OBVIOUS
<1>2. runs[r] = 0 BY <1>1 DEF freed, Typed, TypeOK
<1>3. answers' = [answers EXCEPT ![r] = 1]
 <2>1. \A q \in Requests : runs'[q] = IF q = r THEN 1 ELSE runs[q] BY <1>2 DEF Typed, TypeOK
 <2> QED BY <2>1
<1> QED BY <1>1, <1>2, <1>3 DEF ServiceStep, Service!Next, Service!Answer

LEMMA NoAnswerStep == UNCHANGED <<runs, issued>> => ServiceStep
  BY DEF ServiceStep, Service!vars

LEMMA EndStep ==
    ASSUME Conserved, NEW r \in (Queued \cup Serving) \cap Requests,
           EndRequest(r) \/ Finish(r), issued' = issued
    PROVE  ServiceStep
<1>1. r # Reset BY Marks
<1> QED BY <1>1, AnswerStep, NoAnswerStep DEF EndRequest, Finish

LEMMA ThreadService == Conserved /\ Running /\ Thread => ServiceStep
<1> SUFFICES ASSUME Conserved, Running, Thread PROVE ServiceStep OBVIOUS
<1> USE DEF mainVars, threadVars, exchangeUnchanged
<1>1. pc \in ServePcs => dc \in Serving \cap Requests BY Marks DEF Typed, TypeOK, InHand, Serving
<1>2. issued' = issued
 BY DEF Thread, ArgsTimeout, ConnectFail, ConnectOk, SetConnected, SetConnectedState,
    AddOnConnect, AddConnectionEvent, Pop, CheckConnection, Drain, Close,
    SetDisconnected, AddOnDisconnect, Send, ReadStatus, TooManyArgs, ReadArg,
    ReadErrors, ReadEof, ReadTimeout
<1>3. ASSUME UNCHANGED runs PROVE ServiceStep BY <1>2, <1>3, NoAnswerStep
<1>4. CASE ArgsTimeout \/ ConnectFail \/ ConnectOk \/ SetConnected \/ AddOnConnect
           \/ CheckConnection \/ Close \/ SetDisconnected \/ AddOnDisconnect \/ ReadStatus
 BY <1>3, <1>4 DEF ArgsTimeout, ConnectFail, ConnectOk, SetConnected, SetConnectedState,
    AddOnConnect, AddConnectionEvent, CheckConnection, Close, SetDisconnected,
    AddOnDisconnect, ReadStatus
<1>5. ASSUME command_queue # <<>>, Head(command_queue) # Reset
      PROVE  Head(command_queue) \in (Queued \cup Serving) \cap Requests
 <2>1. command_queue[1] \in Queued /\ Head(command_queue) = command_queue[1]
  BY <1>5 DEF Queued, Typed, TypeOK
 <2> QED BY <1>5, <2>1 DEF Typed, TypeOK
<1>6. CASE Pop
 <2>1. CASE Head(command_queue) = Reset BY <1>3, <1>6, <2>1, Marks, Parts DEF Pop
 <2>2. CASE Head(command_queue) # Reset BY <1>2, <1>3, <1>5, <1>6, <2>2, EndStep DEF Pop
 <2> QED BY <2>1, <2>2
<1>7. CASE Drain
 <2>1. CASE Head(command_queue) = Reset BY <1>3, <1>7, <2>1 DEF Drain, EndRequest
 <2>2. CASE Head(command_queue) # Reset BY <1>2, <1>5, <1>7, <2>2, EndStep DEF Drain
 <2> QED BY <2>1, <2>2
<1>8. ASSUME dc \in Serving \cap Requests, Failed PROVE ServiceStep
 BY <1>2, <1>3, <1>8, EndStep DEF Failed, Ask
<1>9. ASSUME dc \in Serving \cap Requests, NEW t \in BOOLEAN, Answered(t) PROVE ServiceStep
 BY <1>2, <1>3, <1>9, EndStep DEF Answered, Ask, Complete
<1>10. CASE Send BY <1>1, <1>3, <1>8, <1>10 DEF Send, ServePcs
<1>11. CASE TooManyArgs \/ ReadEof \/ ReadTimeout
 BY <1>1, <1>8, <1>11 DEF TooManyArgs, ReadEof, ReadTimeout, GiveUp, ServePcs, ReadPcs
<1>12. CASE ReadArg \/ ReadErrors
 BY <1>1, <1>3, <1>8, <1>9, <1>12
    DEF ReadArg, ReadErrors, EndOfReply, GiveUp, ServePcs, ReadPcs
<1> QED BY <1>4, <1>6, <1>7, <1>10, <1>11, <1>12 DEF Thread

LEMMA MainService == Conserved /\ Main => ServiceStep
<1> SUFFICES ASSUME Conserved, Main PROVE ServiceStep OBVIOUS
<1>1. CASE \E r \in FileRequests : RequestFileInfo(r)
 BY <1>1, Parts DEF RequestFileInfo, Decide, ServiceStep, Service!vars, Service!Next, Service!Issue
<1>2. CASE \E r \in GeneralRequests : RequestGeneral(r)
 BY <1>2, Parts DEF RequestGeneral, Decide, ServiceStep, Service!vars, Service!Next, Service!Issue
<1>3. CASE ForceReconnect \/ Request BY <1>3, NoAnswerStep DEF ForceReconnect, Decide, Request
<1>4. CASE Dispatch
 <2>1. issued' = issued BY <1>4 DEF Dispatch
 <2>2. CASE Head(idle)[1] = "finish"
  <3>1. Head(idle)[2] \in Finishing BY <1>4, <2>2, IdleTaken DEF Dispatch, Typed, TypeOK
  <3>2. Head(idle)[2] \in Requests BY <3>1 DEF Finishing
  <3>3. runs' = [runs EXCEPT ![Head(idle)[2]] = @ + 1] BY <1>4, <2>2 DEF Dispatch
  <3> QED BY <2>1, <3>1, <3>2, <3>3, AnswerStep
 <2>3. CASE Head(idle)[1] # "finish" BY <1>4, <2>1, <2>3, NoAnswerStep DEF Dispatch
 <2> QED BY <2>2, <2>3
<1> QED BY <1>1, <1>2, <1>3, <1>4 DEF Main

LEMMA NextService == Conserved /\ [Next]_vars => ServiceStep
<1>1. Conserved /\ Daemon => ServiceStep
 BY NoAnswerStep
    DEF Daemon, DaemonAnswer, DaemonWrite, DaemonClose, clientUnchanged, mainVars
<1>2. UNCHANGED vars => ServiceStep BY NoAnswerStep DEF vars, mainVars
<1> QED BY <1>1, <1>2, ThreadService, MainService DEF Next, Crashed

\* The client answers a request at most once, and only one that was issued:
\* it implements RequestService.
THEOREM ImplementsService == Spec => IsRequestService
<1>1. Init => Service!Init BY DEF Init, Service!Init
<1>2. Conserved /\ [Next]_vars => [Service!Next]_(Service!vars) BY NextService DEF ServiceStep
<1> QED BY <1>1, <1>2, ConservedAlways, PTL DEF Spec, IsRequestService, Service!Spec
----
(* A command is answered with its own reply.  While no error of get_emblems was ignored, the
   socket holds nothing but what belongs to the one command in hand: at first the command itself,
   then its reply, and nothing at all once "done" was read. *)

\* The daemon ends a reply with its first "done".
DoneEndsReplies ==
    \A answer \in Replies : \A i \in DOMAIN answer : answer[i] = "done" => i = Len(answer)

Asked == <<dc, command>>
WireEmpty == inbox = <<>> /\ writing = <<>> /\ lines = <<>>

OneReply ==
    /\ \A i \in DOMAIN inbox : inbox[i] = Asked
    /\ \A i \in DOMAIN writing : writing[i].to = Asked
    /\ \A i \in DOMAIN lines : lines[i].to = Asked
    /\ inbox # <<>> => Len(inbox) = 1 /\ writing = <<>> /\ lines = <<>>
    /\ \A i \in DOMAIN writing : writing[i].text = "done" => i = Len(writing)
    /\ \A i \in DOMAIN lines : lines[i].text = "done" => i = Len(lines) /\ writing = <<>>

WireMatches ==
    /\ AnswersMatch
    /\ pc \in ReadPcs => OneReply
    /\ pc \notin ReadPcs \cup {"drain"} => WireEmpty

Matched == ~swallowed => WireMatches

LEMMA MatchedInit == Init => Matched
  BY DEF Init, Matched, WireMatches, AnswersMatch, WireEmpty, ReadPcs

\* What a step of neither the thread's exchange nor the wire keeps.
LEMMA MatchedSame ==
    ASSUME Matched, UNCHANGED <<swallowed, wireVars>>,
           \/ UNCHANGED <<pc, dc, command, reply>>
           \/ pc \notin ReadPcs \cup {"drain"} /\ pc' \notin ReadPcs
    PROVE  Matched'
  BY DEF Matched, WireMatches, AnswersMatch, WireEmpty, OneReply, Asked, wireVars, ReadPcs

\* An error is swallowed or takes the thread out of the exchange.
LEMMA MatchedGiveUp == GiveUp => Matched'
  BY DEF GiveUp, Failed, Ask, Matched, WireMatches, AnswersMatch, ReadPcs

\* A line that was read leaves the rest of the reply.
LEMMA MatchedRead ==
    ASSUME Typed, OneReply, NEW text, ReadLine(text), dc' = dc, command' = command
    PROVE  OneReply' /\ Head(lines).to = Asked
<1>1. /\ lines \in Seq(Line) /\ lines # <<>> /\ lines' = Tail(lines)
      /\ writing' = writing /\ inbox' = inbox
 BY DEF ReadLine, Typed, TypeOK
<1>2. /\ DOMAIN lines = 1..Len(lines) /\ DOMAIN lines' = 1..(Len(lines) - 1)
      /\ Len(lines) \in Nat \ {0} /\ Len(lines') = Len(lines) - 1
      /\ Head(lines) = lines[1]
 BY <1>1
<1>3. \A i \in DOMAIN lines' : i + 1 \in DOMAIN lines /\ lines'[i] = lines[i + 1] BY <1>1, <1>2
<1>4. inbox = <<>> BY <1>1 DEF OneReply
<1> QED BY <1>1, <1>2, <1>3, <1>4 DEF OneReply, Asked

\* "done" was the last line of all.
LEMMA DoneEmpties ==
    ASSUME Typed, OneReply, ReadLine("done")
    PROVE  WireEmpty'
<1>1. /\ lines \in Seq(Line) /\ lines # <<>> /\ lines' = Tail(lines)
      /\ writing' = writing /\ inbox' = inbox
 BY DEF ReadLine, Typed, TypeOK
<1>2. 1 \in DOMAIN lines /\ Head(lines) = lines[1] BY <1>1
<1>3. Len(lines) = 1 /\ writing = <<>> /\ inbox = <<>> BY <1>1, <1>2 DEF OneReply, ReadLine
<1>4. lines' = <<>> BY <1>1, <1>3
<1> QED BY <1>1, <1>3, <1>4 DEF WireEmpty

LEMMA MatchedThread == Typed /\ Matched /\ Thread => Matched'
<1> SUFFICES ASSUME Typed, Matched, Thread PROVE Matched' OBVIOUS
<1>1. CASE ArgsTimeout BY <1>1, MatchedSame DEF ArgsTimeout, threadVars
<1>2. CASE ConnectFail \/ SetConnected \/ AddOnConnect \/ SetDisconnected
           \/ AddOnDisconnect \/ CheckConnection
 BY <1>2, MatchedSame
    DEF ConnectFail, SetConnected, SetDisconnected, SetConnectedState, AddOnConnect,
        AddOnDisconnect, AddConnectionEvent, CheckConnection, ReadPcs
<1>3. CASE ConnectOk BY <1>3 DEF ConnectOk, Matched, WireMatches, WireEmpty, AnswersMatch, ReadPcs
<1>4. CASE Pop
 <2> QED BY <1>4, MatchedSame DEF Pop, ReadPcs
<1>5. CASE Drain BY <1>5, MatchedSame DEF Drain, threadVars
<1>6. CASE Close BY <1>6 DEF Close, Matched, WireMatches, WireEmpty, AnswersMatch, ReadPcs
<1>7. CASE Send
 <2>1. CASE peer = "open"
  <3>1. ~swallowed => WireEmpty BY <1>7 DEF Send, Matched, WireMatches, ReadPcs
  <3>2. /\ inbox' = Append(inbox, Asked) /\ pc' = "status"
        /\ UNCHANGED <<dc, command, writing, lines, swallowed>>
   BY <1>7, <2>1 DEF Send, Asked
  <3>3. ~swallowed => OneReply' BY <3>1, <3>2 DEF WireEmpty, OneReply, Asked
  <3> QED BY <3>2, <3>3 DEF Matched, WireMatches, AnswersMatch, ReadPcs
 <2>2. CASE peer = "closed"
  BY <1>7, <2>2 DEF Send, Failed, Ask, Matched, WireMatches, WireEmpty, AnswersMatch, ReadPcs, wireVars
 <2> QED BY <1>7, <2>1, <2>2 DEF Send
<1>9. CASE TooManyArgs \/ ReadEof \/ ReadTimeout
 BY <1>9, MatchedGiveUp DEF TooManyArgs, ReadEof, ReadTimeout
<1>10. CASE ReadStatus
 <2>1. PICK text \in Lines : ReadLine(text) BY <1>10 DEF ReadStatus
 <2>2. /\ pc \in ReadPcs /\ pc' \in {"args", "errors"} /\ reply' = Head(lines).to
       /\ dc' = dc /\ command' = command /\ swallowed' = swallowed
  BY <1>10 DEF ReadStatus, ReadPcs
 <2>3. ~swallowed => OneReply' /\ reply' = Asked
  BY <2>1, <2>2, MatchedRead DEF Matched, WireMatches
 <2> QED BY <2>2, <2>3 DEF Matched, WireMatches, AnswersMatch, Asked, ReadPcs
<1>11. ASSUME ReadLine("done"), NEW t \in BOOLEAN, EndOfReply(t), pc \in ReadPcs
       PROVE  Matched'
 <2>1. ~swallowed => WireEmpty' BY <1>11, DoneEmpties DEF Matched, WireMatches
 <2>2. pc' \in {"pop", "send"} /\ swallowed' = swallowed
  BY <1>11 DEF EndOfReply, Answered, Ask, Complete
 <2> QED BY <2>1, <2>2 DEF Matched, WireMatches, AnswersMatch, ReadPcs
<1>12. ASSUME NEW text, ReadLine(text), pc \in ReadPcs,
              UNCHANGED <<pc, dc, command, reply, swallowed>>
       PROVE  Matched'
 <2>1. ~swallowed => OneReply' BY <1>12, MatchedRead DEF Matched, WireMatches
 <2> QED BY <1>12, <2>1 DEF Matched, WireMatches, AnswersMatch, ReadPcs
<1>13. CASE ReadArg BY <1>11, <1>12, <1>13, MatchedGiveUp DEF ReadArg, ReadPcs
<1>14. CASE ReadErrors BY <1>11, <1>12, <1>14 DEF ReadErrors, ReadPcs
<1> QED BY <1>1, <1>2, <1>3, <1>4, <1>5, <1>6, <1>7, <1>9, <1>10, <1>13, <1>14 DEF Thread

LEMMA MatchedMain == Matched /\ Main => Matched'
  BY MatchedSame
     DEF Main, RequestFileInfo, RequestGeneral, ForceReconnect, Decide, Request, Dispatch,
         threadVars

\* The daemon takes the command and writes its reply, and adds nothing to it.
LEMMA MatchedAnswer ==
    ASSUME DoneEndsReplies, Typed, OneReply, DaemonAnswer
    PROVE  OneReply'
<1>1. PICK answer \in Replies :
        writing' = [i \in DOMAIN answer |-> [text |-> answer[i], to |-> Head(inbox)]]
 BY DEF DaemonAnswer
<1>2. /\ inbox # <<>> /\ inbox' = Tail(inbox) /\ lines' = lines /\ dc' = dc /\ command' = command
      /\ inbox \in Seq(Questions)
 BY DEF DaemonAnswer, clientUnchanged, threadVars, Typed, TypeOK
<1>3. inbox' = <<>> /\ lines' = <<>> /\ Head(inbox) = Asked BY <1>2 DEF OneReply
<1>4. /\ DOMAIN writing' = DOMAIN answer
      /\ \A i \in DOMAIN writing' : writing'[i].to = Asked /\ writing'[i].text = answer[i]
 BY <1>1, <1>3
<1>5. answer \in Seq(Lines) BY RequestsAssumption
<1>6. writing' \in [1..Len(answer) -> {writing'[i] : i \in DOMAIN answer}] BY <1>1, <1>5
<1>7. Len(writing') = Len(answer) BY <1>5, <1>6, FunctionIsSeq
<1> QED BY <1>2, <1>3, <1>4, <1>7 DEF OneReply, Asked, DoneEndsReplies

LEMMA MatchedWrite ==
    ASSUME Typed, OneReply, DaemonWrite
    PROVE  OneReply'
<1> DEFINE n == Len(lines)
<1>1. /\ writing # <<>> /\ lines' = Append(lines, Head(writing)) /\ writing' = Tail(writing)
      /\ inbox' = inbox /\ dc' = dc /\ command' = command
      /\ lines \in Seq(Line) /\ writing \in Seq(Line)
 BY DEF DaemonWrite, clientUnchanged, threadVars, Typed, TypeOK
<1>2. /\ DOMAIN lines = 1..n /\ DOMAIN lines' = 1..(n + 1) /\ n \in Nat
      /\ lines'[n + 1] = writing[1] /\ Len(lines') = n + 1
      /\ \A i \in DOMAIN lines : lines'[i] = lines[i]
 BY <1>1
<1>3. /\ DOMAIN writing = 1..Len(writing) /\ DOMAIN writing' = 1..(Len(writing) - 1)
      /\ Len(writing) \in Nat \ {0} /\ Len(writing') = Len(writing) - 1
      /\ 1 \in DOMAIN writing
 BY <1>1
<1>4. \A i \in DOMAIN writing' : i + 1 \in DOMAIN writing /\ writing'[i] = writing[i + 1]
 BY <1>1, <1>3
<1>5. inbox' = <<>> BY <1>1 DEF OneReply
<1>6. \A i \in DOMAIN lines' : i \in DOMAIN lines \/ i = n + 1 BY <1>2
<1>7. writing[1].text = "done" => writing' = <<>> BY <1>1, <1>3 DEF OneReply
<1>8. \A i \in DOMAIN lines : lines[i].text # "done" BY <1>1 DEF OneReply
<1>9. \A i \in DOMAIN writing' : writing'[i].text = "done" => i = Len(writing')
 BY <1>3, <1>4 DEF OneReply
<1>10. \A i \in DOMAIN writing' : writing'[i].to = Asked BY <1>4 DEF OneReply
<1>11. \A i \in DOMAIN lines' : lines'[i].to = Asked BY <1>2, <1>3, <1>6 DEF OneReply
<1>12. \A i \in DOMAIN lines' : lines'[i].text = "done" => i = Len(lines') /\ writing' = <<>>
 BY <1>2, <1>6, <1>7, <1>8
<1> QED BY <1>1, <1>5, <1>9, <1>10, <1>11, <1>12 DEF OneReply, Asked

LEMMA MatchedDaemon == DoneEndsReplies /\ Typed /\ Matched /\ Daemon => Matched'
<1> SUFFICES ASSUME DoneEndsReplies, Typed, Matched, Daemon PROVE Matched' OBVIOUS
<1>1. UNCHANGED <<pc, dc, command, reply, swallowed>>
 BY DEF Daemon, DaemonAnswer, DaemonWrite, DaemonClose, clientUnchanged, threadVars
<1>2. CASE swallowed \/ pc = "drain" BY <1>1, <1>2 DEF Matched, WireMatches, AnswersMatch, ReadPcs
<1>3. CASE ~swallowed /\ pc \in ReadPcs
 <2>1. OneReply BY <1>3 DEF Matched, WireMatches
 <2>2. CASE DaemonAnswer \/ DaemonWrite
  BY <1>1, <1>3, <2>1, <2>2, MatchedAnswer, MatchedWrite
     DEF Matched, WireMatches, AnswersMatch, ReadPcs
 <2>3. CASE DaemonClose
  <3>1. OneReply' BY <1>1, <2>1, <2>3 DEF DaemonClose, OneReply, Asked
  <3> QED BY <1>1, <1>3, <3>1 DEF Matched, WireMatches, AnswersMatch, ReadPcs
 <2> QED BY <2>2, <2>3 DEF Daemon
<1>4. CASE ~swallowed /\ pc \notin ReadPcs \cup {"drain"}
 <2>1. WireEmpty BY <1>4 DEF Matched, WireMatches
 <2>2. DaemonClose BY <2>1 DEF Daemon, DaemonAnswer, DaemonWrite, WireEmpty
 <2>3. WireEmpty' BY <2>1, <2>2 DEF DaemonClose, WireEmpty
 <2> QED BY <1>1, <1>4, <2>3 DEF Matched, WireMatches, AnswersMatch, ReadPcs
<1> QED BY <1>2, <1>3, <1>4

LEMMA MatchedNext == DoneEndsReplies /\ Typed /\ Matched /\ [Next]_vars => Matched'
<1> QED
 BY MatchedSame, MatchedThread, MatchedMain, MatchedDaemon DEF vars, threadVars, Next, Crashed

\* As long as no error of get_emblems was ignored on the connection (the NULL error
\* pointer of do_file_info_command), what the thread reads as the answer to a command is
\* the daemon's reply to that command, for every daemon that ends its replies with "done".
THEOREM AnswersAreMatched ==
    ASSUME DoneEndsReplies
    PROVE  Spec => []AnswersMatchUnlessSwallowed
<1>1. Spec => []Typed BY TypedInit, TypedNext, PTL DEF Spec
<1>2. Typed /\ Matched /\ [Next]_vars => Matched' BY MatchedNext
<1>3. Matched => AnswersMatchUnlessSwallowed
 BY DEF Matched, WireMatches, AnswersMatchUnlessSwallowed
<1> QED BY <1>1, <1>2, <1>3, MatchedInit, PTL DEF Spec
====

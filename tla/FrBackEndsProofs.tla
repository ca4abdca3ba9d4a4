---- MODULE FrBackEndsProofs ----
(* Proofs about the process and the back ends: first FrProcess, for scripts of any length made of
   any commands, any exit statuses and any number of character sets; then how all of them write a
   script; then FrTar, for any exit statuses and formats and any number of operations one after
   the other; then FrBackEnds, for any sets of files, destinations, installed programs and back
   ends of the table. *)
EXTENDS FrTar, FrBackEnds, WellFoundedInduction, FiniteSetTheorems, SequenceTheorems, TLAPS

----
(* FrProcess: lemmas about the pieces of the handlers. *)

LEMMA SmallestOf ==
    ASSUME NEW T \in SUBSET Nat, T # {}
    PROVE  \E x \in T : \A y \in T : ~(y < x)
<1>1. PICK x \in T : \A y \in T : ~(<<y, x>> \in OpToRel(<, Nat)) BY NatLessThanWellFounded, WFMin
<1>2. \A y \in T : y < x => <<y, x>> \in OpToRel(<, Nat) BY DEF OpToRel
<1> QED BY <1>1, <1>2

\* There is always a next command, be it the end of the script; those it skips are
\* not sticky, and none is skipped before a failure.
LEMMA NextCommandChosen ==
    ASSUME comm \in Seq(CommandInfo), current_command \in DOMAIN comm, NEW sticky \in BOOLEAN
    PROVE  /\ NextCommand(sticky) \in current_command + 1 .. Len(comm) + 1
           /\ NextCommand(sticky) = Len(comm) + 1 \/ ~sticky \/ comm[NextCommand(sticky)].sticky
           /\ \A j \in current_command + 1 .. NextCommand(sticky) - 1 :
                  sticky /\ ~comm[j].sticky
<1> DEFINE Runs(i) == i = Len(comm) + 1 \/ ~sticky \/ comm[i].sticky
           T == {i \in current_command + 1 .. Len(comm) + 1 : Runs(i)}
<1>1. Len(comm) + 1 \in T /\ T \in SUBSET Nat OBVIOUS
<1>2. PICK x \in T : \A y \in T : ~(y < x) BY <1>1, SmallestOf
<1>3. \A j \in current_command + 1 .. x - 1 : sticky /\ ~comm[j].sticky
 <2> TAKE j \in current_command + 1 .. x - 1
 <2>1. j \in current_command + 1 .. Len(comm) + 1 /\ j < x /\ j # Len(comm) + 1 BY <1>1, <1>2
 <2>2. j \notin T BY <1>2, <2>1
 <2> QED BY <2>1, <2>2
<1>4. /\ x \in current_command + 1 .. Len(comm) + 1
      /\ x = Len(comm) + 1 \/ ~sticky \/ comm[x].sticky
 BY <1>2
<1> HIDE DEF T, Runs
<1> QED BY <1>3, <1>4 DEF NextCommand

LEMMA ErrorOf ==
    ASSUME NEW t \in ErrorTypes, NEW n \in 0 .. 255
    PROVE  [type |-> t, status |-> n] \in Errors
  BY DEF Errors

LEMMA ErrorWithType ==
    ASSUME NEW e \in Errors, NEW t \in ErrorTypes
    PROVE  /\ [e EXCEPT !.type = t] \in Errors
           /\ [e EXCEPT !.type = t].type = t
           /\ [e EXCEPT !.type = t].status = e.status
  BY DEF Errors

LEMMA ErrorsOf ==
    /\ [type |-> "NONE", status |-> 0] \in Errors
    /\ [type |-> "BAD_CHARSET", status |-> 0] \in Errors
    /\ [type |-> "IO_CHANNEL", status |-> 0] \in Errors
    /\ [type |-> "EXITED_ABNORMALLY", status |-> 255] \in Errors
<1>1. 0 \in 0 .. 255 /\ 255 \in 0 .. 255 OBVIOUS
<1>2. {"NONE", "BAD_CHARSET", "IO_CHANNEL", "EXITED_ABNORMALLY"} \subseteq ErrorTypes
 BY DEF ErrorTypes
<1> QED BY <1>1, <1>2, ErrorOf, Zenon

LEMMA NoErrorTyped == NoError \in Errors
  BY ErrorsOf DEF NoError

LEMMA InfoTyped ==
    ASSUME comm \in Seq(CommandInfo), current_command \in DOMAIN comm
    PROVE  Info \in CommandInfo /\ Info.sticky \in BOOLEAN /\ Info.op \in Ops
<1>1. Info \in CommandInfo BY DEF Info
<1> QED BY <1>1 DEF CommandInfo

\* The error that a command leaves behind.
After(channel) == GzipContinue(CommandError(channel))

LEMMA AfterTyped ==
    ASSUME TypeOK, check_timeout, NEW channel \in {"ok", "illegal", "io_error"},
           channel = "ok" => child # Running
    PROVE  After(channel) \in Errors
<1>1. child \in ExitCodes \/ child = Running BY DEF TypeOK
<1>2. CommandError(channel) \in Errors
 <2>1. CASE channel \in {"illegal", "io_error"} BY <2>1, ErrorsOf DEF CommandError
 <2>2. CASE channel = "ok" /\ (Info.ignore_error \/ error.type = "STOPPED")
  BY <2>2, ErrorWithType DEF CommandError, ErrorTypes, TypeOK
 <2>3. CASE channel = "ok" /\ ~Info.ignore_error /\ error.type # "STOPPED"
  <3>1. CommandError(channel) = StatusError(error, child) BY <2>3 DEF CommandError
  <3>2. child \in 0 .. 255 \/ child = Killed BY <1>1, <2>3, ConstantsAssumption
  <3>3. CASE child \in {Killed, 0, 255}
   <4>1. StatusError(error, child) \in
             {[type |-> "EXITED_ABNORMALLY", status |-> 255],
              [error EXCEPT !.type = "NONE"], [error EXCEPT !.type = "COMMAND_NOT_FOUND"]}
    BY <3>3, ConstantsAssumption DEF StatusError
   <4>2. error \in Errors /\ "NONE" \in ErrorTypes /\ "COMMAND_NOT_FOUND" \in ErrorTypes
    BY DEF TypeOK, ErrorTypes
   <4>3. /\ [error EXCEPT !.type = "NONE"] \in Errors
         /\ [error EXCEPT !.type = "COMMAND_NOT_FOUND"] \in Errors
    BY <4>2, ErrorWithType
   <4> QED BY <3>1, <4>1, <4>3, ErrorsOf
  <3>4. CASE child \in 0 .. 255 \ {Killed, 0, 255}
   <4>1. StatusError(error, child) = [type |-> "COMMAND_ERROR", status |-> child]
    BY <3>4 DEF StatusError
   <4>2. child \in 0 .. 255 /\ "COMMAND_ERROR" \in ErrorTypes BY <3>4 DEF ErrorTypes
   <4> QED BY <3>1, <4>1, <4>2, ErrorOf, Zenon
  <3> QED BY <3>2, <3>3, <3>4
 <2> QED BY <2>1, <2>2, <2>3
<1> QED BY <1>2, NoErrorTyped DEF After, GzipContinue

\* A status that no failure of this operation left does not come from nowhere, and
\* a pending stop survives a command whose errors count.
LEMMA AfterStatus ==
    ASSUME TypeOK, check_timeout, NEW channel \in {"ok", "illegal", "io_error"},
           channel = "ok" => child # Running
    PROVE  /\ After(channel).status # 0 /\ After(channel).type = "NONE" => error.status # 0
           /\ error.type = "STOPPED" /\ error.status = 0 /\ ~Info.ignore_error =>
                  After(channel).type # "NONE"
<1>1. child \in ExitCodes \/ child = Running BY DEF TypeOK
<1>2. /\ error \in Errors
      /\ channel = "ok" => child \in 0 .. 255 \/ child = Killed
 BY <1>1, ConstantsAssumption DEF TypeOK
<1>3. /\ CommandError(channel).status # 0 /\ CommandError(channel).type = "NONE" =>
             error.status # 0
      /\ error.type = "STOPPED" /\ error.status = 0 /\ ~Info.ignore_error =>
             CommandError(channel).type # "NONE" /\ CommandError(channel).status = 0
 <2>1. CASE channel \in {"illegal", "io_error"} BY <2>1 DEF CommandError
 <2>2. CASE channel = "ok" /\ (Info.ignore_error \/ error.type = "STOPPED")
  BY <1>2, <2>2 DEF CommandError, Errors
 <2>3. CASE channel = "ok" /\ ~Info.ignore_error /\ error.type # "STOPPED"
  <3>1. CommandError(channel) = StatusError(error, child) BY <2>3 DEF CommandError
  <3>2. StatusError(error, child).status # 0 /\ StatusError(error, child).type = "NONE" =>
            error.status # 0
   BY <1>2, <2>3, ConstantsAssumption DEF StatusError, Errors
  <3> QED BY <2>3, <3>1, <3>2
 <2> QED BY <2>1, <2>2, <2>3
<1> QED BY <1>3 DEF After, GzipContinue, NoError

----
(* The inductive invariant.  While an operation runs: only sticky commands are left to run
   exactly after a failure, which is the one remembered; a status that is not 0 is that of a
   failure; and the sticky commands that the script has come past have been started. *)

Tracked ==
    busy => /\ sticky_only <=> first_failure # NoError
            /\ sticky_only => first_error = first_failure
            /\ error.status # 0 => sticky_only
            /\ \A i \in DOMAIN comm : i <= current_command /\ comm[i].sticky => i \in ran

FailuresNoted == first_failure = NoError \/ first_failure.type # "NONE"

Outcome == StickyCommandsRunUnlessCut /\ FirstErrorReported /\ ReadyWhenIdle

IInv == TypeOK /\ Tracked /\ FailuresNoted /\ Outcome

LEMMA IInvInit == Init => IInv
<1> SUFFICES ASSUME Init PROVE IInv OBVIOUS
<1>1. TypeOK
 <2>1. current_charset \in -1 .. NCharsets - 1 BY ConstantsAssumption DEF Init
 <2>2. comm \in Seq(CommandInfo) BY DEF Init
 <2>3. check_timeout = FALSE /\ child = NoChild /\ busy = FALSE BY DEF Init
 <2> QED BY <2>1, <2>2, <2>3, NoErrorTyped DEF Init, TypeOK
<1>2. Tracked /\ FailuresNoted /\ Outcome
 BY DEF Init, Tracked, FailuresNoted, Outcome, StickyCommandsRunUnlessCut,
        StickyCommandsRun, FirstErrorReported, ReadyWhenIdle, NoError
<1> QED BY <1>1, <1>2 DEF IInv

\* Whoever starts a script, the first time or again.
LEMMA StartStep ==
    ASSUME IInv, NEW script \in Seq(CommandInfo), NEW spawned \in BOOLEAN,
           Start(script, spawned), comm' = script,
           restart' \in BOOLEAN, restart' => spawned,
           script = <<>> => child = NoChild /\ ~restart',
           current_charset' \in -1 .. NCharsets - 1, orphans' \subseteq Ops,
           UNCHANGED first_error
    PROVE  IInv'
<1>1. script \in Seq(CommandInfo) OBVIOUS
<1>2. NoError \in Errors /\ [NoError EXCEPT !.type = "SPAWN"] \in Errors
 BY NoErrorTyped, ErrorWithType DEF ErrorTypes
<1>3. Running # NoChild BY ConstantsAssumption
<1>4. CASE script = <<>>
 <2>1. TypeOK'
  <3>1. UNCHANGED <<child, check_timeout, spawn_failed>> /\ ~busy' /\ child = NoChild
   BY <1>4 DEF Start
  <3>2. /\ current_command' = 1 /\ running' = FALSE /\ error' = NoError
        /\ sticky_only' = FALSE /\ stopping' = FALSE /\ ran' = {}
        /\ first_failure' = NoError /\ cut_short' = FALSE /\ busy' = FALSE
   BY <1>4 DEF Start
  <3> QED BY <1>1, <1>2, <3>1, <3>2 DEF IInv, TypeOK
 <2>2. (Tracked /\ FailuresNoted /\ Outcome)'
  BY <1>4 DEF Start, Tracked, FailuresNoted, Outcome, StickyCommandsRunUnlessCut,
              StickyCommandsRun, FirstErrorReported, ReadyWhenIdle, NoError
 <2> QED BY <2>1, <2>2 DEF IInv
<1>5. CASE script # <<>>
 <2> USE <1>5
 <2>1. 1 \in DOMAIN script BY <1>1
 <2>2. TypeOK'
  <3>1. /\ sticky_only' = FALSE /\ stopping' = FALSE
        /\ first_failure' = NoError /\ cut_short' = FALSE
        /\ current_command' = 1 /\ running' = TRUE
   BY DEF Start, StartCurrentCommand
  <3>2. CASE spawned
   <4>1. /\ ran' = {1} /\ child' = Running /\ check_timeout' = TRUE
         /\ error' = NoError /\ busy' = TRUE /\ UNCHANGED spawn_failed
    BY <3>2 DEF Start, StartCurrentCommand
   <4>2. /\ check_timeout' <=> child' # NoChild
         /\ check_timeout' <=> busy'
         /\ busy' => running' /\ current_command' \in DOMAIN comm' /\ current_command' \in ran'
    BY <1>3, <2>1, <3>1, <4>1
   <4>3. /\ ran' \subseteq Nat /\ current_command' \in Nat
         /\ comm' \in Seq(CommandInfo) /\ child' \in {NoChild, Running} \cup ExitCodes
         /\ error' \in Errors /\ first_failure' \in Errors /\ busy' \in BOOLEAN
    BY <1>1, <1>2, <3>1, <4>1
   <4> QED BY <3>1, <4>1, <4>2, <4>3 DEF IInv, TypeOK
  <3>3. CASE ~spawned
   <4>1. /\ ran' = {} /\ child' = NoChild /\ check_timeout' = FALSE
         /\ error' = [NoError EXCEPT !.type = "SPAWN"] /\ busy' = FALSE
         /\ spawn_failed' = TRUE
    BY <3>3 DEF Start, StartCurrentCommand
   <4> QED BY <1>1, <1>2, <3>1, <4>1 DEF IInv, TypeOK
  <3> QED BY <3>2, <3>3
 <2>3. Tracked' /\ FailuresNoted'
  BY <1>1 DEF Start, StartCurrentCommand, Tracked, FailuresNoted, NoError
 <2>4. busy' \/ spawn_failed' BY DEF Start, StartCurrentCommand
 <2>5. Outcome'
  BY <2>4 DEF Outcome, StickyCommandsRunUnlessCut, StickyCommandsRun,
              FirstErrorReported, ReadyWhenIdle
 <2> QED BY <2>2, <2>3, <2>5 DEF IInv
<1> QED BY <1>4, <1>5

LEMMA RequestStep ==
    ASSUME IInv, NEW script \in Seq(CommandInfo), NEW spawned \in BOOLEAN, Request(script, spawned)
    PROVE  IInv'
<1>1. CASE running
 <2>1. script \in Seq(CommandInfo) OBVIOUS
 <2>2. ~busy /\ spawn_failed BY <1>1 DEF Request, IInv, Outcome, ReadyWhenIdle
 <2>3. TypeOK' BY <1>1, <2>1, <2>2 DEF Request, IInv, TypeOK, ghosts
 <2>4. (Tracked /\ FailuresNoted /\ Outcome)'
  BY <1>1, <2>2 DEF Request, IInv, Tracked, FailuresNoted, Outcome,
        StickyCommandsRunUnlessCut, FirstErrorReported, ReadyWhenIdle, ghosts
 <2> QED BY <2>3, <2>4 DEF IInv
<1>2. CASE ~running
 <2>1. child = NoChild /\ NCharsets \in Nat \ {0} /\ orphans \subseteq Ops
  BY ConstantsAssumption DEF Request, IInv, TypeOK
 <2>2. -1 \in -1 .. NCharsets - 1 BY <2>1
 <2>3. /\ comm' = script /\ current_charset' = -1 /\ restart' = FALSE
       /\ Start(script, spawned) /\ UNCHANGED <<first_error, orphans>>
  BY <1>2 DEF Request
 <2> QED BY <2>1, <2>2, <2>3, StartStep
<1> QED BY <1>1, <1>2

LEMMA ForgetTyped ==
    ASSUME TypeOK, check_timeout, Forget
    PROVE  orphans' \subseteq Ops
  BY InfoTyped DEF TypeOK, Forget

LEMMA TryAnotherCharsetStep ==
    ASSUME IInv, NEW spawned \in BOOLEAN, TryAnotherCharset(spawned)
    PROVE  IInv'
<1>1. TypeOK /\ check_timeout /\ busy /\ comm # <<>> /\ comm \in Seq(CommandInfo)
 BY DEF IInv, TypeOK, TryAnotherCharset
<1>2. orphans' \subseteq Ops BY <1>1, ForgetTyped DEF TryAnotherCharset
<1>3. current_charset' \in -1 .. NCharsets - 1
 BY <1>1, ConstantsAssumption DEF TryAnotherCharset, TypeOK
<1> QED BY <1>1, <1>2, <1>3, StartStep DEF TryAnotherCharset

LEMMA StopStep == IInv /\ Stop => IInv'
<1> SUFFICES ASSUME IInv, Stop PROVE IInv' OBVIOUS
<1> DEFINE stop_error == [error EXCEPT !.type = "STOPPED"]
<1>1. /\ busy /\ TypeOK /\ Tracked /\ FailuresNoted
      /\ stop_error \in Errors /\ stop_error # NoError /\ stop_error.type = "STOPPED"
      /\ stop_error.status = error.status
 <2>1. busy /\ TypeOK /\ Tracked /\ FailuresNoted BY DEF IInv, Stop
 <2>2. error \in Errors /\ "STOPPED" \in ErrorTypes BY <2>1 DEF TypeOK, ErrorTypes
 <2> QED BY <2>1, <2>2, ErrorWithType DEF NoError
<1>2. (first_failure' = IF Info.sticky /\ first_failure = NoError THEN stop_error ELSE first_failure)
      /\ (first_error' = IF Info.sticky /\ ~sticky_only THEN stop_error ELSE first_error)
      /\ (sticky_only' = (sticky_only \/ Info.sticky))
 BY <1>1 DEF Stop, NoteFailure, RememberFirst, TypeOK, Tracked
<1>3. UNCHANGED <<comm, current_command, running, restart, current_charset, child,
                  check_timeout, orphans, busy, ran, cut_short, spawn_failed>>
      /\ stopping' = TRUE /\ error' = stop_error
 BY DEF Stop
<1> HIDE DEF stop_error
<1>4. Info.sticky \in BOOLEAN BY <1>1, InfoTyped DEF TypeOK
<1>5. TypeOK' BY <1>1, <1>2, <1>3, <1>4 DEF TypeOK
<1>6. Tracked' /\ FailuresNoted' BY <1>1, <1>2, <1>3 DEF Tracked, FailuresNoted
<1>7. Outcome'
 BY <1>1, <1>3 DEF Outcome, StickyCommandsRunUnlessCut, StickyCommandsRun,
                   FirstErrorReported, ReadyWhenIdle
<1> QED BY <1>5, <1>6, <1>7 DEF IInv

\* The outcomes of check_child: the operation is over, or a command is started.
LEMMA FinishStep ==
    ASSUME IInv, NEW e \in Errors, NEW only_sticky \in BOOLEAN, NEW first \in Errors,
           Finish(e, only_sticky, first), NoteFailure(e), orphans' \subseteq Ops,
           cut_short' \in BOOLEAN,
           \/ cut_short'
           \/ \A i \in DOMAIN comm : comm[i].sticky => i \in ran,
           IF only_sticky THEN first.type = first_failure'.type
                          ELSE (first_failure' = NoError /\ e.type = "NONE") \/ first_failure' = e
    PROVE  IInv'
<1>1. /\ current_command' = 0 /\ running' = FALSE /\ stopping' = FALSE
      /\ sticky_only' = only_sticky /\ first_error' = first
      /\ error' = IF only_sticky THEN first ELSE e
      /\ child' = NoChild /\ check_timeout' = FALSE /\ busy' = FALSE /\ restart' = FALSE
      /\ UNCHANGED <<comm, current_charset, ran, spawn_failed>>
 BY DEF Finish
<1>2. TypeOK /\ FailuresNoted BY DEF IInv
<1>3. first_failure' \in Errors /\ FailuresNoted' BY <1>2 DEF NoteFailure, TypeOK, FailuresNoted
<1>4. TypeOK' BY <1>1, <1>2, <1>3 DEF TypeOK
<1>5. Tracked' BY <1>1 DEF Tracked
<1>6. Outcome'
 BY <1>1 DEF Outcome, StickyCommandsRunUnlessCut, StickyCommandsRun, FirstErrorReported,
             ReadyWhenIdle, NoError
<1> QED BY <1>3, <1>4, <1>5, <1>6 DEF IInv

LEMMA NextStep ==
    ASSUME IInv, check_timeout, NEW e \in Errors, NEW only_sticky \in BOOLEAN,
           NEW first \in Errors, NEW next \in DOMAIN comm, NEW spawned \in BOOLEAN,
           StartCurrentCommand(comm, next, e, spawned),
           sticky_only' = only_sticky, first_error' = first,
           restart' = (restart /\ spawned),
           ran' = IF spawned THEN ran \cup {next} ELSE ran,
           UNCHANGED <<comm, stopping, current_charset, cut_short>>,
           NoteFailure(e), orphans' \subseteq Ops,
           only_sticky <=> first_failure' # NoError,
           only_sticky => first = first_failure',
           e.status # 0 => only_sticky,
           \A i \in DOMAIN comm : i < next /\ comm[i].sticky => i \in ran
    PROVE  IInv'
<1>1. TypeOK /\ FailuresNoted /\ busy BY DEF IInv, TypeOK
<1>2. first_failure' \in Errors /\ FailuresNoted' BY <1>1 DEF NoteFailure, TypeOK, FailuresNoted
<1>3. current_command' = next /\ running' = TRUE /\ next \in Nat
 BY <1>1 DEF StartCurrentCommand, TypeOK
<1>4. CASE spawned
 <2>1. /\ child' = Running /\ check_timeout' = TRUE /\ error' = e /\ busy' = TRUE
       /\ UNCHANGED spawn_failed /\ ran' = ran \cup {next} /\ restart' = restart
  BY <1>1, <1>4 DEF StartCurrentCommand, TypeOK
 <2>2. /\ check_timeout' <=> child' # NoChild
       /\ check_timeout' <=> busy'
       /\ busy' => running' /\ current_command' \in DOMAIN comm' /\ current_command' \in ran'
  BY <1>3, <2>1, ConstantsAssumption
 <2>3. TypeOK' BY <1>1, <1>2, <1>3, <2>1, <2>2 DEF TypeOK
 <2>4. Tracked'
  <3>1. \A i \in DOMAIN comm : i <= next /\ comm[i].sticky => i \in ran'
   BY <1>1, <1>3, <2>1 DEF TypeOK
  <3> QED BY <1>3, <2>1, <3>1 DEF Tracked
 <2>5. Outcome'
  BY <2>1 DEF Outcome, StickyCommandsRunUnlessCut, StickyCommandsRun,
              FirstErrorReported, ReadyWhenIdle
 <2> QED BY <1>2, <2>3, <2>4, <2>5 DEF IInv
<1>5. CASE ~spawned
 <2>1. /\ child' = NoChild /\ check_timeout' = FALSE /\ busy' = FALSE
       /\ error' = [e EXCEPT !.type = "SPAWN"]
       /\ spawn_failed' = TRUE /\ ran' = ran /\ restart' = FALSE
  BY <1>5 DEF StartCurrentCommand
 <2>2. error' \in Errors BY <2>1, ErrorWithType DEF ErrorTypes
 <2>3. TypeOK' BY <1>1, <1>2, <1>3, <2>1, <2>2 DEF TypeOK
 <2>4. Tracked' /\ Outcome'
  BY <2>1 DEF Tracked, Outcome, StickyCommandsRunUnlessCut, StickyCommandsRun,
              FirstErrorReported, ReadyWhenIdle
 <2> QED BY <1>2, <2>3, <2>4 DEF IInv
<1> QED BY <1>4, <1>5

LEMMA CheckChildStep ==
    ASSUME IInv, NEW channel \in {"ok", "illegal", "io_error"}, NEW spawned \in BOOLEAN,
           CheckChild(channel, spawned)
    PROVE  IInv'
<1> DEFINE e           == After(channel)
           only_sticky == sticky_only \/ e.type # "NONE"
           first       == IF e.type # "NONE" THEN RememberFirst(e) ELSE first_error
           next        == NextCommand(only_sticky)
<1>1. /\ check_timeout
      /\ channel = "ok" => child # Running
      /\ NoteFailure(e)
      /\ IF ~Continues(e)
         THEN /\ Finish(e, sticky_only, first_error)
              /\ cut_short' = TRUE
         ELSE IF next > Len(comm)
         THEN /\ Finish(e, only_sticky, first)
              /\ UNCHANGED cut_short
         ELSE /\ StartCurrentCommand(comm, next, e, spawned)
              /\ sticky_only' = only_sticky /\ first_error' = first
              /\ restart' = (restart /\ spawned)
              /\ ran' = IF spawned THEN ran \cup {next} ELSE ran
              /\ UNCHANGED <<comm, stopping, current_charset, cut_short>>
      /\ Forget
 BY DEF CheckChild, After
<1>2. /\ TypeOK /\ Tracked /\ FailuresNoted /\ busy
      /\ comm \in Seq(CommandInfo) /\ current_command \in DOMAIN comm
 BY <1>1 DEF IInv, TypeOK
<1>3. e \in Errors /\ (e.status # 0 => only_sticky) /\ sticky_only \in BOOLEAN
 BY <1>1, <1>2, AfterTyped, AfterStatus DEF Tracked, TypeOK
<1>4. orphans' \subseteq Ops BY <1>1, <1>2, ForgetTyped
<1> HIDE DEF e
<1>5. /\ only_sticky \in BOOLEAN /\ first \in Errors
      /\ only_sticky <=> first_failure' # NoError
      /\ only_sticky => first = first_failure'
 BY <1>1, <1>2, <1>3 DEF NoteFailure, Tracked, RememberFirst, TypeOK, NoError
<1>6. /\ next \in current_command + 1 .. Len(comm) + 1
      /\ \A j \in current_command + 1 .. next - 1 : ~comm[j].sticky
 BY <1>2, <1>5, NextCommandChosen
<1> HIDE DEF only_sticky, first, next
<1>7. \A i \in DOMAIN comm : i < next /\ comm[i].sticky => i \in ran
 <2> SUFFICES ASSUME NEW i \in DOMAIN comm, i < next, comm[i].sticky PROVE i \in ran OBVIOUS
 <2>1. i \in Nat /\ current_command \in Nat BY <1>2
 <2>2. i <= current_command BY <1>2, <1>6, <2>1
 <2> QED BY <1>2, <2>2 DEF Tracked
<1>8. CASE ~Continues(e)
 <2>1. IF sticky_only THEN first_error.type = first_failure'.type
       ELSE (first_failure' = NoError /\ e.type = "NONE") \/ first_failure' = e
  BY <1>1, <1>2 DEF NoteFailure, Tracked, NoError
 <2> QED BY <1>1, <1>2, <1>3, <1>4, <1>8, <2>1, FinishStep DEF TypeOK
<1>9. CASE Continues(e) /\ next > Len(comm)
 <2>1. \A i \in DOMAIN comm : comm[i].sticky => i \in ran BY <1>2, <1>6, <1>7, <1>9
 <2>2. ~only_sticky => first_failure' = NoError /\ e.type = "NONE" BY <1>5 DEF only_sticky
 <2>3. Finish(e, only_sticky, first) /\ UNCHANGED cut_short BY <1>1, <1>9
 <2>4. cut_short' \in BOOLEAN BY <1>2, <2>3 DEF TypeOK
 <2> QED BY <1>1, <1>3, <1>4, <1>5, <2>1, <2>2, <2>3, <2>4, FinishStep
<1>10. CASE Continues(e) /\ ~(next > Len(comm))
 <2>1. next \in DOMAIN comm BY <1>2, <1>6, <1>10
 <2>2. /\ StartCurrentCommand(comm, next, e, spawned)
       /\ sticky_only' = only_sticky /\ first_error' = first
       /\ restart' = (restart /\ spawned)
       /\ ran' = IF spawned THEN ran \cup {next} ELSE ran
       /\ UNCHANGED <<comm, stopping, current_charset, cut_short>>
  BY <1>1, <1>10
 <2> QED BY <1>1, <1>3, <1>4, <1>5, <1>7, <2>1, <2>2, NextStep
<1> QED BY <1>8, <1>9, <1>10

LEMMA ExitStep ==
    ASSUME IInv, \/ \E status \in ExitCodes : ChildExits(status)
                 \/ \E op \in Ops : OrphanExits(op)
    PROVE  IInv'
<1>1. UNCHANGED <<comm, current_command, running, stopping, sticky_only, restart, error,
                  first_error, current_charset, check_timeout, busy, ghosts>>
 BY DEF ChildExits, OrphanExits
<1>2. child' \in {NoChild, Running} \cup ExitCodes /\ (child' # NoChild <=> child # NoChild)
      /\ orphans' \subseteq Ops
 BY ConstantsAssumption DEF ChildExits, OrphanExits, IInv, TypeOK
<1>3. TypeOK' BY <1>1, <1>2 DEF IInv, TypeOK, ghosts
<1>4. (Tracked /\ FailuresNoted /\ Outcome)'
 BY <1>1 DEF IInv, Tracked, FailuresNoted, Outcome, StickyCommandsRunUnlessCut,
             StickyCommandsRun, FirstErrorReported, ReadyWhenIdle, ghosts
<1> QED BY <1>3, <1>4 DEF IInv

LEMMA IInvStep == IInv /\ [Next]_vars => IInv'
<1> SUFFICES ASSUME IInv, [Next]_vars PROVE IInv' OBVIOUS
<1>1. CASE Owner BY <1>1, StopStep, RequestStep, ConstantsAssumption DEF Owner
<1>2. CASE MainLoop BY <1>2, TryAnotherCharsetStep, CheckChildStep DEF MainLoop
<1>3. CASE SomeChildExits \/ \E op \in Ops : OrphanExits(op) BY <1>3, ExitStep DEF SomeChildExits
<1>4. CASE UNCHANGED vars
 BY <1>4 DEF vars, process_vars, ghosts, IInv, TypeOK, Tracked, FailuresNoted, Outcome,
             StickyCommandsRunUnlessCut, StickyCommandsRun, FirstErrorReported, ReadyWhenIdle
<1> QED BY <1>1, <1>2, <1>3, <1>4 DEF Next

THEOREM Invariant == Spec => []IInv
<1> QED BY IInvInit, IInvStep, PTL DEF Spec

----
(* What the runs check, for every value of the constants. *)

\* The types, and that a check is due exactly while there is a child to look at, of
\* a command that is in the script.
THEOREM TypeCorrect == Spec => []TypeOK
<1> QED BY Invariant, PTL DEF IInv

\* When DONE is emitted every sticky command has been started, unless a command could
\* not be spawned or a continue function ended the operation.
THEOREM StickyAlwaysRun == Spec => []StickyCommandsRunUnlessCut
<1> QED BY Invariant, PTL DEF IInv, Outcome

\* The error the owner is told is the first one of the operation.
THEOREM FirstErrorTold == Spec => []FirstErrorReported
<1> QED BY Invariant, PTL DEF IInv, Outcome

\* After DONE the process is ready, as long as every command could be started.
THEOREM ReadyAgain == Spec => []ReadyWhenIdle
<1> QED BY Invariant, PTL DEF IInv, Outcome

\* Which steps start a command, and what that command is.
LEMMA StartedBy ==
    ASSUME IInv, [Next]_vars, NEW i \in ran' \ ran
    PROVE  \/ first_failure' = NoError /\ stopping' = FALSE
           \/ /\ check_timeout /\ UNCHANGED <<comm, stopping>>
              /\ \E channel \in {"ok", "illegal", "io_error"} :
                     LET only_sticky == sticky_only \/ After(channel).type # "NONE"
                     IN /\ channel = "ok" => child # Running
                        /\ only_sticky => comm[i].sticky
                        /\ first_failure' # NoError => only_sticky
<1>1. CASE \E script \in Scripts, spawned \in BOOLEAN : Request(script, spawned)
 BY <1>1 DEF Request, Start, StartCurrentCommand, ghosts
<1>2. CASE \E spawned \in BOOLEAN : TryAnotherCharset(spawned) BY <1>2 DEF TryAnotherCharset, Start
<1>3. ASSUME NEW channel \in {"ok", "illegal", "io_error"}, NEW spawned \in BOOLEAN,
             CheckChild(channel, spawned)
      PROVE  /\ check_timeout /\ UNCHANGED <<comm, stopping>>
             /\ channel = "ok" => child # Running
             /\ sticky_only \/ After(channel).type # "NONE" => comm[i].sticky
             /\ first_failure' # NoError => sticky_only \/ After(channel).type # "NONE"
 <2> DEFINE only_sticky == sticky_only \/ After(channel).type # "NONE"
            next        == NextCommand(only_sticky)
 <2>1. /\ check_timeout /\ NoteFailure(After(channel))
       /\ channel = "ok" => child # Running
  BY <1>3 DEF CheckChild, After
 <2>2. /\ TypeOK /\ Tracked /\ busy
       /\ comm \in Seq(CommandInfo) /\ current_command \in DOMAIN comm
  BY <2>1 DEF IInv, TypeOK
 <2>3. ran' = ran \cup {next} /\ ~(next > Len(comm)) /\ UNCHANGED <<comm, stopping>>
  <3> DEFINE e == After(channel)
  <3>1. \/ ran' = ran
        \/ /\ ~(next > Len(comm))
           /\ ran' = IF spawned THEN ran \cup {next} ELSE ran
           /\ UNCHANGED <<comm, stopping>>
   <4> HIDE DEF next
   <4> QED BY <1>3 DEF CheckChild, Finish, After, next
  <3> QED BY <3>1
 <2>4. only_sticky \in BOOLEAN BY <2>2 DEF TypeOK
 <2>5. next = Len(comm) + 1 \/ ~only_sticky \/ comm[next].sticky BY <2>2, <2>4, NextCommandChosen
 <2>6. i = next /\ (only_sticky => comm[i].sticky)
  <3> HIDE DEF only_sticky, next
  <3>1. next # Len(comm) + 1
   <4>1. Len(comm) \in Nat BY <2>2
   <4> QED BY <2>3, <4>1
  <3> QED BY <2>3, <2>5, <3>1
 <2>7. first_failure' # NoError => only_sticky BY <2>1, <2>2 DEF NoteFailure, Tracked
 <2> QED BY <2>1, <2>3, <2>6, <2>7
<1>4. CASE Stop \/ SomeChildExits \/ (\E op \in Ops : OrphanExits(op)) \/ UNCHANGED vars
 BY <1>4 DEF Stop, SomeChildExits, ChildExits, OrphanExits, vars, ghosts
<1> QED BY <1>1, <1>2, <1>3, <1>4 DEF Next, Owner, MainLoop

\* After a failure nothing starts but sticky commands.
THEOREM StickyOnlyAfterFailure == Spec => OnlyStickyAfterFailure
<1>1. IInv /\ [Next]_vars => [first_failure' # NoError =>
                                  \A i \in ran' \ ran : comm'[i].sticky]_vars
 BY StartedBy
<1> QED BY <1>1, Invariant, PTL DEF Spec, OnlyStickyAfterFailure

\* A pending stop lets nothing start but sticky commands, or what follows a command
\* whose errors are ignored.
THEOREM StopIsHonoured == Spec => StopHonoured
<1>1. ASSUME IInv, [Next]_vars, error.type = "STOPPED" /\ stopping', NEW i \in ran' \ ran
      PROVE  comm[i].sticky \/ Info.ignore_error
 <2>1. CASE stopping' = FALSE BY <1>1, <2>1
 <2>2. ASSUME check_timeout, NEW channel \in {"ok", "illegal", "io_error"},
              channel = "ok" => child # Running,
              sticky_only \/ After(channel).type # "NONE" => comm[i].sticky
       PROVE  comm[i].sticky \/ Info.ignore_error
  <3>1. TypeOK /\ Tracked /\ busy BY <1>1, <2>2 DEF IInv, TypeOK
  <3>2. sticky_only \/ error.status = 0 BY <3>1 DEF Tracked
  <3> QED BY <1>1, <2>2, <3>1, <3>2, AfterStatus
 <2> QED BY <1>1, <2>1, <2>2, StartedBy
<1>2. IInv /\ [Next]_vars => [error.type = "STOPPED" /\ stopping' =>
          \A i \in ran' \ ran : comm[i].sticky \/ Info.ignore_error]_vars
 BY <1>1
<1> QED BY <1>2, Invariant, PTL DEF Spec, StopHonoured


----
(* How a script is written. *)

LEMMA CommandsBegun ==
    ASSUME NEW script \in Seq(CommandInfo), NEW op \in Ops
    PROVE  /\ BeginCommand(script, op) \in Seq(CommandInfo)
           /\ Len(BeginCommand(script, op)) = Len(script) + 1
           /\ \A i \in 1 .. Len(script) : BeginCommand(script, op)[i] = script[i]
           /\ LET last == BeginCommand(script, op)[Len(script) + 1]
              IN last.op = op /\ ~last.sticky /\ ~last.ignore_error /\ ~last.continue_func
<1> DEFINE command == [op |-> op, sticky |-> FALSE, ignore_error |-> FALSE, continue_func |-> FALSE]
<1>1. /\ command \in CommandInfo
      /\ command.op = op /\ ~command.sticky /\ ~command.ignore_error /\ ~command.continue_func
 BY DEF CommandInfo
<1> HIDE DEF command
<1>2. /\ Append(script, command) \in Seq(CommandInfo)
      /\ Len(Append(script, command)) = Len(script) + 1
      /\ \A i \in 1 .. Len(script) : Append(script, command)[i] = script[i]
      /\ Append(script, command)[Len(script) + 1] = command
 BY <1>1, AppendProperties
<1>3. BeginCommand(script, op) = Append(script, command) BY DEF BeginCommand, command
<1> QED BY <1>1, <1>2, <1>3

LEMMA CommandWith ==
    ASSUME NEW command \in CommandInfo
    PROVE  /\ LET now == [command EXCEPT !.sticky = TRUE]
              IN /\ now \in CommandInfo /\ now.op = command.op /\ now.sticky
                 /\ now.ignore_error = command.ignore_error
                 /\ now.continue_func = command.continue_func
           /\ LET now == [command EXCEPT !.ignore_error = TRUE]
              IN /\ now \in CommandInfo /\ now.op = command.op /\ now.sticky = command.sticky
                 /\ now.continue_func = command.continue_func
           /\ LET now == [command EXCEPT !.continue_func = TRUE]
              IN /\ now \in CommandInfo /\ now.op = command.op /\ now.sticky = command.sticky
                 /\ now.ignore_error = command.ignore_error /\ now.continue_func
  BY DEF CommandInfo

\* Changing the last command of a script.
LEMMA LastChanged ==
    ASSUME NEW script \in Seq(CommandInfo), script # <<>>, NEW command \in CommandInfo
    PROVE  /\ [script EXCEPT ![Len(script)] = command] \in Seq(CommandInfo)
           /\ Len([script EXCEPT ![Len(script)] = command]) = Len(script)
           /\ \A i \in 1 .. Len(script) - 1 :
                  [script EXCEPT ![Len(script)] = command][i] = script[i]
           /\ [script EXCEPT ![Len(script)] = command][Len(script)] = command
  OBVIOUS


\* What a change to the last command leaves of a script: the others, in their order.
KeepsOthers(script, changed) ==
    /\ changed \in Seq(CommandInfo) /\ Len(changed) = Len(script)
    /\ \A i \in 1 .. Len(script) - 1 : changed[i] = script[i]

LEMMA StickySet ==
    ASSUME NEW script \in Seq(CommandInfo), script # <<>>
    PROVE  /\ KeepsOthers(script, SetSticky(script))
           /\ LET last == script[Len(script)]
                  now  == SetSticky(script)[Len(script)]
              IN /\ now.op = last.op /\ now.sticky
                 /\ now.ignore_error = last.ignore_error
                 /\ now.continue_func = last.continue_func
<1>0. script[Len(script)] \in CommandInfo OBVIOUS
<1> DEFINE command == [script[Len(script)] EXCEPT !.sticky = TRUE]
<1>1. /\ command \in CommandInfo /\ command.op = script[Len(script)].op /\ command.sticky
      /\ command.ignore_error = script[Len(script)].ignore_error
      /\ command.continue_func = script[Len(script)].continue_func
 BY <1>0, CommandWith
<1>2. SetSticky(script) = [script EXCEPT ![Len(script)] = command] BY DEF SetSticky
<1> HIDE DEF command
<1> QED BY <1>1, <1>2, LastChanged DEF KeepsOthers

LEMMA IgnoreErrorSet ==
    ASSUME NEW script \in Seq(CommandInfo), script # <<>>
    PROVE  /\ KeepsOthers(script, SetIgnoreError(script))
           /\ LET last == script[Len(script)]
                  now  == SetIgnoreError(script)[Len(script)]
              IN /\ now.op = last.op /\ now.sticky = last.sticky
                 /\ now.continue_func = last.continue_func
<1>0. script[Len(script)] \in CommandInfo OBVIOUS
<1> DEFINE command == [script[Len(script)] EXCEPT !.ignore_error = TRUE]
<1>1. /\ command \in CommandInfo /\ command.op = script[Len(script)].op
      /\ command.sticky = script[Len(script)].sticky
      /\ command.continue_func = script[Len(script)].continue_func
 BY <1>0, CommandWith
<1>2. SetIgnoreError(script) = [script EXCEPT ![Len(script)] = command] BY DEF SetIgnoreError
<1> HIDE DEF command
<1> QED BY <1>1, <1>2, LastChanged DEF KeepsOthers

LEMMA ContinueFuncSet ==
    ASSUME NEW script \in Seq(CommandInfo), script # <<>>
    PROVE  /\ KeepsOthers(script, SetContinueFunc(script))
           /\ LET last == script[Len(script)]
                  now  == SetContinueFunc(script)[Len(script)]
              IN /\ now.op = last.op /\ now.sticky = last.sticky
                 /\ now.ignore_error = last.ignore_error /\ now.continue_func
<1>0. script[Len(script)] \in CommandInfo OBVIOUS
<1> DEFINE command == [script[Len(script)] EXCEPT !.continue_func = TRUE]
<1>1. /\ command \in CommandInfo /\ command.op = script[Len(script)].op
      /\ command.sticky = script[Len(script)].sticky /\ command.continue_func
      /\ command.ignore_error = script[Len(script)].ignore_error
 BY <1>0, CommandWith
<1>2. SetContinueFunc(script) = [script EXCEPT ![Len(script)] = command] BY DEF SetContinueFunc
<1> HIDE DEF command
<1> QED BY <1>1, <1>2, LastChanged DEF KeepsOthers

----
(* The shape of the scripts for an archive that exists: moving it away and unpacking it, which
   run only as long as nothing has failed; what the operation does; packing, moving back,
   removing the directory, which run whatever happens.  Only when the list of files to delete was
   not written may a failure to unpack be ignored. *)

MovesAway(command) ==
    command.op = "mv_away" /\ ~command.sticky /\ ~command.ignore_error /\ ~command.continue_func

Unpacks(command, may_ignore) ==
    /\ command.op = IF format = "compress" THEN "gzip" ELSE "decompress"
    /\ ~command.sticky
    /\ command.continue_func <=> format # "other"
    /\ command.ignore_error => may_ignore

Changes(command) ==
    \/ command.op \in {"delete", "add"} /\ ~command.sticky
    \/ command.op = "rm_list"

Unpacking(script, may_ignore) ==
    /\ script \in Seq(CommandInfo) /\ Len(script) >= 2
    /\ MovesAway(script[1]) /\ Unpacks(script[2], may_ignore)
    /\ \A i \in 3 .. Len(script) : Changes(script[i])

Shape(script, may_ignore) ==
    LET last == Len(script) IN
    /\ script \in Seq(CommandInfo) /\ last >= 5
    /\ MovesAway(script[1]) /\ Unpacks(script[2], may_ignore)
    /\ \A i \in 3 .. last - 3 : Changes(script[i])
    /\ script[last - 2].op = "compress" /\ script[last - 2].sticky
    /\ script[last - 1].op = "mv_back" /\ script[last - 1].sticky
    /\ script[last].op = "rm_dir" /\ script[last].sticky

LEMMA UncompressShape ==
    ASSUME ~CreatingArchive, NEW may_ignore \in BOOLEAN
    PROVE  Unpacking(Uncompress(<<>>), may_ignore) /\ Len(Uncompress(<<>>)) = 2
<1> DEFINE op    == IF format = "compress" THEN "gzip" ELSE "decompress"
           moved == BeginCommand(<<>>, "mv_away")
<1>1. op \in Ops /\ "mv_away" \in Ops BY TarAssumption
<1>2. moved \in Seq(CommandInfo) /\ Len(moved) = 1 /\ MovesAway(moved[1])
 <2>1. <<>> \in Seq(CommandInfo) /\ Len(<<>>) = 0 OBVIOUS
 <2>2. /\ moved \in Seq(CommandInfo) /\ Len(moved) = 0 + 1
       /\ moved[0 + 1].op = "mv_away" /\ ~moved[0 + 1].sticky
       /\ ~moved[0 + 1].ignore_error /\ ~moved[0 + 1].continue_func
  BY <1>1, <2>1, CommandsBegun
 <2> QED BY <2>2 DEF MovesAway
<1> HIDE DEF op, moved
<1> DEFINE decompress == BeginCommand(moved, op)
<1>3. /\ decompress \in Seq(CommandInfo) /\ Len(decompress) = 2 /\ MovesAway(decompress[1])
      /\ decompress[2].op = op /\ ~decompress[2].sticky
      /\ ~decompress[2].ignore_error /\ ~decompress[2].continue_func
 <2>0. moved \in Seq(CommandInfo) /\ Len(moved) = 1 /\ op \in Ops BY <1>1, <1>2
 <2>1. /\ decompress \in Seq(CommandInfo) /\ Len(decompress) = Len(moved) + 1
       /\ decompress[Len(moved) + 1].op = op /\ ~decompress[Len(moved) + 1].sticky
       /\ ~decompress[Len(moved) + 1].ignore_error
       /\ ~decompress[Len(moved) + 1].continue_func
       /\ \A i \in 1 .. Len(moved) : decompress[i] = moved[i]
  BY <2>0, CommandsBegun
 <2> QED BY <1>2, <2>0, <2>1 DEF MovesAway
<1> HIDE DEF decompress
<1>4. CASE format = "other"
 <2>1. Uncompress(<<>>) = decompress BY <1>4 DEF Uncompress, decompress, moved, op
 <2> QED BY <1>3, <1>4, <2>1 DEF Unpacking, Unpacks, op
<1>5. CASE format # "other"
 <2>1. Uncompress(<<>>) = SetContinueFunc(decompress) BY <1>5 DEF Uncompress, decompress, moved, op
 <2>2. /\ KeepsOthers(decompress, SetContinueFunc(decompress))
       /\ LET now == SetContinueFunc(decompress)[2]
          IN now.op = op /\ ~now.sticky /\ ~now.ignore_error /\ now.continue_func
  <3>1. decompress \in Seq(CommandInfo) /\ decompress # <<>> /\ Len(decompress) = 2 BY <1>3
  <3> QED BY <1>3, <3>1, ContinueFuncSet
 <2> QED BY <1>3, <1>5, <2>1, <2>2 DEF KeepsOthers, Unpacking, Unpacks, MovesAway, op
<1> QED BY <1>4, <1>5

LEMMA ChangeBegun ==
    ASSUME NEW may_ignore \in BOOLEAN, NEW script, Unpacking(script, may_ignore),
           NEW op \in {"delete", "add", "rm_list"}
    PROVE  /\ Unpacking(BeginCommand(script, op), may_ignore)
           /\ Len(BeginCommand(script, op)) = Len(script) + 1
           /\ BeginCommand(script, op)[Len(script) + 1].op = op
<1>1. script \in Seq(CommandInfo) /\ Len(script) >= 2 /\ op \in Ops BY TarAssumption DEF Unpacking
<1> DEFINE begun == BeginCommand(script, op)
<1>2. /\ begun \in Seq(CommandInfo) /\ Len(begun) = Len(script) + 1
      /\ \A i \in 1 .. Len(script) : begun[i] = script[i]
      /\ begun[Len(script) + 1].op = op /\ ~begun[Len(script) + 1].sticky
 BY <1>1, CommandsBegun
<1> HIDE DEF begun
<1>3. begun[1] = script[1] /\ begun[2] = script[2] BY <1>1, <1>2
<1>4. \A i \in 3 .. Len(begun) : Changes(begun[i]) BY <1>1, <1>2 DEF Unpacking, Changes
<1> QED BY <1>1, <1>2, <1>3, <1>4 DEF Unpacking, begun

LEMMA LastOfUnpacking ==
    ASSUME NEW may_ignore \in BOOLEAN, NEW script, Unpacking(script, may_ignore),
           Len(script) > 2, NEW changed, KeepsOthers(script, changed),
           Changes(changed[Len(script)])
    PROVE  Unpacking(changed, may_ignore)
<1>1. script \in Seq(CommandInfo) /\ Len(script) \in Nat /\ Len(script) > 2 BY DEF Unpacking
<1>2. /\ changed \in Seq(CommandInfo) /\ Len(changed) = Len(script)
      /\ \A i \in 1 .. Len(script) - 1 : changed[i] = script[i]
 BY DEF KeepsOthers
<1>3. changed[1] = script[1] /\ changed[2] = script[2] BY <1>1, <1>2
<1>4. \A i \in 3 .. Len(changed) : Changes(changed[i])
 <2> SUFFICES ASSUME NEW i \in 3 .. Len(changed) PROVE Changes(changed[i]) OBVIOUS
 <2>1. CASE i = Len(script) BY <2>1
 <2>2. CASE i # Len(script) BY <1>1, <1>2, <2>2 DEF Unpacking
 <2> QED BY <2>1, <2>2
<1> QED BY <1>1, <1>2, <1>3, <1>4 DEF Unpacking

LEMMA ThenRemoveListShape ==
    ASSUME NEW may_ignore \in BOOLEAN, NEW script, Unpacking(script, may_ignore), NEW list
    PROVE  /\ Unpacking(ThenRemoveList(script, list), may_ignore)
           /\ Len(ThenRemoveList(script, list)) >= Len(script)
<1>1. script \in Seq(CommandInfo) /\ Len(script) \in Nat /\ Len(script) >= 2 BY DEF Unpacking
<1>2. CASE list # "file" BY <1>1, <1>2 DEF ThenRemoveList
<1>3. CASE list = "file"
 <2> DEFINE begun == BeginCommand(script, "rm_list")
 <2>1. /\ Unpacking(begun, may_ignore) /\ Len(begun) = Len(script) + 1
       /\ begun[Len(script) + 1].op = "rm_list"
  BY ChangeBegun
 <2>2. ThenRemoveList(script, list) = SetSticky(begun) BY <1>3 DEF ThenRemoveList
 <2> HIDE DEF begun
 <2>3. begun \in Seq(CommandInfo) /\ begun # <<>> /\ Len(begun) > 2 /\ Len(begun) = Len(script) + 1
  BY <1>1, <2>1 DEF Unpacking
 <2>4. /\ KeepsOthers(begun, SetSticky(begun))
       /\ SetSticky(begun)[Len(begun)].op = "rm_list"
  BY <2>1, <2>3, StickySet
 <2>5. Changes(SetSticky(begun)[Len(begun)]) BY <2>4 DEF Changes
 <2> QED BY <1>1, <2>1, <2>2, <2>3, <2>4, <2>5, LastOfUnpacking DEF KeepsOthers
<1> QED BY <1>2, <1>3

LEMMA DeleteShape ==
    ASSUME NEW may_ignore \in BOOLEAN, NEW script, Unpacking(script, may_ignore), NEW list
    PROVE  /\ Unpacking(Delete(script, list), may_ignore)
           /\ Delete(script, list) = script \/ Len(Delete(script, list)) > 2
           /\ list # "unsaved" => Len(Delete(script, list)) > 2
<1>1. script \in Seq(CommandInfo) /\ Len(script) \in Nat /\ Len(script) >= 2 BY DEF Unpacking
<1>2. CASE list = "unsaved" BY <1>1, <1>2 DEF Delete
<1>3. CASE list # "unsaved"
 <2> DEFINE begun == BeginCommand(script, "delete")
 <2>1. Unpacking(begun, may_ignore) /\ Len(begun) = Len(script) + 1 BY ChangeBegun
 <2>2. Delete(script, list) = ThenRemoveList(begun, list) BY <1>3 DEF Delete, DeleteCommand
 <2> HIDE DEF begun
 <2>3. /\ Unpacking(ThenRemoveList(begun, list), may_ignore)
       /\ Len(ThenRemoveList(begun, list)) >= Len(begun)
  BY <2>1, ThenRemoveListShape
 <2>4. Len(ThenRemoveList(begun, list)) \in Nat BY <2>3 DEF Unpacking
 <2> QED BY <1>1, <1>3, <2>1, <2>2, <2>3, <2>4
<1> QED BY <1>2, <1>3

\* The flag that errors are ignored is given to the decompression only when there is
\* nothing after it.
LEMMA IgnoredShape ==
    ASSUME NEW may_ignore \in BOOLEAN, NEW script, Unpacking(script, may_ignore),
           Len(script) = 2 => may_ignore
    PROVE  Unpacking(SetIgnoreError(script), may_ignore)
<1> DEFINE changed == SetIgnoreError(script)
<1>1. script \in Seq(CommandInfo) /\ Len(script) \in Nat /\ Len(script) >= 2 /\ script # <<>>
 BY DEF Unpacking
<1>2. /\ KeepsOthers(script, changed)
      /\ changed[Len(script)].op = script[Len(script)].op
      /\ changed[Len(script)].sticky = script[Len(script)].sticky
      /\ changed[Len(script)].continue_func = script[Len(script)].continue_func
 BY <1>1, IgnoreErrorSet
<1> HIDE DEF changed
<1>3. CASE Len(script) > 2
 <2>1. Changes(script[Len(script)]) BY <1>1, <1>3 DEF Unpacking
 <2>2. Changes(changed[Len(script)]) BY <1>2, <2>1 DEF Changes
 <2> QED BY <1>2, <1>3, <2>2, LastOfUnpacking DEF changed
<1>4. CASE Len(script) = 2
 <2>1. /\ changed \in Seq(CommandInfo) /\ Len(changed) = 2 /\ changed[1] = script[1]
       /\ changed[2].op = script[2].op /\ changed[2].sticky = script[2].sticky
       /\ changed[2].continue_func = script[2].continue_func
  BY <1>2, <1>4 DEF KeepsOthers
 <2>2. Unpacks(changed[2], may_ignore) BY <1>4, <2>1 DEF Unpacking, Unpacks
 <2> QED BY <2>1, <2>2 DEF Unpacking, changed
<1>5. Len(script) > 2 \/ Len(script) = 2
 <2>1. \A n \in Nat : n >= 2 => n > 2 \/ n = 2 OBVIOUS
 <2> QED BY <1>1, <2>1, Zenon
<1> QED BY <1>3, <1>4, <1>5

\* A command that runs whatever happens.
LEMMA StickyBegun ==
    ASSUME NEW script \in Seq(CommandInfo), NEW op \in Ops
    PROVE  LET begun == SetSticky(BeginCommand(script, op))
           IN /\ begun \in Seq(CommandInfo) /\ Len(begun) = Len(script) + 1
              /\ \A i \in 1 .. Len(script) : begun[i] = script[i]
              /\ begun[Len(script) + 1].op = op /\ begun[Len(script) + 1].sticky
              /\ ~begun[Len(script) + 1].ignore_error /\ ~begun[Len(script) + 1].continue_func
<1> DEFINE command == BeginCommand(script, op)
<1>1. /\ command \in Seq(CommandInfo) /\ Len(command) = Len(script) + 1
      /\ \A i \in 1 .. Len(script) : command[i] = script[i]
      /\ command[Len(script) + 1].op = op
      /\ ~command[Len(script) + 1].ignore_error /\ ~command[Len(script) + 1].continue_func
 BY CommandsBegun
<1> HIDE DEF command
<1>2. command # <<>> /\ Len(script) \in Nat BY <1>1
<1>3. /\ KeepsOthers(command, SetSticky(command))
      /\ SetSticky(command)[Len(command)].op = command[Len(command)].op
      /\ SetSticky(command)[Len(command)].sticky
      /\ SetSticky(command)[Len(command)].ignore_error = command[Len(command)].ignore_error
      /\ SetSticky(command)[Len(command)].continue_func = command[Len(command)].continue_func
 BY <1>1, <1>2, StickySet
<1> QED BY <1>1, <1>2, <1>3 DEF KeepsOthers, command

\* The three commands that put the archive back, and their flags.
LEMMA RecompressCommands ==
    ASSUME ~CreatingArchive, NEW script \in Seq(CommandInfo), NEW n \in Nat, n = Len(script)
    PROVE  LET whole == Recompress(script) IN
           /\ whole \in Seq(CommandInfo) /\ Len(whole) = n + 3
           /\ \A i \in 1 .. n : whole[i] = script[i]
           /\ whole[n + 1].op = "compress" /\ whole[n + 1].sticky /\ ~whole[n + 1].ignore_error
           /\ whole[n + 1].continue_func <=> format = "gzip"
           /\ whole[n + 2].op = "mv_back" /\ whole[n + 2].sticky
           /\ ~whole[n + 2].ignore_error /\ ~whole[n + 2].continue_func
           /\ whole[n + 3].op = "rm_dir" /\ whole[n + 3].sticky
<1> DEFINE compress == SetSticky(BeginCommand(script, "compress"))
           packing  == IF format = "gzip" THEN SetContinueFunc(compress) ELSE compress
           back     == SetSticky(BeginCommand(packing, "mv_back"))
           whole    == SetSticky(BeginCommand(back, "rm_dir"))
<1>1. "compress" \in Ops /\ "mv_back" \in Ops /\ "rm_dir" \in Ops BY TarAssumption
<1>2. Recompress(script) = whole BY DEF Recompress
<1>3. /\ compress \in Seq(CommandInfo) /\ Len(compress) = n + 1
      /\ \A i \in 1 .. n : compress[i] = script[i]
      /\ compress[n + 1].op = "compress" /\ compress[n + 1].sticky
      /\ ~compress[n + 1].ignore_error /\ ~compress[n + 1].continue_func
 BY <1>1, StickyBegun
<1> HIDE DEF compress
<1>4. /\ packing \in Seq(CommandInfo) /\ Len(packing) = n + 1
      /\ \A i \in 1 .. n : packing[i] = script[i]
      /\ packing[n + 1].op = "compress" /\ packing[n + 1].sticky
      /\ ~packing[n + 1].ignore_error /\ (packing[n + 1].continue_func <=> format = "gzip")
 <2>1. CASE format # "gzip" BY <1>3, <2>1
 <2>2. CASE format = "gzip"
  <3>1. compress # <<>> /\ packing = SetContinueFunc(compress) BY <1>3, <2>2
  <3>2. /\ KeepsOthers(compress, SetContinueFunc(compress))
        /\ SetContinueFunc(compress)[n + 1].op = compress[n + 1].op
        /\ SetContinueFunc(compress)[n + 1].sticky = compress[n + 1].sticky
        /\ SetContinueFunc(compress)[n + 1].ignore_error = compress[n + 1].ignore_error
        /\ SetContinueFunc(compress)[n + 1].continue_func
   BY <1>3, <3>1, ContinueFuncSet
  <3> HIDE DEF packing
  <3> QED BY <1>3, <2>2, <3>1, <3>2 DEF KeepsOthers
 <2> QED BY <2>1, <2>2
<1> HIDE DEF packing
<1>5. /\ back \in Seq(CommandInfo) /\ Len(back) = Len(packing) + 1
      /\ \A i \in 1 .. Len(packing) : back[i] = packing[i]
      /\ back[Len(packing) + 1].op = "mv_back" /\ back[Len(packing) + 1].sticky
      /\ ~back[Len(packing) + 1].ignore_error /\ ~back[Len(packing) + 1].continue_func
 BY <1>1, <1>4, StickyBegun
<1> HIDE DEF back
<1>6. /\ whole \in Seq(CommandInfo) /\ Len(whole) = Len(back) + 1
      /\ \A i \in 1 .. Len(back) : whole[i] = back[i]
      /\ whole[Len(back) + 1].op = "rm_dir" /\ whole[Len(back) + 1].sticky
 BY <1>1, <1>5, StickyBegun
<1> HIDE DEF whole
<1>7. /\ Len(packing) = n + 1 /\ Len(back) = n + 2 /\ Len(whole) = n + 3
      /\ \A i \in 1 .. n : whole[i] = script[i]
      /\ whole[n + 1] = packing[n + 1] /\ whole[n + 2] = back[n + 2]
 BY <1>4, <1>5, <1>6
<1>8. /\ whole[n + 2].op = "mv_back" /\ whole[n + 2].sticky
      /\ ~whole[n + 2].ignore_error /\ ~whole[n + 2].continue_func
      /\ whole[n + 3].op = "rm_dir" /\ whole[n + 3].sticky
 BY <1>5, <1>6, <1>7
<1>9. /\ whole \in Seq(CommandInfo) /\ Len(whole) = n + 3
      /\ \A i \in 1 .. n : whole[i] = script[i]
      /\ whole[n + 1].op = "compress" /\ whole[n + 1].sticky /\ ~whole[n + 1].ignore_error
      /\ whole[n + 1].continue_func <=> format = "gzip"
 BY <1>4, <1>6, <1>7
<1> QED BY <1>2, <1>8, <1>9

LEMMA RecompressShape ==
    ASSUME ~CreatingArchive, NEW may_ignore \in BOOLEAN, NEW script,
           Unpacking(script, may_ignore)
    PROVE  Shape(Recompress(script), may_ignore)
<1> DEFINE whole == Recompress(script)
           n     == Len(script)
<1>1. script \in Seq(CommandInfo) /\ n \in Nat /\ n >= 2 BY DEF Unpacking
<1>2. /\ whole \in Seq(CommandInfo) /\ Len(whole) = n + 3
      /\ \A i \in 1 .. n : whole[i] = script[i]
      /\ whole[n + 1].op = "compress" /\ whole[n + 1].sticky
      /\ whole[n + 2].op = "mv_back" /\ whole[n + 2].sticky
      /\ whole[n + 3].op = "rm_dir" /\ whole[n + 3].sticky
 BY <1>1, RecompressCommands
<1> HIDE DEF whole
<1>3. /\ MovesAway(whole[1]) /\ Unpacks(whole[2], may_ignore)
      /\ \A i \in 3 .. n : Changes(whole[i])
 <2>1. whole[1] = script[1] /\ whole[2] = script[2] BY <1>1, <1>2
 <2>2. \A i \in 3 .. n : whole[i] = script[i] BY <1>1, <1>2
 <2> QED BY <2>1, <2>2 DEF Unpacking
<1> HIDE DEF n
<1>4. /\ Len(whole) >= 5 /\ Len(whole) - 3 = n /\ Len(whole) - 2 = n + 1
      /\ Len(whole) - 1 = n + 2 /\ Len(whole) = n + 3
 BY <1>1, <1>2
<1> QED BY <1>2, <1>3, <1>4 DEF Shape, whole

\* What is asked of an archive that exists.
LEMMA AddScriptShape ==
    ASSUME ~CreatingArchive, NEW deleted, NEW list
    PROVE  Shape(AddScript(deleted, list), deleted = "unsaved")
<1> DEFINE may_ignore == deleted = "unsaved"
           unpack     == Uncompress(<<>>)
           first      == DeleteFirst(unpack, deleted)
           add        == AddCommand(first)
<1>1. may_ignore \in BOOLEAN OBVIOUS
<1>2. Unpacking(unpack, may_ignore) /\ Len(unpack) = 2 BY <1>1, UncompressShape
<1> HIDE DEF unpack
<1>3. Unpacking(first, may_ignore)
 <2>1. CASE deleted = "none" BY <1>2, <2>1 DEF DeleteFirst
 <2>2. CASE deleted # "none"
  <3>1. first = SetIgnoreError(Delete(unpack, deleted)) BY <2>2 DEF DeleteFirst
  <3>2. /\ Unpacking(Delete(unpack, deleted), may_ignore)
        /\ deleted # "unsaved" => Len(Delete(unpack, deleted)) > 2
   BY <1>1, <1>2, DeleteShape
  <3>3. Len(Delete(unpack, deleted)) = 2 => may_ignore BY <3>2
  <3> QED BY <1>1, <3>1, <3>2, <3>3, IgnoredShape
 <2> QED BY <2>1, <2>2
<1> HIDE DEF first
<1>4. Unpacking(add, may_ignore) BY <1>1, <1>3, ChangeBegun DEF AddCommand
<1> HIDE DEF add
<1>5. Unpacking(ThenRemoveList(add, list), may_ignore) BY <1>1, <1>4, ThenRemoveListShape
<1> QED BY <1>1, <1>5, RecompressShape DEF AddScript, add, first, unpack

LEMMA RemoveScriptShape ==
    ASSUME ~CreatingArchive, NEW list
    PROVE  Shape(RemoveScript(list), list = "unsaved")
<1> DEFINE may_ignore == list = "unsaved"
           unpack     == Uncompress(<<>>)
<1>1. may_ignore \in BOOLEAN OBVIOUS
<1>2. Unpacking(unpack, may_ignore) BY <1>1, UncompressShape
<1> HIDE DEF unpack
<1>3. Unpacking(Delete(unpack, list), may_ignore) BY <1>1, <1>2, DeleteShape
<1> QED BY <1>1, <1>3, RecompressShape DEF RemoveScript, unpack

\* The scripts for an archive that tar creates itself.
LEMMA CreatingScript ==
    ASSUME CreatingArchive, NEW list
    PROVE  AddScript("none", list) \in Seq(CommandInfo)
<1>1. <<>> \in Seq(CommandInfo) /\ "create" \in Ops /\ "rm_list" \in Ops BY TarAssumption
<1> DEFINE create == BeginCommand(<<>>, "create")
<1>2. create \in Seq(CommandInfo) BY <1>1, CommandsBegun
<1>3. AddScript("none", list) = ThenRemoveList(create, list)
 BY DEF AddScript, Recompress, DeleteFirst, Uncompress, AddCommand
<1> HIDE DEF create
<1>4. ThenRemoveList(create, list) \in Seq(CommandInfo)
 BY <1>1, <1>2, StickyBegun DEF ThenRemoveList
<1> QED BY <1>3, <1>4

----
(* The inductive invariant.  The archive is in one place at a time: at its name, away and still
   packed, away and unpacked, away and packed again; and which of them it may be follows from the
   command that runs.  That a command that is not sticky runs tells that nothing failed before
   it. *)

\* What makes an archive of the added files alone take the place of the archive.
Excused == format = "compress" \/ (unsaved /\ "decompress" \in broken)

Good(content) == content # Absent /\ (Excused \/ content # "bare")

InPlace ==
    Good(archive) /\ tmp = Absent /\ tar = Absent /\ packed = Absent /\ ~unpacked

MovedAway ==
    /\ Good(tmp) /\ archive = Absent /\ packed = Absent /\ ~unpacked
    /\ tar = Absent \/ Excused

Decompressed ==
    Good(tar) /\ archive = Absent /\ tmp = Absent /\ packed = Absent /\ unpacked

Repacked == Good(Packed) /\ archive = Absent /\ tar = Absent

Lost == PackingFails \/ NeverUnpacked

\* A failure to unpack that the next command will know of.
UnpackingFailed ==
    /\ "decompress" \in broken /\ child # 0
    /\ ~(child = 2 /\ format = "gzip")

\* While command i of n runs, or when it has ended.
AwayOrNot(i, n) ==
    i < n - 2 \/ (i = n - 2 /\ child = Running) => InPlace \/ MovedAway \/ Decompressed

Moving(i) ==
    i = 1 => IF child = Running THEN InPlace ELSE child = 0 => MovedAway /\ tar = Absent

UnpackingIt(i) ==
    i = 2 => IF child = Running THEN MovedAway /\ tar = Absent
             ELSE Decompressed \/ (MovedAway /\ (Excused \/ UnpackingFailed))

Changing(i, n) ==
    i \in 3 .. n - 3 /\ ~sticky_only => Decompressed \/ (MovedAway /\ Excused)

PackedOrNot(i, n) ==
    (i = n - 2 /\ child # Running) \/ (i = n - 1 /\ child = Running) =>
        InPlace \/ MovedAway \/ Repacked \/ Lost

MovedBack(i, n) ==
    (i = n - 1 /\ child # Running) \/ i = n => Good(archive) \/ Lost

Placed(i, n) ==
    /\ AwayOrNot(i, n) /\ Moving(i) /\ UnpackingIt(i) /\ Changing(i, n)
    /\ PackedOrNot(i, n) /\ MovedBack(i, n)

OnItsWay ==
    /\ Shape(comm, unsaved)
    /\ Info.sticky \/ ~sticky_only
    /\ Placed(current_command, Len(comm))

TarInv ==
    /\ IInv /\ format \in Formats
    /\ RestoresNameUnless
    /\ busy /\ existed => OnItsWay

\* Wherever that leaves it, it is somewhere (in the state after a step).
LEMMA PlacedIsKept ==
    ASSUME NEW CONSTANT n \in Nat, n >= 5, NEW CONSTANT i \in 1 .. n, Placed(i, n)'
    PROVE  Kept'
<1>1. InPlace' \/ MovedAway' \/ Decompressed' \/ Repacked' \/ Good(archive)' \/ Lost'
 <2> QED BY DEF Placed, AwayOrNot, PackedOrNot, MovedBack
<1>2. Packed' \in {tmp', packed'} BY DEF Packed
<1> QED BY <1>1, <1>2 DEF Kept, InPlace, MovedAway, Decompressed, Repacked, Good, Excused, Lost

----
(* A command ends. *)

LEMMA Ending ==
    ASSUME NEW status \in ExitCodes, CommandEnds(status)
    PROVE  /\ child = Running /\ child' = status /\ status # Running
           /\ UNCHANGED <<comm, current_command, sticky_only, busy, existed, format, short_name,
                          unsaved, spawn_failed, cut_short>>
           /\ broken \subseteq broken' /\ (unpacked => unpacked')
           /\ Excused => Excused'
           /\ PackingFails => PackingFails'
<1> QED BY ConstantsAssumption DEF CommandEnds, ChildExits, kind, ghosts, Excused, PackingFails

\* What the commands do to the files, or leave undone, and when.
LEMMA MvAwayEnds ==
    ASSUME NEW status \in ExitCodes, CommandEnds(status), Info.op = "mv_away", InPlace
    PROVE  /\ InPlace' \/ (MovedAway' /\ tar' = Absent)
           /\ status = 0 => MovedAway' /\ tar' = Absent
<1>1. UNCHANGED <<tar, packed>> /\ ~unpacked' BY DEF CommandEnds, Performs, Tears, files, InPlace
<1>2. \/ UNCHANGED <<archive, tmp>> /\ status # 0
      \/ tmp' = archive /\ archive' = Absent
 BY DEF CommandEnds, Performs, Tears, files
<1>3. Excused => Excused' BY Ending
<1> QED BY <1>1, <1>2, <1>3 DEF InPlace, MovedAway, Good

LEMMA DecompressEnds ==
    ASSUME NEW status \in ExitCodes, CommandEnds(status), Info.op = "decompress",
           MovedAway, tar = Absent
    PROVE  Decompressed' \/ (MovedAway' /\ tar' = Absent /\ UnpackingFailed')
<1>1. UNCHANGED <<archive, packed, format>> /\ (Excused => Excused') /\ child' = status
 BY Ending DEF CommandEnds, Performs, Tears, files
<1>2. \/ /\ UNCHANGED <<tmp, tar>> /\ status # 0 /\ ~(status = 2 /\ format = "gzip")
         /\ "decompress" \in broken'
      \/ tar' = tmp /\ tmp' = Absent
 BY DEF CommandEnds, Performs, Tears, files, HasInput, MovedAway, Good
<1>3. unpacked' <=> tmp' # tmp BY DEF CommandEnds, MovedAway
<1> QED BY <1>1, <1>2, <1>3 DEF Decompressed, MovedAway, UnpackingFailed, Good

LEMMA GzipEnds ==
    ASSUME NEW status \in ExitCodes, CommandEnds(status), Info.op = "gzip",
           MovedAway, tar = Absent, format = "compress"
    PROVE  MovedAway' /\ tar' = Absent /\ Excused'
<1> QED BY Ending DEF CommandEnds, Performs, Tears, files, MovedAway, Good, Excused

\* tar on the unpacked archive.
LEMMA ChangeEnds ==
    ASSUME NEW status \in ExitCodes, CommandEnds(status), Info.op \in {"delete", "add"}
    PROVE  /\ Decompressed => Decompressed'
           /\ MovedAway /\ Excused => MovedAway' /\ Excused'
<1>1. UNCHANGED <<archive, tmp, packed>> /\ (unpacked' <=> unpacked) /\ (Excused => Excused')
 <2> QED BY Ending DEF CommandEnds, Performs, Tears, files
<1>2. Good(tar) => tar' # Absent /\ (tar' # "bare" \/ Excused)
 <2> QED BY TarAssumption DEF CommandEnds, Performs, Tears, files, Good, Added
<1> QED BY <1>1, <1>2 DEF Decompressed, MovedAway, Good

\* Removing the list file, or the directory: of the archive at its name.
LEMMA RemovalEnds ==
    ASSUME NEW status \in ExitCodes, CommandEnds(status), Info.op \in {"rm_list", "rm_dir"}
    PROVE  /\ UNCHANGED archive /\ (unpacked' <=> unpacked)
           /\ Info.op = "rm_list" => UNCHANGED files
<1>1. UNCHANGED archive /\ (Info.op = "rm_list" => UNCHANGED files)
 BY DEF CommandEnds, Performs, Tears, files
<1>2. unpacked' <=> unpacked BY DEF CommandEnds
<1> QED BY <1>1, <1>2

LEMMA CompressEnds ==
    ASSUME NEW status \in ExitCodes, CommandEnds(status), Info.op = "compress"
    PROVE  /\ Decompressed => Repacked' \/ Lost'
           /\ MovedAway => MovedAway' \/ Repacked' \/ Lost'
           /\ InPlace => InPlace'
<1>1. /\ UNCHANGED <<archive, short_name>> /\ (unpacked' <=> unpacked) /\ (Excused => Excused')
      /\ ~Tears("compress") /\ "compress" # "decompress"
 <2> QED BY Ending DEF CommandEnds, Performs, Tears, files
<1>2. \/ /\ UNCHANGED files
         /\ tar = Absent \/ Lost'
      \/ /\ tar # Absent /\ tar' = Absent
         /\ IF short_name THEN packed' = tar /\ UNCHANGED tmp
                          ELSE tmp' = tar /\ UNCHANGED packed
 BY DEF CommandEnds, Performs, Tears, files, HasInput, Lost, PackingFails
<1>3. CASE UNCHANGED files
 BY <1>1, <1>2, <1>3, TarAssumption DEF Decompressed, MovedAway, InPlace, Good, files, Lost
<1>4. CASE /\ tar # Absent /\ tar' = Absent
           /\ IF short_name THEN packed' = tar /\ UNCHANGED tmp
                            ELSE tmp' = tar /\ UNCHANGED packed
 <2>1. Packed' = tar BY <1>1, <1>4 DEF Packed
 <2> QED BY <1>1, <1>4, <2>1 DEF Decompressed, MovedAway, InPlace, Repacked, Good
<1> QED BY <1>2, <1>3, <1>4

LEMMA MvBackEnds ==
    ASSUME NEW status \in ExitCodes, CommandEnds(status), Info.op = "mv_back",
           InPlace \/ MovedAway \/ Repacked \/ Lost
    PROVE  Good(archive)' \/ Lost'
<1>1. /\ UNCHANGED short_name /\ (unpacked' <=> unpacked) /\ (Excused => Excused')
      /\ PackingFails => PackingFails'
 BY Ending DEF CommandEnds
<1>2. \/ /\ UNCHANGED files
         /\ Packed = Absent \/ Lost'
      \/ Packed # Absent /\ archive' = Packed
 BY DEF CommandEnds, Performs, Tears, files, HasInput, Lost, PackingFails
<1>3. CASE Lost BY <1>1, <1>3 DEF Lost, NeverUnpacked
<1>4. CASE InPlace
 <2>1. Packed = Absent BY <1>4 DEF InPlace, Packed
 <2> QED BY <1>1, <1>2, <1>4, <2>1 DEF InPlace, Good, files
<1>5. CASE MovedAway
 <2>1. CASE short_name BY <1>1, <1>5, <2>1 DEF MovedAway, Lost, NeverUnpacked
 <2>2. CASE ~short_name BY <1>1, <1>2, <1>5, <2>2 DEF MovedAway, Packed, Good
 <2> QED BY <2>1, <2>2
<1>6. CASE Repacked BY <1>1, <1>2, <1>6 DEF Repacked, Good
<1> QED BY <1>3, <1>4, <1>5, <1>6

\* What the current command is, of how many.
LEMMA CommandOf ==
    ASSUME TypeOK, busy, Shape(comm, unsaved), format \in Formats
    PROVE  /\ current_command \in 1 .. Len(comm) /\ Len(comm) \in Nat /\ Len(comm) >= 5
           /\ current_command = 1 => MovesAway(Info)
           /\ current_command = 2 => Unpacks(Info, unsaved)
           /\ current_command \in 3 .. Len(comm) - 3 => Changes(Info)
           /\ current_command = Len(comm) - 2 => Info.op = "compress" /\ Info.sticky
           /\ current_command = Len(comm) - 1 => Info.op = "mv_back" /\ Info.sticky
           /\ current_command = Len(comm) => Info.op = "rm_dir" /\ Info.sticky
<1>1. /\ comm \in Seq(CommandInfo) /\ Len(comm) >= 5
      /\ MovesAway(comm[1]) /\ Unpacks(comm[2], unsaved)
      /\ \A i \in 3 .. Len(comm) - 3 : Changes(comm[i])
      /\ comm[Len(comm) - 2].op = "compress" /\ comm[Len(comm) - 2].sticky
      /\ comm[Len(comm) - 1].op = "mv_back" /\ comm[Len(comm) - 1].sticky
      /\ comm[Len(comm)].op = "rm_dir" /\ comm[Len(comm)].sticky
 BY DEF Shape
<1>2. current_command \in 1 .. Len(comm) /\ Len(comm) \in Nat BY <1>1 DEF TypeOK
<1> QED BY <1>1, <1>2 DEF Info

\* Command i of n ends.
LEMMA EndPlaced ==
    ASSUME NEW CONSTANT n \in Nat, n >= 5, NEW CONSTANT i \in 1 .. n, Placed(i, n),
           format \in Formats, NEW status \in ExitCodes, CommandEnds(status),
           Info.sticky \/ ~sticky_only,
           i = 1 => MovesAway(Info),
           i = 2 => Unpacks(Info, unsaved),
           i \in 3 .. n - 3 => Changes(Info),
           i = n - 2 => Info.op = "compress",
           i = n - 1 => Info.op = "mv_back",
           i = n => Info.op = "rm_dir"
    PROVE  Placed(i, n)'
<1>1. child = Running /\ child' # Running /\ child' = status /\ UNCHANGED <<sticky_only, format>>
 BY Ending
<1>2. CASE i = 1
 <2>1. InPlace /\ Info.op = "mv_away" BY <1>1, <1>2 DEF Placed, Moving, MovesAway
 <2>2. /\ InPlace' \/ (MovedAway' /\ tar' = Absent)
       /\ status = 0 => MovedAway' /\ tar' = Absent
  BY <2>1, MvAwayEnds
 <2> QED
  BY <1>1, <1>2, <2>2 DEF Placed, AwayOrNot, Moving, UnpackingIt, Changing, PackedOrNot,
                          MovedBack
<1>3. CASE i = 2
 <2>1. MovedAway /\ tar = Absent BY <1>1, <1>3 DEF Placed, UnpackingIt
 <2>2. Decompressed' \/ (MovedAway' /\ (Excused' \/ UnpackingFailed'))
  <3>1. CASE format = "compress" BY <1>3, <2>1, <3>1, GzipEnds DEF Unpacks
  <3>2. CASE format # "compress" BY <1>3, <2>1, <3>2, DecompressEnds DEF Unpacks
  <3> QED BY <3>1, <3>2
 <2> QED
  BY <1>1, <1>3, <2>2 DEF Placed, AwayOrNot, Moving, UnpackingIt, Changing, PackedOrNot,
                          MovedBack
<1>4. CASE i \in 3 .. n - 3
 <2>1. Changes(Info) /\ (InPlace \/ MovedAway \/ Decompressed) BY <1>4 DEF Placed, AwayOrNot
 <2>2. CASE Info.op = "rm_list"
  <3>1. UNCHANGED files /\ (unpacked' <=> unpacked) /\ (Excused => Excused')
   BY <2>2, RemovalEnds, Ending
  <3>2. /\ InPlace => InPlace'
        /\ MovedAway => MovedAway'
        /\ Decompressed => Decompressed'
   BY <3>1 DEF InPlace, MovedAway, Decompressed, Good, files
  <3> QED
   BY <1>1, <1>4, <2>1, <3>1, <3>2 DEF Placed, AwayOrNot, Moving, UnpackingIt, Changing,
                                       PackedOrNot, MovedBack
 <2>3. CASE Info.op \in {"delete", "add"} /\ ~Info.sticky
  <3>1. Decompressed \/ (MovedAway /\ Excused) BY <1>4, <2>3 DEF Placed, Changing
  <3>2. Decompressed' \/ (MovedAway' /\ Excused') BY <2>3, <3>1, ChangeEnds
  <3> QED
   BY <1>1, <1>4, <3>2 DEF Placed, AwayOrNot, Moving, UnpackingIt, Changing, PackedOrNot,
                           MovedBack
 <2> QED BY <2>1, <2>2, <2>3 DEF Changes
<1>5. CASE i = n - 2
 <2>1. InPlace \/ MovedAway \/ Decompressed BY <1>1, <1>5 DEF Placed, AwayOrNot
 <2>2. InPlace' \/ MovedAway' \/ Repacked' \/ Lost' BY <1>5, <2>1, CompressEnds
 <2> QED
  BY <1>1, <1>5, <2>2 DEF Placed, AwayOrNot, Moving, UnpackingIt, Changing, PackedOrNot,
                          MovedBack
<1>6. CASE i = n - 1
 <2>1. InPlace \/ MovedAway \/ Repacked \/ Lost BY <1>1, <1>6 DEF Placed, PackedOrNot
 <2>2. Good(archive)' \/ Lost' BY <1>6, <2>1, MvBackEnds
 <2> QED
  BY <1>1, <1>6, <2>2 DEF Placed, AwayOrNot, Moving, UnpackingIt, Changing, PackedOrNot,
                          MovedBack
<1>7. CASE i = n
 <2>1. Good(archive) \/ Lost BY <1>7 DEF Placed, MovedBack
 <2>2. UNCHANGED <<archive, short_name>> /\ (unpacked' <=> unpacked) /\ (Excused => Excused')
       /\ (PackingFails => PackingFails')
  BY <1>7, RemovalEnds, Ending
 <2>3. Good(archive)' \/ Lost' BY <2>1, <2>2 DEF Good, Lost, NeverUnpacked
 <2> QED
  BY <1>1, <1>7, <2>3 DEF Placed, AwayOrNot, Moving, UnpackingIt, Changing, PackedOrNot,
                          MovedBack
<1>8. i = 1 \/ i = 2 \/ i \in 3 .. n - 3 \/ i = n - 2 \/ i = n - 1 \/ i = n OBVIOUS
<1> QED BY <1>2, <1>3, <1>4, <1>5, <1>6, <1>7, <1>8

----
(* A command is started after another, or the operation is over. *)

places == <<files, kind, op_ghosts>>

LEMMA PlacesKept ==
    ASSUME UNCHANGED places
    PROVE  /\ InPlace' <=> InPlace
           /\ MovedAway' <=> MovedAway
           /\ Decompressed' <=> Decompressed
           /\ Repacked' <=> Repacked
           /\ Excused' <=> Excused
           /\ Good(archive)' <=> Good(archive)
           /\ Lost' <=> Lost
           /\ Kept' <=> Kept
<1>1. UNCHANGED <<archive, tmp, tar, packed, short_name, format, wanted, existed, unsaved,
                  broken, unpacked, stopped>>
 BY DEF places, files, kind, op_ghosts
<1>2. (Excused' <=> Excused) /\ Packed' = Packed BY <1>1 DEF Excused, Packed
<1>3. (Lost' <=> Lost) /\ (Good(archive)' <=> Good(archive)) /\ (Repacked' <=> Repacked)
 BY <1>1, <1>2 DEF Lost, PackingFails, NeverUnpacked, Good, Repacked
<1>4. /\ InPlace' <=> InPlace
      /\ MovedAway' <=> MovedAway
      /\ Decompressed' <=> Decompressed
 BY <1>1, <1>2 DEF InPlace, MovedAway, Decompressed, Good
<1>5. Kept' <=> Kept BY <1>1 DEF Kept, PackingFails, NeverUnpacked
<1> QED BY <1>2, <1>3, <1>4, <1>5

\* The command after command i of n.
LEMMA NextPlaced ==
    ASSUME NEW CONSTANT n \in Nat, n >= 5, NEW CONSTANT i \in 1 .. n,
           NEW CONSTANT next \in i + 1 .. n, NEW CONSTANT only_sticky \in BOOLEAN,
           n = Len(comm), Shape(comm, unsaved), Placed(i, n), child # Running,
           sticky_only => only_sticky,
           ~only_sticky \/ comm[next].sticky,
           \A j \in i + 1 .. next - 1 : only_sticky /\ ~comm[j].sticky,
           i = 1 /\ child # 0 => only_sticky,
           i = 2 /\ ~only_sticky => Decompressed \/ (MovedAway /\ Excused),
           UNCHANGED places, child' = Running, sticky_only' = only_sticky
    PROVE  Placed(next, n)'
<1>1. /\ ~comm[2].sticky /\ comm[n - 2].sticky /\ comm[n - 1].sticky BY DEF Shape, Unpacks
<1>2. /\ next <= n - 2 \/ (next = n - 1 /\ i = n - 2) \/ (next = n /\ i = n - 1)
      /\ ~only_sticky => next = i + 1
      /\ next = 2 => ~only_sticky /\ i = 1
      /\ next # 1 /\ i < next
 <2>1. i < n - 2 => next <= n - 2
  <3> SUFFICES ASSUME i < n - 2, ~(next <= n - 2) PROVE FALSE OBVIOUS
  <3>1. n - 2 \in i + 1 .. next - 1 OBVIOUS
  <3> QED BY <1>1, <3>1
 <2>2. i = n - 2 => next = n - 1
  <3> SUFFICES ASSUME i = n - 2, next # n - 1 PROVE FALSE OBVIOUS
  <3>1. n - 1 \in i + 1 .. next - 1 OBVIOUS
  <3> QED BY <1>1, <3>1
 <2>3. ~only_sticky => next = i + 1
  <3> SUFFICES ASSUME ~only_sticky, next # i + 1 PROVE FALSE OBVIOUS
  <3> QED OBVIOUS
 <2>4. next = 2 => ~only_sticky /\ i = 1 BY <1>1
 <2> QED BY <2>1, <2>2, <2>3, <2>4
<1>3. (AwayOrNot(next, n) /\ Moving(next))'
 <2>1. next < n - 2 \/ next = n - 2 => InPlace \/ MovedAway \/ Decompressed
  BY <1>2 DEF Placed, AwayOrNot
 <2> QED BY <1>2, <2>1, PlacesKept DEF AwayOrNot, Moving
<1>4. UnpackingIt(next)'
 <2> QED BY <1>2, PlacesKept DEF Placed, Moving, UnpackingIt, places, files
<1>5. Changing(next, n)'
 <2>1. next \in 3 .. n - 3 /\ ~only_sticky => Decompressed \/ (MovedAway /\ Excused)
  <3> SUFFICES ASSUME next \in 3 .. n - 3, ~only_sticky
               PROVE  Decompressed \/ (MovedAway /\ Excused)
   OBVIOUS
  <3> QED BY <1>2 DEF Placed, Changing
 <2> QED BY <2>1, PlacesKept DEF Changing
<1>6. PackedOrNot(next, n)'
 <2>1. next = n - 1 => InPlace \/ MovedAway \/ Repacked \/ Lost BY <1>2 DEF Placed, PackedOrNot
 <2> QED BY <1>2, <2>1, PlacesKept DEF PackedOrNot
<1>7. MovedBack(next, n)'
 <2>1. next = n => Good(archive) \/ Lost BY <1>2 DEF Placed, MovedBack
 <2> QED BY <1>2, <2>1, PlacesKept DEF MovedBack
<1> QED BY <1>3, <1>4, <1>5, <1>6, <1>7 DEF Placed

\* A command that fails is noticed, unless its errors are ignored or a warning of gzip
\* is let pass.
LEMMA FailureNoticed ==
    ASSUME TypeOK, check_timeout, child # Running, child # 0, ~Info.ignore_error,
           ~Info.continue_func \/ (error.status = 0 /\ child # 2)
    PROVE  After("ok").type # "NONE"
<1>1. error \in Errors /\ (child \in 0 .. 255 \/ child = Killed) BY ConstantsAssumption DEF TypeOK
<1>2. /\ CommandError("ok").type # "NONE"
      /\ error.status = 0 /\ child # 2 => CommandError("ok").status # 2
 <2>1. CASE error.type = "STOPPED" BY <2>1 DEF CommandError
 <2>2. CASE error.type # "STOPPED"
  <3>1. CommandError("ok") = StatusError(error, child) BY <2>2 DEF CommandError
  <3>2. /\ StatusError(error, child).type # "NONE"
        /\ error.status = 0 /\ child # 2 => StatusError(error, child).status # 2
   BY <1>1, ConstantsAssumption DEF StatusError, Errors
  <3> QED BY <3>1, <3>2
 <2> QED BY <2>1, <2>2
<1> QED BY <1>2 DEF After, GzipContinue

\* How check_child goes on.
LEMMA CheckOutcomes ==
    ASSUME NEW spawned \in BOOLEAN, CheckChild("ok", spawned)
    PROVE  LET only_sticky == sticky_only \/ After("ok").type # "NONE"
               next        == NextCommand(only_sticky)
           IN /\ check_timeout /\ child # Running
              /\ \/ ~busy' /\ cut_short'
                 \/ ~busy' /\ next > Len(comm)
                 \/ ~busy' /\ spawn_failed'
                 \/ /\ ~(next > Len(comm)) /\ UNCHANGED comm
                    /\ current_command' = next /\ child' = Running /\ busy'
                    /\ sticky_only' = only_sticky
<1> DEFINE e           == After("ok")
           only_sticky == sticky_only \/ e.type # "NONE"
           first       == IF e.type # "NONE" THEN RememberFirst(e) ELSE first_error
           next        == NextCommand(only_sticky)
<1>1. /\ check_timeout
      /\ child # Running
      /\ IF ~Continues(e)
         THEN /\ Finish(e, sticky_only, first_error)
              /\ cut_short' = TRUE
         ELSE IF next > Len(comm)
         THEN /\ Finish(e, only_sticky, first)
              /\ UNCHANGED cut_short
         ELSE /\ StartCurrentCommand(comm, next, e, spawned)
              /\ sticky_only' = only_sticky
              /\ UNCHANGED comm
 BY DEF CheckChild, After
<1> HIDE DEF e, only_sticky, first, next
<1>2. \/ ~busy' /\ cut_short'
      \/ ~busy' /\ next > Len(comm)
      \/ ~busy' /\ spawn_failed'
      \/ /\ ~(next > Len(comm)) /\ UNCHANGED comm
         /\ current_command' = next /\ child' = Running /\ busy'
         /\ sticky_only' = only_sticky
 BY <1>1 DEF Finish, StartCurrentCommand
<1> QED BY <1>1, <1>2 DEF only_sticky, next, e

LEMMA CheckPlaced ==
    ASSUME IInv, format \in Formats, OnItsWay, Kept,
           NEW spawned \in BOOLEAN, CheckCommand(spawned)
    PROVE  /\ RestoresNameUnless'
           /\ busy' => OnItsWay'
<1> DEFINE only_sticky == sticky_only \/ After("ok").type # "NONE"
           next        == NextCommand(only_sticky)
           n           == Len(comm)
           i           == current_command
<1>1. UNCHANGED places /\ CheckChild("ok", spawned) BY DEF CheckCommand, places
<1>2. /\ check_timeout /\ child # Running
      /\ \/ ~busy' /\ cut_short'
         \/ ~busy' /\ next > n
         \/ ~busy' /\ spawn_failed'
         \/ /\ ~(next > n) /\ UNCHANGED comm
            /\ current_command' = next /\ child' = Running /\ busy'
            /\ sticky_only' = only_sticky
 BY <1>1, CheckOutcomes
<1>3. /\ TypeOK /\ Tracked /\ busy /\ comm \in Seq(CommandInfo) /\ i \in DOMAIN comm
      /\ sticky_only \in BOOLEAN /\ only_sticky \in BOOLEAN
 BY <1>2 DEF IInv, TypeOK
<1>4. /\ i \in 1 .. n /\ n \in Nat /\ n >= 5
      /\ i = 1 => MovesAway(Info)
      /\ i = 2 => Unpacks(Info, unsaved)
 BY <1>3, CommandOf DEF OnItsWay
<1>5. /\ next \in i + 1 .. n + 1
      /\ next = n + 1 \/ ~only_sticky \/ comm[next].sticky
      /\ \A j \in i + 1 .. next - 1 : only_sticky /\ ~comm[j].sticky
 BY <1>3, NextCommandChosen
<1>6. Kept' BY <1>1, PlacesKept
<1>7. Shape(comm, unsaved) /\ Placed(i, n) /\ (Info.sticky \/ ~sticky_only) BY DEF OnItsWay
<1>8. i = 1 /\ child # 0 => only_sticky BY <1>2, <1>3, <1>4, FailureNoticed DEF MovesAway
<1>9. i = 2 /\ ~only_sticky => Decompressed \/ (MovedAway /\ Excused)
 <2> SUFFICES ASSUME i = 2, ~only_sticky, MovedAway, ~Excused, UnpackingFailed PROVE FALSE
  BY <1>2, <1>7 DEF Placed, UnpackingIt
 <2>1. Unpacks(Info, unsaved) /\ error.status = 0 BY <1>3, <1>4 DEF Tracked
 <2>2. ~Info.ignore_error /\ (Info.continue_func => child # 2) /\ child # 0
  BY <2>1, TarAssumption DEF Unpacks, Excused, UnpackingFailed
 <2> QED BY <1>2, <1>3, <2>1, <2>2, FailureNoticed
<1> HIDE DEF only_sticky, next, n, i
<1>10. CASE ~busy' /\ next > n
 <2>1. i = n
  <3> SUFFICES ASSUME i # n PROVE FALSE OBVIOUS
  <3>1. n \in i + 1 .. next - 1 BY <1>4, <1>5, <1>10
  <3>2. comm[n].sticky BY <1>7 DEF Shape, n
  <3> QED BY <1>5, <3>1, <3>2
 <2>2. Good(archive) \/ Lost BY <1>4, <1>7, <2>1 DEF Placed, MovedBack
 <2>3. Good(archive)' \/ Lost' BY <1>1, <2>2, PlacesKept
 <2> QED BY <1>6, <1>10, <2>3 DEF RestoresNameUnless, Restored, Good, Lost
<1>11. CASE /\ ~(next > n) /\ UNCHANGED comm
            /\ current_command' = next /\ child' = Running /\ busy'
            /\ sticky_only' = only_sticky
 <2>1. next \in i + 1 .. n /\ (~only_sticky \/ comm[next].sticky) BY <1>4, <1>5, <1>11
 <2>2. sticky_only => only_sticky BY DEF only_sticky
 <2> PICK m \in Nat : m = n BY <1>4
 <2> PICK j \in 1 .. m : j = i BY <1>4
 <2> PICK k \in j + 1 .. m : k = next BY <2>1
 <2> PICK sticky \in BOOLEAN : sticky = only_sticky BY <1>3
 <2>3. /\ m >= 5 /\ m = Len(comm) /\ Placed(j, m)
       /\ sticky_only => sticky
       /\ ~sticky \/ comm[k].sticky
       /\ \A h \in j + 1 .. k - 1 : sticky /\ ~comm[h].sticky
       /\ j = 1 /\ child # 0 => sticky
       /\ j = 2 /\ ~sticky => Decompressed \/ (MovedAway /\ Excused)
       /\ child' = Running /\ sticky_only' = sticky
  BY <1>4, <1>5, <1>7, <1>8, <1>9, <1>11, <2>1, <2>2 DEF n
 <2>4. Placed(k, m)' BY <1>1, <1>2, <1>7, <2>3, NextPlaced
 <2>5. Placed(current_command, Len(comm))'
  BY <1>11, <2>4 DEF n, Placed, AwayOrNot, Moving, UnpackingIt, Changing,
                           PackedOrNot, MovedBack
 <2>6. Shape(comm, unsaved)' BY <1>1, <1>7, <1>11 DEF Shape, Unpacks, places, kind, op_ghosts
 <2>7. (Info.sticky \/ ~sticky_only)' BY <1>11, <2>1 DEF Info
 <2> QED BY <1>6, <1>11, <2>5, <2>6, <2>7 DEF RestoresNameUnless, Restored, OnItsWay
<1> QED BY <1>2, <1>6, <1>10, <1>11 DEF RestoresNameUnless

----
(* Every step keeps the invariant. *)

LEMMA TarInvInit == TarInit => TarInv
<1> SUFFICES ASSUME TarInit PROVE TarInv OBVIOUS
<1>1. IInv BY IInvInit DEF TarInit
<1>2. ~existed /\ ~busy /\ format \in Formats BY DEF TarInit, Init
<1> QED BY <1>1, <1>2 DEF TarInv, RestoresNameUnless, Restored, Kept

LEMMA RequestPlaced ==
    ASSUME IInv, format \in Formats, NEW script \in Seq(CommandInfo), NEW spawned \in BOOLEAN,
           NEW content, NEW list, Request(script, spawned), BeginOperation(content, list),
           ~CreatingArchive => Shape(script, list = "unsaved")
    PROVE  TarInv'
<1>1. IInv' /\ ~busy /\ comm' = script BY RequestStep DEF Request
<1>2. /\ archive' = (IF CreatingArchive THEN Absent ELSE "old")
      /\ tmp' = Absent /\ tar' = Absent /\ packed' = Absent
      /\ existed' = ~CreatingArchive /\ unsaved' = (list = "unsaved")
      /\ unpacked' = FALSE /\ format' = format
 BY DEF BeginOperation, kind
<1>3. CASE CreatingArchive
 <2>1. ~existed' BY <1>2, <1>3
 <2> QED BY <1>1, <1>2, <2>1 DEF TarInv, RestoresNameUnless, Restored, Kept
<1>4. CASE ~CreatingArchive
 <2>1. Kept' BY <1>2, <1>4, TarAssumption DEF Kept
 <2>2. (busy' /\ ~running) \/ (~busy' /\ spawn_failed')
  <3>1. CASE running
   <4>1. spawn_failed BY <1>1, <3>1 DEF IInv, Outcome, ReadyWhenIdle
   <4> QED BY <1>1, <3>1, <4>1 DEF Request, ghosts
  <3>2. CASE ~running
   <4>1. script # <<>> BY <1>4 DEF Shape
   <4> QED BY <3>2, <4>1 DEF Request, Start, StartCurrentCommand
  <3> QED BY <3>1, <3>2
 <2>3. CASE ~busy' /\ spawn_failed' BY <1>1, <1>2, <2>1, <2>3 DEF TarInv, RestoresNameUnless
 <2>4. CASE busy' /\ ~running
  <3>1. /\ current_command' = 1 /\ child' = Running /\ sticky_only' = FALSE
        /\ script # <<>>
   <4>1. script # <<>> BY <1>4 DEF Shape
   <4>2. Start(script, spawned) BY <2>4 DEF Request
   <4> QED BY <2>4, <4>1, <4>2 DEF Start, StartCurrentCommand
  <3>2. Shape(comm, unsaved)' BY <1>1, <1>2, <1>4 DEF Shape, Unpacks
  <3>3. InPlace' BY <1>2, <1>4, TarAssumption DEF InPlace, Good
  <3> PICK n \in Nat : n = Len(script) OBVIOUS
  <3>4. n >= 5 /\ n = Len(comm') BY <1>1, <1>4 DEF Shape
  <3>5. Placed(current_command, Len(comm))'
   BY <3>1, <3>3, <3>4 DEF Placed, AwayOrNot, Moving, UnpackingIt, Changing, PackedOrNot,
                           MovedBack
  <3> QED
   BY <1>1, <1>2, <2>1, <2>4, <3>1, <3>2, <3>5
   DEF TarInv, RestoresNameUnless, Restored, OnItsWay
 <2> QED BY <2>2, <2>3, <2>4
<1> QED BY <1>3, <1>4

LEMMA AddPlaced ==
    ASSUME TarInv, NEW deleted, NEW list, NEW spawned \in BOOLEAN, Add(deleted, list, spawned)
    PROVE  TarInv'
<1>1. /\ Request(AddScript(deleted, list), spawned) /\ BeginOperation("new", deleted)
      /\ CreatingArchive => deleted = "none"
 BY DEF Add
<1>2. ~CreatingArchive => Shape(AddScript(deleted, list), deleted = "unsaved") BY AddScriptShape
<1>3. AddScript(deleted, list) \in Seq(CommandInfo)
 <2>1. CASE CreatingArchive BY <1>1, <2>1, CreatingScript
 <2>2. CASE ~CreatingArchive BY <1>2, <2>2 DEF Shape
 <2> QED BY <2>1, <2>2
<1> QED BY <1>1, <1>2, <1>3, RequestPlaced DEF TarInv

LEMMA RemovePlaced ==
    ASSUME TarInv, NEW list, NEW spawned \in BOOLEAN, ArchiveRemove(list, spawned)
    PROVE  TarInv'
<1>1. /\ Request(RemoveScript(list), spawned) /\ BeginOperation("part", list)
      /\ ~CreatingArchive
 BY DEF ArchiveRemove
<1>2. Shape(RemoveScript(list), list = "unsaved") BY <1>1, RemoveScriptShape
<1>3. RemoveScript(list) \in Seq(CommandInfo) BY <1>2 DEF Shape
<1> QED BY <1>1, <1>2, <1>3, RequestPlaced DEF TarInv

LEMMA StopPlaced ==
    ASSUME TarInv, StopOperation
    PROVE  TarInv'
<1>1. /\ UNCHANGED <<archive, tmp, tar, packed, short_name, format, existed, unsaved, broken,
                     unpacked>>
      /\ UNCHANGED <<comm, current_command, child, busy, cut_short, spawn_failed>>
      /\ busy /\ (Info.sticky \/ sticky_only' = sticky_only) /\ IInv'
      /\ ~sticky_only' => ~sticky_only
 BY StopStep DEF StopOperation, Stop, files, kind, TarInv
<1>2. RestoresNameUnless'
 BY <1>1 DEF TarInv, RestoresNameUnless, Restored, Kept, PackingFails, NeverUnpacked
<1>3. ASSUME existed PROVE OnItsWay'
 <2>1. OnItsWay BY <1>1, <1>3 DEF TarInv
 <2>2. Shape(comm, unsaved)' BY <1>1, <2>1 DEF OnItsWay, Shape, Unpacks
 <2>3. (Info.sticky \/ ~sticky_only)' BY <1>1, <2>1 DEF OnItsWay, Info
 <2>4. /\ InPlace' <=> InPlace
       /\ MovedAway' <=> MovedAway
       /\ Decompressed' <=> Decompressed
       /\ Excused' <=> Excused
  BY <1>1 DEF InPlace, MovedAway, Decompressed, Excused, Good
 <2>5. /\ Repacked' <=> Repacked
       /\ Good(archive)' <=> Good(archive)
       /\ Lost' <=> Lost
       /\ UnpackingFailed' <=> UnpackingFailed
  BY <1>1 DEF Repacked, Packed, Excused, Good, Lost, PackingFails, NeverUnpacked,
              UnpackingFailed
 <2>6. Placed(current_command, Len(comm)) BY <2>1 DEF OnItsWay
 <2>7. Placed(current_command, Len(comm))'
  BY <1>1, <2>4, <2>5, <2>6 DEF Placed, AwayOrNot, Moving, UnpackingIt, Changing,
                                PackedOrNot, MovedBack
 <2> QED BY <2>2, <2>3, <2>7 DEF OnItsWay
<1> QED BY <1>1, <1>2, <1>3 DEF TarInv

LEMMA CheckPlacedAll ==
    ASSUME TarInv, NEW spawned \in BOOLEAN, CheckCommand(spawned)
    PROVE  TarInv'
<1>1. /\ IInv' /\ UNCHANGED <<existed, format>>
 BY CheckChildStep DEF CheckCommand, TarInv, kind, op_ghosts
<1>2. busy BY DEF CheckCommand, CheckChild, TarInv, IInv, TypeOK
<1>3. CASE existed BY <1>1, <1>2, <1>3, CheckPlaced DEF TarInv, RestoresNameUnless
<1>4. CASE ~existed BY <1>1, <1>4 DEF TarInv, RestoresNameUnless, Restored, Kept
<1> QED BY <1>3, <1>4

LEMMA EndPlacedAll ==
    ASSUME TarInv, NEW status \in ExitCodes, CommandEnds(status)
    PROVE  TarInv'
<1>1. /\ IInv' /\ UNCHANGED <<comm, current_command, sticky_only, busy, existed, format,
                              unsaved>>
      /\ child = Running
 BY Ending, ExitStep DEF CommandEnds, TarInv
<1>2. busy /\ TypeOK BY <1>1, ConstantsAssumption DEF TarInv, IInv, TypeOK
<1>3. CASE ~existed BY <1>1, <1>3 DEF TarInv, RestoresNameUnless, Restored, Kept
<1>4. CASE existed
 <2>1. OnItsWay BY <1>2, <1>4 DEF TarInv
 <2>2. Shape(comm, unsaved)' /\ (Info.sticky \/ ~sticky_only)'
  BY <1>1, <2>1 DEF OnItsWay, Shape, Unpacks, Info
 <2>3. /\ current_command \in 1 .. Len(comm) /\ Len(comm) \in Nat /\ Len(comm) >= 5
       /\ current_command = 1 => MovesAway(Info)
       /\ current_command = 2 => Unpacks(Info, unsaved)
       /\ current_command \in 3 .. Len(comm) - 3 => Changes(Info)
       /\ current_command = Len(comm) - 2 => Info.op = "compress"
       /\ current_command = Len(comm) - 1 => Info.op = "mv_back"
       /\ current_command = Len(comm) => Info.op = "rm_dir"
  BY <1>2, <2>1, CommandOf DEF OnItsWay, TarInv
 <2> PICK n \in Nat : n = Len(comm) BY <2>3
 <2> PICK i \in 1 .. n : i = current_command BY <2>3
 <2>4. Placed(i, n) /\ n >= 5 BY <2>1, <2>3 DEF OnItsWay
 <2>5. Placed(i, n)' BY <2>1, <2>3, <2>4, EndPlaced DEF OnItsWay, TarInv
 <2>6. Kept' BY <2>4, <2>5, PlacedIsKept
 <2>7. Placed(current_command, Len(comm))'
  BY <1>1, <2>5 DEF Placed, AwayOrNot, Moving, UnpackingIt, Changing, PackedOrNot, MovedBack
 <2> QED BY <1>1, <1>2, <2>2, <2>6, <2>7 DEF TarInv, OnItsWay, RestoresNameUnless, Restored
<1> QED BY <1>3, <1>4

LEMMA TarInvStep == TarInv /\ [TarNext]_tar_vars => TarInv'
<1> SUFFICES ASSUME TarInv, [TarNext]_tar_vars PROVE TarInv' OBVIOUS
<1>1. ASSUME NEW spawned \in BOOLEAN, NEW deleted, NEW list, Add(deleted, list, spawned)
      PROVE  TarInv'
 BY <1>1, AddPlaced
<1>2. ASSUME NEW spawned \in BOOLEAN, NEW list, ArchiveRemove(list, spawned)
      PROVE  TarInv'
 BY <1>2, RemovePlaced
<1>3. ASSUME NEW spawned \in BOOLEAN, CheckCommand(spawned)
      PROVE  TarInv'
 BY <1>3, CheckPlacedAll
<1>4. CASE StopOperation BY <1>4, StopPlaced
<1>5. ASSUME NEW status \in ExitCodes, CommandEnds(status)
      PROVE  TarInv'
 BY <1>5, EndPlacedAll
<1>6. CASE UNCHANGED tar_vars
 <2>1. UNCHANGED vars /\ UNCHANGED places BY <1>6 DEF tar_vars, places
 <2>2. IInv' BY <2>1, IInvStep DEF TarInv
 <2>3. /\ UNCHANGED <<comm, current_command, child, busy, sticky_only, cut_short, spawn_failed>>
       /\ UNCHANGED <<archive, tar, existed, format, unsaved, broken, unpacked, short_name>>
  BY <2>1 DEF vars, process_vars, ghosts, places, files, kind, op_ghosts
 <2>4. RestoresNameUnless'
  BY <2>1, <2>3, PlacesKept DEF TarInv, RestoresNameUnless, Restored, PackingFails,
                                NeverUnpacked
 <2>5. OnItsWay => OnItsWay'
  <3>1. Shape(comm, unsaved)' <=> Shape(comm, unsaved) BY <2>3 DEF Shape, Unpacks
  <3>2. Placed(current_command, Len(comm))' <=> Placed(current_command, Len(comm))
   BY <2>1, <2>3, PlacesKept DEF Placed, AwayOrNot, Moving, UnpackingIt, Changing,
                                 PackedOrNot, MovedBack, UnpackingFailed
  <3> QED BY <2>3, <3>1, <3>2 DEF OnItsWay, Info
 <2> QED BY <2>2, <2>3, <2>4, <2>5 DEF TarInv
<1> QED BY <1>1, <1>2, <1>3, <1>4, <1>5, <1>6 DEF TarNext

\* The archive is at its name when an operation on it is over, whatever fails or is
\* stopped and in whatever order, but for what the property names.
THEOREM RestoresName == TarSpec => []RestoresNameUnless
<1> QED BY TarInvInit, TarInvStep, PTL DEF TarInv, TarSpec
----
(* An operation that is reported to have succeeded has done what was asked.  What the unpacked
   archive holds is told by the last command that changes it. *)

\* What it holds after the first i commands, when all went well.
HoldsAfter(script, i, content) ==
    \/ content = "old" /\ \A k \in 3 .. i : script[k].op = "rm_list"
    \/ \E j \in 3 .. i :
        /\ \/ script[j].op = "add" /\ content = "new"
           \/ script[j].op = "delete" /\ content = "part"
        /\ \A k \in j + 1 .. i : script[k].op = "rm_list"

LEMMA HoldsSomething ==
    ASSUME NEW script, NEW i, NEW content, HoldsAfter(script, i, content)
    PROVE  content \in {"old", "part", "new"}
  BY DEF HoldsAfter

\* Only what the commands do matters.
LEMMA HoldsSame ==
    ASSUME NEW script, NEW other, NEW i \in Nat, NEW content, HoldsAfter(script, i, content),
           \A k \in 3 .. i : other[k].op = script[k].op
    PROVE  HoldsAfter(other, i, content)
  BY DEF HoldsAfter

LEMMA HoldsNext ==
    ASSUME NEW script, NEW i \in Nat, i >= 2, NEW content, HoldsAfter(script, i, content)
    PROVE  /\ script[i + 1].op = "rm_list" => HoldsAfter(script, i + 1, content)
           /\ script[i + 1].op = "add" => HoldsAfter(script, i + 1, "new")
           /\ script[i + 1].op = "delete" => HoldsAfter(script, i + 1, "part")
<1>1. i + 1 \in 3 .. i + 1 /\ (i + 1) + 1 .. i + 1 = {} OBVIOUS
<1>2. CASE script[i + 1].op = "rm_list"
 <2>1. CASE content = "old" /\ \A k \in 3 .. i : script[k].op = "rm_list"
  BY <1>2, <2>1 DEF HoldsAfter
 <2>2. ASSUME NEW j \in 3 .. i,
              \/ script[j].op = "add" /\ content = "new"
              \/ script[j].op = "delete" /\ content = "part",
              \A k \in j + 1 .. i : script[k].op = "rm_list"
       PROVE  HoldsAfter(script, i + 1, content)
  <3>1. j \in 3 .. i + 1 /\ \A k \in j + 1 .. i + 1 : script[k].op = "rm_list" BY <1>2, <2>2
  <3> QED BY <2>2, <3>1 DEF HoldsAfter
 <2> QED BY <1>2, <2>1, <2>2 DEF HoldsAfter
<1>3. CASE script[i + 1].op \in {"add", "delete"} BY <1>1, <1>3 DEF HoldsAfter
<1> QED BY <1>2, <1>3

LEMMA HoldsOnce ==
    ASSUME NEW script, NEW i \in Nat, NEW content, HoldsAfter(script, i, content),
           NEW other, HoldsAfter(script, i, other)
    PROVE  content = other
<1>1. ASSUME NEW j \in 3 .. i, \A k \in 3 .. i : script[k].op = "rm_list",
             script[j].op \in {"add", "delete"}
      PROVE  FALSE
 BY <1>1
<1>2. ASSUME NEW j \in 3 .. i, NEW h \in 3 .. i,
             script[j].op \in {"add", "delete"}, script[h].op \in {"add", "delete"},
             \A k \in j + 1 .. i : script[k].op = "rm_list",
             \A k \in h + 1 .. i : script[k].op = "rm_list"
      PROVE  j = h
 <2> QED BY <1>2
<1> QED BY <1>1, <1>2 DEF HoldsAfter

----
(* The scripts do what they are asked for, and notice when they do not. *)

\* The commands whose failure is not let pass, but for the warning of gzip.
Strict(command) ==
    /\ command.op \in {"add", "mv_back"} => ~command.ignore_error /\ ~command.continue_func
    /\ command.op = "compress" =>
           ~command.ignore_error /\ (command.continue_func => format = "gzip")

\* A script that is being written, and leaves the archive with that content.
PackedThen(script, content) ==
    /\ script \in Seq(CommandInfo) /\ Len(script) >= 2
    /\ HoldsAfter(script, Len(script), content)
    /\ \A i \in 1 .. Len(script) : Strict(script[i])

\* A whole script.
Scripted(script, content) ==
    /\ HoldsAfter(script, Len(script) - 3, content)
    /\ \A i \in 1 .. Len(script) : Strict(script[i])

LEMMA UncompressWritten ==
    ASSUME ~CreatingArchive
    PROVE  PackedThen(Uncompress(<<>>), "old")
<1> DEFINE script == Uncompress(<<>>)
<1>1. Unpacking(script, TRUE) /\ Len(script) = 2 BY UncompressShape
<1> HIDE DEF script
<1>2. \A i \in 1 .. 2 : Strict(script[i])
 <2>1. Strict(script[1]) /\ Strict(script[2]) BY <1>1 DEF Unpacking, MovesAway, Unpacks, Strict
 <2>2. \A i \in 1 .. 2 : i = 1 \/ i = 2 OBVIOUS
 <2> QED BY <2>1, <2>2
<1> QED BY <1>1, <1>2 DEF Unpacking, PackedThen, HoldsAfter, script

\* One more command.
LEMMA WrittenMore ==
    ASSUME NEW script, NEW content, PackedThen(script, content), NEW more \in Seq(CommandInfo),
           Len(more) = Len(script) + 1, \A i \in 1 .. Len(script) : more[i] = script[i],
           Strict(more[Len(script) + 1])
    PROVE  /\ more[Len(script) + 1].op = "rm_list" => PackedThen(more, content)
           /\ more[Len(script) + 1].op = "delete" => PackedThen(more, "part")
           /\ more[Len(script) + 1].op = "add" => PackedThen(more, "new")
<1> DEFINE n == Len(script)
<1>1. n \in Nat /\ n >= 2 /\ HoldsAfter(script, n, content) /\ Len(more) = n + 1 BY DEF PackedThen
<1>2. \A i \in 1 .. Len(more) : Strict(more[i])
 <2> SUFFICES ASSUME NEW i \in 1 .. Len(more) PROVE Strict(more[i]) OBVIOUS
 <2>1. CASE i = n + 1 BY <2>1
 <2>2. CASE i # n + 1
  <3>1. i \in 1 .. n BY <1>1, <2>2
  <3> QED BY <3>1 DEF PackedThen
 <2> QED BY <2>1, <2>2
<1>3. HoldsAfter(more, n, content)
 <2>1. \A k \in 3 .. n : more[k].op = script[k].op BY <1>1
 <2> QED BY <1>1, <2>1, HoldsSame
<1> HIDE DEF n
<1>4. /\ more[n + 1].op = "rm_list" => HoldsAfter(more, n + 1, content)
      /\ more[n + 1].op = "add" => HoldsAfter(more, n + 1, "new")
      /\ more[n + 1].op = "delete" => HoldsAfter(more, n + 1, "part")
 BY <1>1, <1>3, HoldsNext
<1> QED BY <1>1, <1>2, <1>4 DEF PackedThen, n

LEMMA ChangeWritten ==
    ASSUME NEW script, NEW content, PackedThen(script, content), NEW op \in {"delete", "add"}
    PROVE  /\ op = "delete" => PackedThen(BeginCommand(script, op), "part")
           /\ op = "add" => PackedThen(BeginCommand(script, op), "new")
           /\ BeginCommand(script, op)[Len(BeginCommand(script, op))].op = op
<1> DEFINE more == BeginCommand(script, op)
<1>1. script \in Seq(CommandInfo) /\ Len(script) \in Nat /\ op \in Ops
 BY TarAssumption DEF PackedThen
<1>2. /\ more \in Seq(CommandInfo) /\ Len(more) = Len(script) + 1
      /\ \A i \in 1 .. Len(script) : more[i] = script[i]
      /\ more[Len(script) + 1].op = op
      /\ ~more[Len(script) + 1].ignore_error /\ ~more[Len(script) + 1].continue_func
 BY <1>1, CommandsBegun
<1> HIDE DEF more
<1>3. Strict(more[Len(script) + 1]) BY <1>2 DEF Strict
<1>4. /\ op = "delete" => PackedThen(more, "part")
      /\ op = "add" => PackedThen(more, "new")
 BY <1>2, <1>3, WrittenMore
<1> QED BY <1>2, <1>4 DEF more

LEMMA ThenRemoveListWritten ==
    ASSUME NEW script, NEW content, PackedThen(script, content), NEW list
    PROVE  /\ PackedThen(ThenRemoveList(script, list), content)
           /\ LET whole == ThenRemoveList(script, list)
              IN whole = script \/ whole[Len(whole)].op = "rm_list"
<1>1. script \in Seq(CommandInfo) /\ Len(script) \in Nat /\ "rm_list" \in Ops
 BY TarAssumption DEF PackedThen
<1>2. CASE list # "file" BY <1>2 DEF ThenRemoveList
<1>3. CASE list = "file"
 <2> DEFINE more == SetSticky(BeginCommand(script, "rm_list"))
 <2>1. /\ more \in Seq(CommandInfo) /\ Len(more) = Len(script) + 1
       /\ \A i \in 1 .. Len(script) : more[i] = script[i]
       /\ more[Len(script) + 1].op = "rm_list"
  BY <1>1, StickyBegun
 <2>2. ThenRemoveList(script, list) = more BY <1>3 DEF ThenRemoveList
 <2> HIDE DEF more
 <2>3. Strict(more[Len(script) + 1]) BY <2>1 DEF Strict
 <2>4. PackedThen(more, content) BY <2>1, <2>3, WrittenMore
 <2> QED BY <2>1, <2>2, <2>4
<1> QED BY <1>2, <1>3

LEMMA DeleteWritten ==
    ASSUME NEW script, NEW content, PackedThen(script, content), NEW list, list # "unsaved"
    PROVE  /\ PackedThen(Delete(script, list), "part")
           /\ Delete(script, list)[Len(Delete(script, list))].op \in {"delete", "rm_list"}
<1> DEFINE begun == BeginCommand(script, "delete")
           whole == ThenRemoveList(begun, list)
<1>1. PackedThen(begun, "part") /\ begun[Len(begun)].op = "delete" BY ChangeWritten
<1>2. Delete(script, list) = whole BY DEF Delete, DeleteCommand
<1> HIDE DEF begun
<1>3. PackedThen(whole, "part") /\ (whole = begun \/ whole[Len(whole)].op = "rm_list")
 BY <1>1, ThenRemoveListWritten
<1> HIDE DEF whole
<1> QED BY <1>1, <1>2, <1>3

LEMMA IgnoredWritten ==
    ASSUME NEW script, NEW content, PackedThen(script, content),
           script[Len(script)].op \in {"delete", "rm_list"}
    PROVE  PackedThen(SetIgnoreError(script), content)
<1> DEFINE changed == SetIgnoreError(script)
           n       == Len(script)
<1>1. script \in Seq(CommandInfo) /\ n \in Nat /\ n >= 2 /\ script # <<>> BY DEF PackedThen
<1>2. KeepsOthers(script, changed) /\ changed[n].op = script[n].op BY <1>1, IgnoreErrorSet
<1> HIDE DEF changed
<1>3. /\ changed \in Seq(CommandInfo) /\ Len(changed) = n
      /\ \A i \in 1 .. n - 1 : changed[i] = script[i]
 BY <1>2 DEF KeepsOthers
<1>4. \A i \in 1 .. n : Strict(changed[i])
 <2> SUFFICES ASSUME NEW i \in 1 .. n PROVE Strict(changed[i]) OBVIOUS
 <2>1. CASE i = n BY <1>2, <2>1 DEF Strict
 <2>2. CASE i # n
  <3>1. i \in 1 .. n - 1 /\ Strict(script[i]) BY <1>1, <2>2 DEF PackedThen
  <3> QED BY <1>3, <3>1
 <2> QED BY <2>1, <2>2
<1>5. HoldsAfter(changed, n, content)
 <2>1. \A k \in 3 .. n : changed[k].op = script[k].op BY <1>1, <1>2, <1>3
 <2> QED BY <1>1, <2>1, HoldsSame DEF PackedThen
<1> QED BY <1>1, <1>3, <1>4, <1>5 DEF PackedThen, changed

LEMMA RecompressWritten ==
    ASSUME ~CreatingArchive, NEW script, NEW content, PackedThen(script, content)
    PROVE  Scripted(Recompress(script), content)
<1> DEFINE whole == Recompress(script)
<1> PICK n \in Nat : n = Len(script) BY DEF PackedThen
<1>1. script \in Seq(CommandInfo) /\ n >= 2 /\ HoldsAfter(script, n, content) BY DEF PackedThen
<1>2. /\ Len(whole) = n + 3
      /\ \A i \in 1 .. n : whole[i] = script[i]
      /\ whole[n + 1].op = "compress" /\ ~whole[n + 1].ignore_error
      /\ whole[n + 1].continue_func <=> format = "gzip"
      /\ whole[n + 2].op = "mv_back"
      /\ ~whole[n + 2].ignore_error /\ ~whole[n + 2].continue_func
      /\ whole[n + 3].op = "rm_dir"
 BY <1>1, RecompressCommands
<1> HIDE DEF whole
<1>3. HoldsAfter(whole, n, content)
 <2>1. \A k \in 3 .. n : whole[k].op = script[k].op BY <1>2
 <2> QED BY <1>1, <2>1, HoldsSame
<1>4. \A i \in 1 .. n + 3 : Strict(whole[i])
 <2> SUFFICES ASSUME NEW i \in 1 .. n + 3 PROVE Strict(whole[i]) OBVIOUS
 <2>1. CASE i \in 1 .. n BY <1>2, <2>1 DEF PackedThen
 <2>2. CASE i \in {n + 1, n + 2, n + 3} BY <1>2, <2>2 DEF Strict
 <2> QED BY <2>1, <2>2
<1>5. Len(whole) - 3 = n BY <1>2
<1> QED BY <1>2, <1>3, <1>4, <1>5 DEF Scripted, whole

LEMMA AddScripted ==
    ASSUME ~CreatingArchive, NEW deleted, deleted # "unsaved", NEW list
    PROVE  Scripted(AddScript(deleted, list), "new")
<1> DEFINE unpack == Uncompress(<<>>)
           first  == DeleteFirst(unpack, deleted)
           add    == AddCommand(first)
<1>1. PackedThen(unpack, "old") BY UncompressWritten
<1> HIDE DEF unpack
<1>2. \E content : PackedThen(first, content)
 <2>1. CASE deleted = "none" BY <1>1, <2>1 DEF DeleteFirst
 <2>2. CASE deleted # "none"
  <3>1. first = SetIgnoreError(Delete(unpack, deleted)) BY <2>2 DEF DeleteFirst
  <3>2. PackedThen(SetIgnoreError(Delete(unpack, deleted)), "part")
   BY <1>1, DeleteWritten, IgnoredWritten
  <3> QED BY <3>1, <3>2
 <2> QED BY <2>1, <2>2
<1> HIDE DEF first
<1>3. PackedThen(add, "new") BY <1>2, ChangeWritten DEF AddCommand
<1> HIDE DEF add
<1>4. PackedThen(ThenRemoveList(add, list), "new") BY <1>3, ThenRemoveListWritten
<1> QED BY <1>4, RecompressWritten DEF AddScript, add, first, unpack

LEMMA RemoveScripted ==
    ASSUME ~CreatingArchive, NEW list, list # "unsaved"
    PROVE  Scripted(RemoveScript(list), "part")
<1>1. PackedThen(Uncompress(<<>>), "old") BY UncompressWritten
<1>2. PackedThen(Delete(Uncompress(<<>>), list), "part") BY <1>1, DeleteWritten
<1> QED BY <1>2, RecompressWritten DEF RemoveScript

\* When there is no archive yet tar creates it, and there is nothing else to do.
Creates(script) ==
    /\ script \in Seq(CommandInfo) /\ script # <<>>
    /\ script[1].op = "create" /\ ~script[1].ignore_error /\ ~script[1].continue_func
    /\ \A i \in 2 .. Len(script) : script[i].op = "rm_list"

LEMMA AddCreates ==
    ASSUME CreatingArchive, NEW list
    PROVE  Creates(AddScript("none", list))
<1> DEFINE create == BeginCommand(<<>>, "create")
           more   == SetSticky(BeginCommand(create, "rm_list"))
<1>1. "create" \in Ops /\ "rm_list" \in Ops BY TarAssumption
<1>2. /\ create \in Seq(CommandInfo) /\ Len(create) = 1
      /\ create[1].op = "create" /\ ~create[1].ignore_error /\ ~create[1].continue_func
 <2>1. <<>> \in Seq(CommandInfo) /\ Len(<<>>) = 0 OBVIOUS
 <2>2. /\ create \in Seq(CommandInfo) /\ Len(create) = 0 + 1
       /\ create[0 + 1].op = "create"
       /\ ~create[0 + 1].ignore_error /\ ~create[0 + 1].continue_func
  BY <1>1, <2>1, CommandsBegun
 <2> QED BY <2>2
<1>3. AddScript("none", list) = IF list = "file" THEN more ELSE create
 BY DEF AddScript, Recompress, DeleteFirst, Uncompress, AddCommand, ThenRemoveList
<1> HIDE DEF create
<1>4. /\ more \in Seq(CommandInfo) /\ Len(more) = Len(create) + 1
      /\ \A i \in 1 .. Len(create) : more[i] = create[i]
      /\ more[Len(create) + 1].op = "rm_list"
 <2> QED BY <1>1, <1>2, StickyBegun
<1> HIDE DEF more
<1>5. Creates(create)
 <2>1. create # <<>> /\ \A i \in 2 .. Len(create) : create[i].op = "rm_list" BY <1>2
 <2> QED BY <1>2, <2>1 DEF Creates
<1>6. Creates(more)
 <2>1. Len(more) = 2 /\ more[1] = create[1] /\ more[2].op = "rm_list" BY <1>2, <1>4
 <2> QED
  <3>1. more # <<>> /\ \A i \in 2 .. Len(more) : more[i].op = "rm_list" BY <2>1
  <3> QED BY <1>2, <1>4, <2>1, <3>1 DEF Creates
<1> QED BY <1>3, <1>5, <1>6

----
(* The inductive invariant: as long as nothing failed, the files hold what the commands so far
   have made of them; and a command that fails, and matters, leaves a failure that will be
   noticed. *)

\* The operation is one that a report of success is to be relied on for.
Honest == ~unsaved /\ "delete" \notin broken /\ format # "compress"

\* What the files hold before command i of n is run.
Ready(i, n) ==
    IF existed
    THEN /\ i = 1 => archive = "old"
         /\ i = 2 => tmp = "old"
         /\ i \in 3 .. n - 2 => HoldsAfter(comm, i - 1, tar)
         /\ i = n - 1 => Packed = wanted
         /\ i >= n => archive = wanted
    ELSE i >= 2 => archive = wanted

\* The command that ended failed, and will be found to.
Failed == child # 0 /\ ~Info.ignore_error /\ (Info.continue_func => child # 2)

Progress(i, n) == IF child = Running THEN Ready(i, n) ELSE Ready(i + 1, n) \/ Failed

Purpose ==
    /\ existed /\ ~unsaved => Scripted(comm, wanted)
    /\ ~existed => Creates(comm) /\ wanted = "new"
    /\ ~sticky_only /\ Honest => Progress(current_command, Len(comm))

SuccessInv ==
    /\ TarInv
    /\ spawn_failed => running /\ ~busy
    /\ busy => Purpose
    /\ SuccessMeansDone

----
(* A command ends: it has done its part, or has failed. *)

\* What is known of a command that ends, whichever it is.
LEMMA EndingStatus ==
    ASSUME NEW status \in ExitCodes, CommandEnds(status)
    PROVE  /\ child' = status /\ Info' = Info
           /\ UNCHANGED <<comm, wanted, existed, short_name, format, unsaved>>
           /\ status # 0 /\ HasInput(Info.op) => Info.op \in broken'
           /\ Failed' <=> status # 0 /\ ~Info.ignore_error /\ (Info.continue_func => status # 2)
<1>1. /\ child' = status /\ UNCHANGED <<comm, current_command>>
      /\ UNCHANGED <<wanted, existed, short_name, format, unsaved>>
 BY DEF CommandEnds, ChildExits, kind
<1>2. Info' = Info BY <1>1 DEF Info
<1>3. status # 0 /\ HasInput(Info.op) => Info.op \in broken' BY DEF CommandEnds
<1> QED BY <1>1, <1>2, <1>3 DEF Failed

LEMMA MvAwayMoves ==
    ASSUME NEW status \in ExitCodes, CommandEnds(status), MovesAway(Info), archive = "old"
    PROVE  tmp' = "old" \/ Failed'
<1> QED BY EndingStatus DEF CommandEnds, Performs, Tears, MovesAway

LEMMA DecompressUnpacks ==
    ASSUME NEW status \in ExitCodes, CommandEnds(status), Unpacks(Info, FALSE),
           tmp = "old", format \in Formats, format # "compress"
    PROVE  tar' = "old" \/ Failed'
<1>1. Info.op = "decompress" /\ tmp # Absent BY TarAssumption DEF Unpacks
<1>2. tar' = tmp \/ (status # 0 /\ ~(status = 2 /\ format = "gzip"))
 BY <1>1 DEF CommandEnds, Performs, Tears, HasInput
<1>3. Info.continue_func => format = "gzip" BY TarAssumption DEF Unpacks
<1> QED BY <1>2, <1>3, EndingStatus DEF Unpacks

\* tar and the removal of a list.
LEMMA ChangeMade ==
    ASSUME NEW CONSTANT i \in Nat, i >= 3, NEW status \in ExitCodes, CommandEnds(status),
           Info = comm[i], Changes(Info), Strict(Info),
           HoldsAfter(comm, i - 1, tar), "delete" \notin broken'
    PROVE  HoldsAfter(comm, i, tar)' \/ Failed'
<1>1. tar \in {"old", "part", "new"} /\ tar # Absent BY HoldsSomething, TarAssumption
<1>2. /\ Info.op = "rm_list" => HoldsAfter(comm, i, tar)
      /\ Info.op = "add" => HoldsAfter(comm, i, "new")
      /\ Info.op = "delete" => HoldsAfter(comm, i, "part")
 <2> PICK h \in Nat : h = i - 1 /\ h >= 2 /\ h + 1 = i OBVIOUS
 <2> QED BY HoldsNext
<1>3. comm' = comm BY EndingStatus
<1>4. CASE Info.op = "rm_list"
 <2>1. tar' = tar BY <1>4 DEF CommandEnds, Performs, Tears, files
 <2> QED BY <1>2, <1>3, <1>4, <2>1
<1>5. CASE Info.op = "delete"
 <2>1. status = 0 BY <1>1, <1>5, EndingStatus DEF HasInput
 <2>2. tar' = "part" BY <1>1, <1>5, <2>1, ConstantsAssumption DEF CommandEnds, Performs, HasInput
 <2> QED BY <1>2, <1>3, <1>5, <2>2
<1>6. CASE Info.op = "add"
 <2>1. tar' = "new" \/ status # 0
  BY <1>1, <1>6, ConstantsAssumption DEF CommandEnds, Performs, Added
 <2>2. status # 0 => Failed' BY <1>6, EndingStatus DEF Strict
 <2> QED BY <1>2, <1>3, <1>6, <2>1, <2>2
<1> QED BY <1>4, <1>5, <1>6 DEF Changes

LEMMA CompressPacks ==
    ASSUME NEW status \in ExitCodes, CommandEnds(status), Info.op = "compress", Strict(Info),
           tar # Absent
    PROVE  Packed' = tar \/ Failed'
<1> QED BY EndingStatus DEF CommandEnds, Performs, Tears, HasInput, Strict, Packed

LEMMA MvBackMoves ==
    ASSUME NEW status \in ExitCodes, CommandEnds(status), Info.op = "mv_back", Strict(Info)
    PROVE  archive' = Packed \/ Failed'
<1> QED BY EndingStatus DEF CommandEnds, Performs, Tears, Strict

LEMMA CreateCreates ==
    ASSUME NEW status \in ExitCodes, CommandEnds(status), Info.op = "create",
           ~Info.ignore_error, ~Info.continue_func
    PROVE  archive' = "new" \/ Failed'
<1> QED BY ConstantsAssumption, EndingStatus DEF CommandEnds, Performs, Tears

\* Command i of n ends, of an archive that existed.
LEMMA EndReady ==
    ASSUME NEW CONSTANT n \in Nat, n >= 5, NEW CONSTANT i \in 1 .. n, n = Len(comm),
           Shape(comm, FALSE), Scripted(comm, wanted), Info = comm[i], existed,
           format \in Formats, format # "compress", "delete" \notin broken',
           NEW status \in ExitCodes, CommandEnds(status), Ready(i, n)
    PROVE  Ready(i + 1, n)' \/ Failed'
<1>1. UNCHANGED <<comm, wanted, existed, short_name>> BY EndingStatus
<1>2. Strict(Info) BY DEF Scripted
<1>3. CASE i = 1
 <2>1. archive = "old" /\ MovesAway(Info) BY <1>3 DEF Ready, Shape
 <2>2. tmp' = "old" \/ Failed' BY <2>1, MvAwayMoves
 <2> QED BY <1>1, <1>3, <2>2 DEF Ready
<1>4. CASE i = 2
 <2>1. tmp = "old" /\ Unpacks(Info, FALSE) BY <1>4 DEF Ready, Shape
 <2>2. tar' = "old" \/ Failed' BY <2>1, DecompressUnpacks
 <2>3. HoldsAfter(comm', 2, "old") BY DEF HoldsAfter
 <2> QED BY <1>1, <1>4, <2>2, <2>3 DEF Ready, HoldsAfter
<1>5. CASE i \in 3 .. n - 3
 <2>1. HoldsAfter(comm, i - 1, tar) /\ Changes(Info) BY <1>5 DEF Ready, Shape
 <2>2. HoldsAfter(comm, i, tar)' \/ Failed' BY <1>2, <1>5, <2>1, ChangeMade
 <2>3. (i + 1) - 1 = i /\ i + 1 \in 3 .. n - 2 BY <1>5
 <2> QED BY <1>1, <1>5, <2>2, <2>3 DEF Ready
<1>6. CASE i = n - 2
 <2>1. /\ HoldsAfter(comm, n - 3, tar) /\ HoldsAfter(comm, n - 3, wanted)
       /\ Info.op = "compress" /\ n - 3 \in Nat
  <3>1. i - 1 = n - 3 /\ i \in 3 .. n - 2 BY <1>6
  <3> QED BY <1>6, <3>1 DEF Ready, Shape, Scripted
 <2>2. tar = wanted /\ tar # Absent BY <2>1, HoldsOnce, HoldsSomething, TarAssumption
 <2>3. Packed' = tar \/ Failed' BY <1>2, <2>1, <2>2, CompressPacks
 <2>4. i + 1 = n - 1 BY <1>6
 <2> QED BY <1>1, <2>2, <2>3, <2>4 DEF Ready
<1>7. CASE i = n - 1
 <2>1. Packed = wanted /\ Info.op = "mv_back" BY <1>7 DEF Ready, Shape
 <2>2. archive' = Packed \/ Failed' BY <1>2, <2>1, MvBackMoves
 <2>3. i + 1 = n BY <1>7
 <2> QED BY <1>1, <2>1, <2>2, <2>3 DEF Ready
<1>8. CASE i = n
 <2>1. archive = wanted /\ Info.op = "rm_dir" BY <1>8 DEF Ready, Shape
 <2>2. UNCHANGED archive BY <2>1, RemovalEnds
 <2> QED BY <1>1, <1>8, <2>1, <2>2 DEF Ready
<1>9. i = 1 \/ i = 2 \/ i \in 3 .. n - 3 \/ i = n - 2 \/ i = n - 1 \/ i = n OBVIOUS
<1> QED BY <1>3, <1>4, <1>5, <1>6, <1>7, <1>8, <1>9

\* The same of an archive that is being created.
LEMMA EndCreating ==
    ASSUME NEW CONSTANT n \in Nat, NEW CONSTANT i \in 1 .. n, n = Len(comm),
           Creates(comm), wanted = "new", Info = comm[i], ~existed,
           NEW status \in ExitCodes, CommandEnds(status), Ready(i, n)
    PROVE  Ready(i + 1, n)' \/ Failed'
<1>1. UNCHANGED <<wanted, existed>> BY EndingStatus
<1>2. CASE i = 1
 <2>1. archive' = "new" \/ Failed' BY <1>2, CreateCreates DEF Creates
 <2> QED BY <1>1, <2>1 DEF Ready
<1>3. CASE i # 1
 <2>1. i >= 2 /\ Info.op = "rm_list" BY <1>3 DEF Creates
 <2>2. archive = wanted /\ UNCHANGED archive BY <2>1, RemovalEnds DEF Ready
 <2> QED BY <1>1, <2>2 DEF Ready
<1> QED BY <1>2, <1>3

LEMMA EndSucceeds ==
    ASSUME SuccessInv, NEW status \in ExitCodes, CommandEnds(status)
    PROVE  SuccessInv'
<1>1. /\ UNCHANGED <<comm, current_command, sticky_only, busy, running, existed, wanted, unsaved,
                     format, short_name, spawn_failed>>
      /\ child = Running /\ child' # Running /\ broken \subseteq broken'
 BY Ending DEF CommandEnds, ChildExits, ghosts
<1>2. /\ TarInv' /\ TypeOK /\ format \in Formats
      /\ spawn_failed => running /\ ~busy
      /\ busy => Purpose
 BY EndPlacedAll DEF SuccessInv, TarInv, IInv
<1>3. busy BY <1>1, <1>2, ConstantsAssumption DEF TypeOK
<1>4. SuccessMeansDone' BY <1>1, <1>3 DEF SuccessMeansDone
<1>5. ASSUME ~sticky_only', Honest'
      PROVE  Progress(current_command, Len(comm))'
 <2>1. Honest /\ ~sticky_only /\ "delete" \notin broken' BY <1>1, <1>5 DEF Honest
 <2>2. current_command \in 1 .. Len(comm) /\ Len(comm) \in Nat /\ comm \in Seq(CommandInfo)
  BY <1>2, <1>3 DEF TypeOK
 <2> PICK n \in Nat : n = Len(comm) BY <2>2
 <2> PICK i \in 1 .. n : i = current_command BY <2>2
 <2>3. Ready(i, n) /\ Info = comm[i] BY <1>1, <1>2, <1>3, <2>1 DEF Purpose, Progress, Info
 <2>4. Ready(i + 1, n)' \/ Failed'
  <3>1. CASE existed
   <4>1. OnItsWay /\ Shape(comm, FALSE) /\ n >= 5
    BY <1>2, <1>3, <2>1, <3>1 DEF SuccessInv, TarInv, OnItsWay, Honest, Shape, Unpacks
   <4> QED BY <1>2, <1>3, <2>1, <2>3, <3>1, <4>1, EndReady DEF Purpose, Honest
  <3>2. CASE ~existed BY <1>2, <1>3, <2>3, <3>2, EndCreating DEF Purpose
  <3> QED BY <3>1, <3>2
 <2> QED BY <1>1, <2>4 DEF Progress, Ready
<1>6. Purpose'
 <2>1. /\ existed /\ ~unsaved => Scripted(comm, wanted)
       /\ ~existed => Creates(comm) /\ wanted = "new"
  BY <1>2, <1>3 DEF Purpose
 <2>2. /\ (existed /\ ~unsaved => Scripted(comm, wanted))'
       /\ (~existed => Creates(comm) /\ wanted = "new")'
  BY <1>1, <2>1 DEF Scripted, Strict, Creates, HoldsAfter
 <2> QED BY <1>5, <2>2 DEF Purpose
<1> QED BY <1>1, <1>2, <1>4, <1>6 DEF SuccessInv

----
(* A command is started after another, or the operation is over. *)

LEMMA ReadyKept ==
    ASSUME NEW CONSTANT i, NEW CONSTANT n, UNCHANGED places, UNCHANGED comm
    PROVE  Ready(i, n)' <=> Ready(i, n)
<1> QED BY DEF places, files, kind, op_ghosts, Ready, Packed, HoldsAfter

LEMMA CheckEnds ==
    ASSUME NEW spawned \in BOOLEAN, CheckChild("ok", spawned)
    PROVE  LET e           == After("ok")
               only_sticky == sticky_only \/ e.type # "NONE"
               next        == NextCommand(only_sticky)
           IN /\ check_timeout /\ child # Running /\ NoteFailure(e)
              /\ \/ ~busy' /\ running'
                 \/ /\ ~busy' /\ UNCHANGED spawn_failed
                    /\ ~Continues(e) \/ next > Len(comm)
                 \/ /\ busy' /\ UNCHANGED <<comm, spawn_failed>>
                    /\ ~(next > Len(comm)) /\ current_command' = next /\ child' = Running
                    /\ sticky_only' = only_sticky
<1> DEFINE e           == After("ok")
           only_sticky == sticky_only \/ e.type # "NONE"
           first       == IF e.type # "NONE" THEN RememberFirst(e) ELSE first_error
           next        == NextCommand(only_sticky)
<1>1. /\ check_timeout
      /\ child # Running
      /\ NoteFailure(e)
      /\ IF ~Continues(e)
         THEN Finish(e, sticky_only, first_error)
         ELSE IF next > Len(comm)
         THEN Finish(e, only_sticky, first)
         ELSE /\ StartCurrentCommand(comm, next, e, spawned)
              /\ sticky_only' = only_sticky
              /\ UNCHANGED comm
 BY DEF CheckChild, After
<1> HIDE DEF e, only_sticky, first, next
<1>2. \/ ~busy' /\ running'
      \/ /\ ~busy' /\ UNCHANGED spawn_failed
         /\ ~Continues(e) \/ next > Len(comm)
      \/ /\ busy' /\ UNCHANGED <<comm, spawn_failed>>
         /\ ~(next > Len(comm)) /\ current_command' = next /\ child' = Running
         /\ sticky_only' = only_sticky
 BY <1>1 DEF Finish, StartCurrentCommand
<1> QED BY <1>1, <1>2 DEF only_sticky, next, e

LEMMA CheckSucceeds ==
    ASSUME SuccessInv, NEW spawned \in BOOLEAN, CheckCommand(spawned)
    PROVE  SuccessInv'
<1> DEFINE e           == After("ok")
           only_sticky == sticky_only \/ e.type # "NONE"
           next        == NextCommand(only_sticky)
<1>1. /\ UNCHANGED places /\ CheckChild("ok", spawned) /\ TarInv'
      /\ UNCHANGED <<existed, unsaved, broken, format, archive, wanted>>
 BY CheckPlacedAll DEF CheckCommand, places, files, kind, op_ghosts, SuccessInv
<1>2. /\ check_timeout /\ child # Running /\ NoteFailure(e)
      /\ \/ ~busy' /\ running'
         \/ /\ ~busy' /\ UNCHANGED spawn_failed
            /\ ~Continues(e) \/ next > Len(comm)
         \/ /\ busy' /\ UNCHANGED <<comm, spawn_failed>>
            /\ ~(next > Len(comm)) /\ current_command' = next /\ child' = Running
            /\ sticky_only' = only_sticky
 BY <1>1, CheckEnds
<1>3. /\ TypeOK /\ Tracked /\ FailuresNoted /\ busy /\ Purpose /\ ~spawn_failed
      /\ current_command \in DOMAIN comm /\ comm \in Seq(CommandInfo)
      /\ only_sticky \in BOOLEAN
 BY <1>2 DEF SuccessInv, TarInv, IInv, TypeOK
<1>4. /\ next \in current_command + 1 .. Len(comm) + 1
      /\ ~only_sticky => next = current_command + 1
 <2>1. /\ next \in current_command + 1 .. Len(comm) + 1
       /\ \A j \in current_command + 1 .. next - 1 : only_sticky /\ ~comm[j].sticky
  BY <1>3, NextCommandChosen
 <2> HIDE DEF only_sticky, next
 <2>2. ASSUME ~only_sticky, next # current_command + 1 PROVE FALSE
  <3>1. current_command + 1 \in current_command + 1 .. next - 1 BY <1>3, <2>1, <2>2
  <3> QED BY <2>1, <2>2, <3>1
 <2> QED BY <2>1, <2>2
<1>5. ~only_sticky => ~Failed
 <2> SUFFICES ASSUME ~only_sticky, Failed PROVE FALSE OBVIOUS
 <2>1. error.status = 0 BY <1>3 DEF Tracked
 <2> QED BY <1>2, <1>3, <2>1, FailureNoticed DEF Failed
<1>6. ~only_sticky /\ Honest => Ready(current_command + 1, Len(comm))
 BY <1>2, <1>3, <1>5 DEF Purpose, Progress
<1>7. e.status # 0 /\ e.type = "NONE" => only_sticky BY <1>2, <1>3, AfterStatus DEF Tracked
<1> HIDE DEF next
<1>8. CASE ~busy' /\ running' BY <1>1, <1>8 DEF SuccessInv, SuccessMeansDone
<1>9. CASE /\ ~busy' /\ UNCHANGED spawn_failed
           /\ ~Continues(e) \/ next > Len(comm)
 <2>1. ASSUME error'.type = "NONE", Honest PROVE archive = wanted
  <3>1. first_failure' = NoError
   <4>1. first_failure'.type = "NONE"
    BY <1>1, <1>3, <1>9, <2>1 DEF TarInv, IInv, Outcome, FirstErrorReported
   <4> QED BY <1>1, <4>1 DEF TarInv, IInv, FailuresNoted
  <3>2. first_failure = NoError /\ e.type = "NONE"
   BY <1>2, <1>3, <3>1 DEF NoteFailure, FailuresNoted, NoError
  <3>3. ~only_sticky BY <1>3, <3>2 DEF Tracked
  <3>4. Continues(e) BY <1>7, <3>2, <3>3 DEF Continues
  <3> HIDE DEF e, only_sticky
  <3>5. current_command + 1 > Len(comm) /\ current_command + 1 >= 2
   BY <1>3, <1>4, <1>9, <3>3, <3>4
  <3>6. current_command + 1 >= Len(comm) BY <1>3, <3>5
  <3> QED BY <1>6, <2>1, <3>3, <3>5, <3>6 DEF Ready
 <2>2. SuccessMeansDone' BY <1>1, <2>1 DEF SuccessMeansDone, Honest
 <2>3. ~spawn_failed' BY <1>3, <1>9
 <2> QED BY <1>1, <1>9, <2>2, <2>3 DEF SuccessInv
<1>10. CASE /\ busy' /\ UNCHANGED <<comm, spawn_failed>>
            /\ ~(next > Len(comm)) /\ current_command' = next /\ child' = Running
            /\ sticky_only' = only_sticky
 <2>1. /\ (existed /\ ~unsaved => Scripted(comm, wanted))'
       /\ (~existed => Creates(comm) /\ wanted = "new")'
  BY <1>1, <1>3, <1>10 DEF Purpose, Scripted, Strict, Creates, HoldsAfter
 <2>2. ASSUME ~sticky_only', Honest' PROVE Progress(current_command, Len(comm))'
  <3>1. ~only_sticky /\ Honest BY <1>1, <1>10, <2>2 DEF Honest
  <3>2. current_command' = current_command + 1 BY <1>4, <1>10, <3>1
  <3> HIDE DEF only_sticky, e
  <3> PICK i \in Nat : i = current_command + 1 BY <1>3
  <3> PICK n \in Nat : n = Len(comm) BY <1>3
  <3>3. Ready(i, n) BY <1>6, <3>1
  <3>4. Ready(i, n)' BY <1>1, <1>10, <3>3, ReadyKept
  <3> QED BY <1>10, <3>2, <3>4 DEF Progress, Ready
 <2>3. Purpose' BY <2>1, <2>2 DEF Purpose
 <2>4. ~spawn_failed' /\ SuccessMeansDone' BY <1>3, <1>10 DEF SuccessMeansDone
 <2> QED BY <1>1, <2>3, <2>4 DEF SuccessInv
<1> QED BY <1>2, <1>8, <1>9, <1>10

----
(* The other steps. *)

LEMMA SuccessInvInit == TarInit => SuccessInv
<1> SUFFICES ASSUME TarInit PROVE SuccessInv OBVIOUS
<1>1. TarInv BY TarInvInit
<1>2. ~busy /\ ~spawn_failed /\ wanted = archive BY DEF TarInit, Init
<1> QED BY <1>1, <1>2 DEF SuccessInv, SuccessMeansDone

\* A script that does what is asked is begun, or cannot be.
LEMMA RequestSucceeds ==
    ASSUME SuccessInv, TarInv', NEW script, NEW spawned \in BOOLEAN, NEW content, NEW list,
           Request(script, spawned), BeginOperation(content, list),
           ~CreatingArchive /\ list # "unsaved" => Scripted(script, content),
           CreatingArchive => Creates(script) /\ content = "new",
           script # <<>>
    PROVE  SuccessInv'
<1>1. ~busy /\ comm' = script BY DEF Request
<1>2. /\ archive' = (IF CreatingArchive THEN Absent ELSE "old")
      /\ existed' = ~CreatingArchive /\ unsaved' = (list = "unsaved") /\ wanted' = content
      /\ format' = format
 BY DEF BeginOperation, kind
<1>3. CASE running
 <2> QED BY <1>1, <1>3 DEF Request, SuccessInv, SuccessMeansDone
<1>4. CASE ~running
 <2>1. Start(script, spawned) /\ ~spawn_failed BY <1>4 DEF Request, SuccessInv
 <2>2. CASE ~spawned
  <3> QED BY <2>1, <2>2 DEF Start, StartCurrentCommand, SuccessInv, SuccessMeansDone
 <2>3. CASE spawned
  <3>1. /\ busy' /\ current_command' = 1 /\ child' = Running /\ ~spawn_failed'
   BY <2>1, <2>3 DEF Start, StartCurrentCommand
  <3>2. /\ (existed /\ ~unsaved => Scripted(comm, wanted))'
        /\ (~existed => Creates(comm) /\ wanted = "new")'
   BY <1>1, <1>2 DEF Scripted, Strict, Creates, HoldsAfter
  <3>3. existed' => Len(comm') >= 5 /\ Len(comm') \in Nat BY <3>1 DEF TarInv, OnItsWay, Shape
  <3>4. Progress(current_command, Len(comm))'
   <4>1. CASE existed'
    <5> PICK n \in Nat : n = Len(comm') /\ n >= 5 BY <3>3, <4>1
    <5>1. archive' = "old" BY <1>2, <4>1
    <5> QED BY <3>1, <4>1, <5>1 DEF Progress, Ready
   <4>2. CASE ~existed' BY <3>1, <4>2 DEF Progress, Ready
   <4> QED BY <4>1, <4>2
  <3> QED BY <3>1, <3>2, <3>4 DEF SuccessInv, SuccessMeansDone, Purpose
 <2> QED BY <2>2, <2>3
<1> QED BY <1>3, <1>4

LEMMA AddSucceeds ==
    ASSUME SuccessInv, NEW deleted, NEW list, NEW spawned \in BOOLEAN,
           Add(deleted, list, spawned)
    PROVE  SuccessInv'
<1>1. /\ Request(AddScript(deleted, list), spawned) /\ BeginOperation("new", deleted)
      /\ CreatingArchive => deleted = "none"
      /\ TarInv'
 BY AddPlaced DEF Add, SuccessInv
<1>2. CreatingArchive => Creates(AddScript(deleted, list)) BY <1>1, AddCreates
<1>3. ~CreatingArchive => Shape(AddScript(deleted, list), deleted = "unsaved") BY AddScriptShape
<1>4. AddScript(deleted, list) # <<>> BY <1>2, <1>3 DEF Creates, Shape
<1>5. ~CreatingArchive /\ deleted # "unsaved" => Scripted(AddScript(deleted, list), "new")
 BY AddScripted
<1> QED BY <1>1, <1>2, <1>4, <1>5, RequestSucceeds

LEMMA RemoveSucceeds ==
    ASSUME SuccessInv, NEW list, NEW spawned \in BOOLEAN, ArchiveRemove(list, spawned)
    PROVE  SuccessInv'
<1>1. /\ Request(RemoveScript(list), spawned) /\ BeginOperation("part", list)
      /\ ~CreatingArchive /\ TarInv'
 BY RemovePlaced DEF ArchiveRemove, SuccessInv
<1>2. Shape(RemoveScript(list), list = "unsaved") BY <1>1, RemoveScriptShape
<1>3. RemoveScript(list) # <<>> BY <1>2 DEF Shape
<1>4. list # "unsaved" => Scripted(RemoveScript(list), "part") BY <1>1, RemoveScripted
<1> QED BY <1>1, <1>3, <1>4, RequestSucceeds

\* The steps that leave the script, the files and the child alone.
LEMMA SameSucceeds ==
    ASSUME SuccessInv, TarInv', UNCHANGED <<comm, current_command, child, busy, running>>,
           UNCHANGED <<archive, tmp, tar, packed, short_name, format, wanted, existed, unsaved,
                       broken, spawn_failed>>,
           ~sticky_only' => ~sticky_only, busy \/ UNCHANGED error
    PROVE  SuccessInv'
<1>1. SuccessMeansDone' BY DEF SuccessInv, SuccessMeansDone
<1>2. Purpose => Purpose'
 <2> SUFFICES ASSUME Purpose PROVE Purpose' OBVIOUS
 <2>1. /\ (existed /\ ~unsaved => Scripted(comm, wanted))'
       /\ (~existed => Creates(comm) /\ wanted = "new")'
  BY DEF Purpose, Scripted, Strict, Creates, HoldsAfter
 <2>2. (Honest' <=> Honest) /\ (Failed' <=> Failed) BY DEF Honest, Failed, Info
 <2>3. Progress(current_command, Len(comm)) => Progress(current_command, Len(comm))'
  BY <2>2 DEF Progress, Ready, Packed, HoldsAfter
 <2> QED BY <2>1, <2>2, <2>3 DEF Purpose
<1> QED BY <1>1, <1>2 DEF SuccessInv

LEMMA SuccessInvStep == SuccessInv /\ [TarNext]_tar_vars => SuccessInv'
<1> SUFFICES ASSUME SuccessInv, [TarNext]_tar_vars PROVE SuccessInv' OBVIOUS
<1>1. ASSUME NEW spawned \in BOOLEAN, NEW deleted, NEW list, Add(deleted, list, spawned)
      PROVE  SuccessInv'
 BY <1>1, AddSucceeds
<1>2. ASSUME NEW spawned \in BOOLEAN, NEW list, ArchiveRemove(list, spawned)
      PROVE  SuccessInv'
 BY <1>2, RemoveSucceeds
<1>3. ASSUME NEW spawned \in BOOLEAN, CheckCommand(spawned)
      PROVE  SuccessInv'
 BY <1>3, CheckSucceeds
<1>4. CASE StopOperation
 <2>1. TarInv' BY <1>4, StopPlaced DEF SuccessInv
 <2>2. /\ UNCHANGED <<comm, current_command, child, busy, running>>
       /\ UNCHANGED <<archive, tmp, tar, packed, short_name, format, wanted, existed, unsaved,
                      broken, spawn_failed>>
       /\ (~sticky_only' => ~sticky_only) /\ busy
  BY <1>4 DEF StopOperation, Stop, files, kind
 <2> QED BY <2>1, <2>2, SameSucceeds
<1>5. ASSUME NEW status \in ExitCodes, CommandEnds(status)
      PROVE  SuccessInv'
 BY <1>5, EndSucceeds
<1>6. CASE UNCHANGED tar_vars
 <2>1. TarInv' BY <1>6, TarInvStep DEF SuccessInv
 <2>2. /\ UNCHANGED <<comm, current_command, child, busy, running, sticky_only, error>>
       /\ UNCHANGED <<archive, tmp, tar, packed, short_name, format, wanted, existed, unsaved,
                      broken, spawn_failed>>
  BY <1>6 DEF tar_vars, vars, process_vars, ghosts, files, kind, op_ghosts
 <2> QED BY <2>1, <2>2, SameSucceeds
<1> QED BY <1>1, <1>2, <1>3, <1>4, <1>5, <1>6 DEF TarNext

\* An operation that is reported to have succeeded has left the archive as it was asked
\* to, but for what the property names.
THEOREM SuccessIsDone == TarSpec => []SuccessMeansDone
<1> QED BY SuccessInvInit, SuccessInvStep, PTL DEF SuccessInv, TarSpec

----
----
(* Sequences of commands that are written one after the other. *)

\* What a sequence holds, of what is in some sequences.
MadeOf(flat, seqs, n) ==
    /\ \A k \in 1 .. Len(flat) : \E i \in 1 .. n : \E h \in 1 .. Len(seqs[i]) : flat[k] = seqs[i][h]
    /\ \A i \in 1 .. n : \A h \in 1 .. Len(seqs[i]) : \E k \in 1 .. Len(flat) : flat[k] = seqs[i][h]

Flattens(f, seqs, n) ==
    f = [i \in 1 .. n |-> IF i = 1 THEN seqs[i] ELSE f[i - 1] \o seqs[i]]

\* There is such a function, as far as one likes.
LEMMA FlattensTo ==
    ASSUME NEW S, NEW seqs \in Seq(Seq(S))
    PROVE  \A n \in 1 .. Len(seqs) : \E f : Flattens(f, seqs, n)
<1> DEFINE Fails == {n \in 1 .. Len(seqs) : ~\E f : Flattens(f, seqs, n)}
<1>1. SUFFICES ASSUME Fails # {} PROVE FALSE OBVIOUS
<1>2. Fails \in SUBSET Nat OBVIOUS
<1>3. PICK n \in Fails : \A m \in Fails : ~(m < n) BY <1>1, <1>2, SmallestOf
<1>4. CASE n = 1
 <2> DEFINE f == [i \in 1 .. 1 |-> seqs[i]]
 <2>1. f = [i \in 1 .. 1 |-> IF i = 1 THEN seqs[i] ELSE f[i - 1] \o seqs[i]] OBVIOUS
 <2> QED BY <1>4, <2>1 DEF Flattens
<1>5. CASE n # 1
 <2>1. n - 1 \in 1 .. Len(seqs) /\ n - 1 < n /\ n \in Nat BY <1>5
 <2>2. n - 1 \notin Fails BY <1>3, <2>1
 <2>3. PICK g : Flattens(g, seqs, n - 1) BY <2>1, <2>2
 <2>4. g = [i \in 1 .. n - 1 |-> IF i = 1 THEN seqs[i] ELSE g[i - 1] \o seqs[i]]
  BY <2>3 DEF Flattens
 <2> DEFINE f == [i \in 1 .. n |-> IF i = n THEN g[n - 1] \o seqs[n] ELSE g[i]]
 <2>5. ASSUME NEW i \in 1 .. n
       PROVE  f[i] = IF i = 1 THEN seqs[i] ELSE f[i - 1] \o seqs[i]
  <3>1. CASE i = n
   <4>1. n - 1 \in 1 .. n /\ n - 1 # n /\ n \in 1 .. n BY <2>1
   <4>2. f[n] = g[n - 1] \o seqs[n] /\ f[n - 1] = g[n - 1] BY <4>1
   <4>3. f[n] = f[n - 1] \o seqs[n] BY <4>2
   <4> HIDE DEF f
   <4> QED BY <1>5, <3>1, <4>3
  <3>2. CASE i # n
   <4>1. i \in 1 .. n - 1 /\ (i # 1 => i - 1 \in 1 .. n - 1) BY <2>1, <3>2
   <4>2. f[i] = g[i] /\ (i # 1 => f[i - 1] = g[i - 1]) BY <2>1, <3>2, <4>1
   <4>3. g[i] = IF i = 1 THEN seqs[i] ELSE g[i - 1] \o seqs[i] BY <2>4, <4>1
   <4> QED BY <4>2, <4>3
  <3> QED BY <3>1, <3>2
 <2>6. f = [i \in 1 .. n |-> IF i = 1 THEN seqs[i] ELSE f[i - 1] \o seqs[i]] BY <2>5
 <2> HIDE DEF f
 <2> QED BY <2>6 DEF Flattens
<1> QED BY <1>4, <1>5

\* What each of its values is.
LEMMA FlattenedSoFar ==
    ASSUME NEW S, NEW seqs \in Seq(Seq(S)), NEW n \in 1 .. Len(seqs), NEW f, Flattens(f, seqs, n)
    PROVE  \A i \in 1 .. n : f[i] \in Seq(S) /\ MadeOf(f[i], seqs, i)
<1> DEFINE Fails == {i \in 1 .. n : ~(f[i] \in Seq(S) /\ MadeOf(f[i], seqs, i))}
<1>1. SUFFICES ASSUME Fails # {} PROVE FALSE OBVIOUS
<1>2. Fails \in SUBSET Nat OBVIOUS
<1>3. PICK i \in Fails : \A m \in Fails : ~(m < i) BY <1>1, <1>2, SmallestOf
<1>4. i \in 1 .. n /\ i \in 1 .. Len(seqs) /\ seqs[i] \in Seq(S) OBVIOUS
<1>5. f[i] = IF i = 1 THEN seqs[i] ELSE f[i - 1] \o seqs[i] BY <1>4 DEF Flattens
<1>6. CASE i = 1
 <2>1. f[i] = seqs[i] BY <1>5, <1>6
 <2>2. MadeOf(seqs[i], seqs, i) BY <1>4, <1>6 DEF MadeOf
 <2> QED BY <1>3, <1>4, <2>1, <2>2
<1>7. CASE i # 1
 <2>1. i - 1 \in 1 .. n /\ i - 1 < i /\ i - 1 \notin Fails BY <1>3, <1>4, <1>7
 <2>2. f[i - 1] \in Seq(S) /\ MadeOf(f[i - 1], seqs, i - 1) BY <2>1
 <2> DEFINE s == f[i - 1] t == seqs[i] u == s \o t
 <2> HIDE DEF s, t, u
 <2>3. /\ s \in Seq(S) /\ t \in Seq(S)
       /\ MadeOf(s, seqs, i - 1)
       /\ t = seqs[i] /\ f[i] = u
  BY <1>4, <1>5, <1>7, <2>2 DEF s, t, u
 <2>4. /\ u \in Seq(S) /\ Len(u) = Len(s) + Len(t) /\ Len(s) \in Nat /\ Len(t) \in Nat
       /\ \A k \in 1 .. Len(s) : u[k] = s[k]
       /\ \A k \in 1 .. Len(t) : u[Len(s) + k] = t[k]
  <3> QED BY <2>3 DEF u
 <2>5. ASSUME NEW k \in 1 .. Len(u)
       PROVE  \E m \in 1 .. i : \E h \in 1 .. Len(seqs[m]) : u[k] = seqs[m][h]
  <3>1. CASE k \in 1 .. Len(s)
   <4>1. PICK m \in 1 .. i - 1 : \E h \in 1 .. Len(seqs[m]) : s[k] = seqs[m][h]
    BY <2>3, <3>1 DEF MadeOf
   <4>2. m \in 1 .. i BY <1>4
   <4> QED BY <2>4, <3>1, <4>1, <4>2
  <3>2. CASE k \notin 1 .. Len(s)
   <4>1. k - Len(s) \in 1 .. Len(t) /\ k = Len(s) + (k - Len(s)) BY <2>4, <3>2
   <4>2. u[k] = t[k - Len(s)] BY <2>4, <4>1
   <4>3. i \in 1 .. i BY <1>4
   <4> QED BY <2>3, <4>1, <4>2, <4>3
  <3> QED BY <3>1, <3>2
 <2>6. ASSUME NEW m \in 1 .. i, NEW h \in 1 .. Len(seqs[m])
       PROVE  \E k \in 1 .. Len(u) : u[k] = seqs[m][h]
  <3>1. CASE m = i
   <4>1. h \in 1 .. Len(t) /\ Len(s) + h \in 1 .. Len(u) BY <2>3, <2>4, <3>1
   <4> QED BY <2>3, <2>4, <3>1, <4>1
  <3>2. CASE m # i
   <4>1. m \in 1 .. i - 1 BY <1>4, <3>2
   <4>2. PICK k \in 1 .. Len(s) : s[k] = seqs[m][h] BY <2>3, <4>1 DEF MadeOf
   <4>3. k \in 1 .. Len(u) BY <2>4
   <4> QED BY <2>4, <4>2, <4>3
  <3> QED BY <3>1, <3>2
 <2>7. MadeOf(f[i], seqs, i) BY <2>3, <2>5, <2>6 DEF MadeOf
 <2> QED BY <1>3, <2>3, <2>4, <2>7
<1> QED BY <1>6, <1>7

\* All that sequences hold, one after the other.
LEMMA Flattened ==
    ASSUME NEW S, NEW seqs \in Seq(Seq(S))
    PROVE  FlattenSeq(seqs) \in Seq(S) /\ MadeOf(FlattenSeq(seqs), seqs, Len(seqs))
<1>1. CASE Len(seqs) = 0
 <2>1. FlattenSeq(seqs) = seqs BY <1>1 DEF FlattenSeq
 <2>2. seqs = <<>> BY <1>1
 <2> QED BY <2>1, <2>2 DEF MadeOf
<1>2. CASE Len(seqs) # 0
 <2> DEFINE n == Len(seqs)
            f == CHOOSE f : f = [i \in 1 .. n |-> IF i = 1 THEN seqs[i] ELSE f[i - 1] \o seqs[i]]
 <2>1. n \in 1 .. Len(seqs) BY <1>2
 <2>2. \E g : g = [i \in 1 .. n |-> IF i = 1 THEN seqs[i] ELSE g[i - 1] \o seqs[i]]
  BY <2>1, FlattensTo DEF Flattens
 <2>3. Flattens(f, seqs, n) BY <2>2 DEF Flattens
 <2>4. FlattenSeq(seqs) = f[n] BY <1>2 DEF FlattenSeq
 <2> HIDE DEF f, n
 <2>5. f[n] \in Seq(S) /\ MadeOf(f[n], seqs, n)
  <3>1. n \in 1 .. n /\ n \in 1 .. Len(seqs) BY <2>1
  <3> QED BY <2>3, <3>1, FlattenedSoFar
 <2> QED BY <2>4, <2>5 DEF n
<1> QED BY <1>1, <1>2

\* A set as a sequence.
LEMMA SetInOrder ==
    ASSUME NEW S, IsFiniteSet(S)
    PROVE  SetToSeq(S) \in Seq(S) /\ \A x \in S : \E i \in 1 .. Len(SetToSeq(S)) : SetToSeq(S)[i] = x
<1> DEFINE n == Cardinality(S)
           Orders(f) == f \in [1 .. n -> S] /\ IsInjective(f)
<1>1. n \in Nat /\ ExistsBijection(1 .. n, S) BY FS_CardinalityType
<1>2. \E f \in [1 .. n -> S] : IsInjective(f)
 <2>1. PICK f : f \in Bijection(1 .. n, S) BY <1>1 DEF ExistsBijection
 <2> QED BY <2>1 DEF Bijection, Injection
<1>3. SetToSeq(S) \in [1 .. n -> S] /\ IsInjective(SetToSeq(S)) BY <1>2 DEF SetToSeq
<1> DEFINE q == SetToSeq(S)
<1> HIDE DEF q
<1>4. q \in [1 .. n -> S] /\ q \in Injection(1 .. n, S) BY <1>3 DEF q, Injection
<1>5. Cardinality(1 .. n) = n
 <2>1. 1 \in Int /\ n \in Int BY <1>1
 <2>2. Cardinality(1 .. n) = IF 1 > n THEN 0 ELSE n - 1 + 1 BY <2>1, FS_Interval
 <2> QED BY <1>1, <2>2
<1> HIDE DEF n
<1>6. q \in Surjection(1 .. n, S) BY <1>4, <1>5, FS_Injection DEF n
<1>7. \A x \in S : \E i \in 1 .. n : q[i] = x BY <1>6 DEF Surjection
<1>8. q \in Seq(S) /\ Len(q) = n BY <1>1, <1>4
<1> QED BY <1>7, <1>8 DEF q

----
(* What is true of all back ends: an option that one supports it hands on to its program, and
   there is a program that reads, and one that writes unless it is only read. *)

ProgramNames ==
    {"7z", "7za", "7zr", "unace", "unalz", "ar", "arj", "gzip", "bzip2", "compress", "uncompress",
     "sh", "dpkg-deb", "lha", "lrzip", "rar", "unrar", "tar", "unstuff", "unzip", "zip", "zoo"}

Sound(r) ==
    /\ "avoid_overwrite" \in r.can => "avoid_overwrite" \in r.flags
    /\ "skip_older" \in r.can => "skip_older" \in r.flags
    /\ "junk_paths" \in r.can <=> "junk_paths" \in r.flags
    /\ r.one_file \in BOOLEAN /\ r.chooses \in BOOLEAN
    /\ r.reads \in Seq(ProgramNames) /\ r.reads # <<>>
    /\ r.writes \in Seq(ProgramNames) /\ (r.can_write # {} => r.writes # <<>>)

LEMMA ReaderSound ==
    ASSUME NEW program \in ProgramNames
    PROVE  /\ Sound(Reader(program))
           /\ Reader(program).chooses /\ ~Reader(program).one_file
  BY DEF Sound, Reader, Command, ProgramNames

LEMMA WriterSound ==
    ASSUME NEW program \in ProgramNames
    PROVE  /\ Sound(Writer(program))
           /\ Writer(program).chooses /\ ~Writer(program).one_file
  BY DEF Sound, Writer, Reader, Command, ProgramNames

LEMMA CFileSound ==
    ASSUME NEW program \in ProgramNames
    PROVE  Sound(CFile(program)) /\ CFile(program).one_file /\ CFile(program).chooses
  BY DEF Sound, CFile, Writer, Reader, Command, ProgramNames

LEMMA SevenZSound == Sound(SevenZ) /\ SevenZ.chooses
  BY DEF Sound, SevenZ, Command, ProgramNames
LEMMA AceSound == Sound(Ace) /\ Ace.chooses
  BY DEF Sound, Ace, Reader, Command, ProgramNames
LEMMA AlzSound == Sound(Alz) /\ Alz.chooses
  BY DEF Sound, Alz, Reader, Command, ProgramNames
LEMMA ArSound == Sound(Ar) /\ Ar.chooses
  BY DEF Sound, Ar, Writer, Reader, Command, ProgramNames
LEMMA ArjSound == Sound(Arj) /\ Arj.chooses
  BY DEF Sound, Arj, Writer, Reader, Command, Options, ProgramNames
LEMMA CompressedZSound == Sound(CompressedZ) /\ CompressedZ.one_file
  BY DEF Sound, CompressedZ, CFile, Writer, Reader, Command, ProgramNames
LEMMA CpioSound == Sound(Cpio) /\ Cpio.chooses
  BY DEF Sound, Cpio, Reader, Command, ProgramNames
LEMMA DpkgSound == Sound(Dpkg) /\ ~Dpkg.chooses
  BY DEF Sound, Dpkg, Reader, Command, ProgramNames
LEMMA IsoSound == Sound(Iso) /\ Iso.chooses
  BY DEF Sound, Iso, Reader, Command, ProgramNames
LEMMA LhaSound == Sound(Lha) /\ Lha.chooses
  BY DEF Sound, Lha, Writer, Reader, Command, ProgramNames
LEMMA LrzipSound == Sound(Lrzip) /\ Lrzip.one_file
  BY DEF Sound, Lrzip, Writer, Reader, Command, ProgramNames
LEMMA RarSound == Sound(Rar) /\ Rar.chooses
  BY DEF Sound, Rar, Command, Options, ProgramNames
LEMMA RpmSound == Sound(Rpm) /\ Rpm.chooses
  BY DEF Sound, Rpm, Reader, Command, ProgramNames
LEMMA TarSound == Sound(Tar) /\ Tar.chooses
  BY DEF Sound, Tar, Writer, Reader, Command, ProgramNames
LEMMA UnstuffSound == Sound(Unstuff)
  BY DEF Sound, Unstuff, Reader, Command, ProgramNames
LEMMA InfoZipSound == Sound(InfoZip) /\ InfoZip.chooses
  BY DEF Sound, InfoZip, Command, Options, ProgramNames
LEMMA JarSound == Sound(Jar) /\ Jar.chooses
  BY DEF Sound, Jar, InfoZip, Command, Options, ProgramNames
LEMMA ZooSound == Sound(Zoo) /\ Zoo.chooses
  BY DEF Sound, Zoo, Writer, Reader, Command, ProgramNames

Names == {"sevenz", "ace", "alz", "ar", "arj", "gzip", "bzip", "compress", "cpio", "dpkg", "iso",
          "jar", "lha", "lrzip", "rar", "rpm", "tar", "unstuff", "zip", "zoo"}

\* All of the table.
LEMMA BackEndIs ==
    ASSUME NEW b \in DOMAIN BackEnd
    PROVE  /\ Sound(BackEnd[b])
           /\ b \in CFiles => BackEnd[b].one_file
           /\ b \in {"iso", "jar"} => ~BackEnd[b].one_file
           /\ ~BackEnd[b].chooses => BackEnd[b].one_file \/ b \in {"dpkg", "unstuff"}
<1>1. b \in Names BY DEF BackEnd, Names
<1>2. CASE b \in {"sevenz", "ace", "alz", "ar", "arj", "cpio"}
 <2>1. BackEnd[b] \in {SevenZ, Ace, Alz, Ar, Arj, Cpio} BY <1>2 DEF BackEnd
 <2> QED BY <1>2, <2>1, SevenZSound, AceSound, AlzSound, ArSound, ArjSound, CpioSound DEF CFiles
<1>3. CASE b \in {"lha", "rar", "rpm", "tar", "zip", "zoo"}
 <2>1. BackEnd[b] \in {Lha, Rar, Rpm, Tar, InfoZip, Zoo} BY <1>3 DEF BackEnd
 <2> QED BY <1>3, <2>1, LhaSound, RarSound, RpmSound, TarSound, InfoZipSound, ZooSound DEF CFiles
<1>4. CASE b \in {"gzip", "bzip", "compress", "lrzip"}
 <2>1. BackEnd[b] \in {CFile("gzip"), CFile("bzip2"), CompressedZ, Lrzip} BY <1>4 DEF BackEnd
 <2>2. "gzip" \in ProgramNames /\ "bzip2" \in ProgramNames BY DEF ProgramNames
 <2>3. /\ Sound(CFile("gzip")) /\ CFile("gzip").one_file
       /\ Sound(CFile("bzip2")) /\ CFile("bzip2").one_file
  BY <2>2, CFileSound
 <2> QED BY <1>4, <2>1, <2>3, CompressedZSound, LrzipSound DEF CFiles
<1>5. CASE b \in {"dpkg", "unstuff"}
 <2>1. BackEnd[b] \in {Dpkg, Unstuff} BY <1>5 DEF BackEnd
 <2> QED BY <1>5, <2>1, DpkgSound, UnstuffSound DEF CFiles
<1>6. CASE b \in {"iso", "jar"}
 <2>1. BackEnd[b] = IF b = "iso" THEN Iso ELSE Jar BY <1>6 DEF BackEnd
 <2>2. ~Iso.one_file /\ ~Jar.one_file BY DEF Iso, Jar, InfoZip, Reader, Command
 <2> QED BY <1>6, <2>1, <2>2, IsoSound, JarSound DEF CFiles
<1> QED BY <1>1, <1>2, <1>3, <1>4, <1>5, <1>6 DEF Names

----
(* The commands of a script. *)

\* A program is one of those that are known.
LEMMA ProgramKnown ==
    ASSUME back_end \in DOMAIN BackEnd
    PROVE  /\ Program(Be.reads) \in AnyProgram
           /\ Be.can_write # {} => Program(Be.writes) \in AnyProgram
<1>1. Sound(Be) BY BackEndIs DEF Be
<1>2. ASSUME NEW programs \in Seq(ProgramNames), programs # <<>>
      PROVE  Program(programs) \in ToSet(programs)
 <2> DEFINE Fits(i) == i = Len(programs) \/ IsInstalled(programs[i])
            T == {i \in DOMAIN programs : Fits(i)}
 <2>1. Len(programs) \in T /\ T \in SUBSET Nat BY <1>2
 <2>2. PICK i \in T : \A h \in T : ~(h < i) BY <2>1, SmallestOf
 <2>3. \A h \in 1 .. i - 1 : ~IsInstalled(programs[h])
  <3> SUFFICES ASSUME NEW h \in 1 .. i - 1, IsInstalled(programs[h]) PROVE FALSE OBVIOUS
  <3>1. h \in T /\ h < i BY <1>2
  <3> QED BY <2>2, <3>1
 <2>4. \E k \in DOMAIN programs :
           /\ k = Len(programs) \/ IsInstalled(programs[k])
           /\ \A h \in 1 .. k - 1 : ~IsInstalled(programs[h])
  BY <2>2, <2>3
 <2> QED BY <2>4, Zenon DEF Program, ToSet
<1>3. ToSet(Be.reads) \subseteq Programs(back_end) /\ ToSet(Be.writes) \subseteq Programs(back_end)
 BY DEF Programs, Be
<1>4. Programs(back_end) \subseteq AnyProgram BY DEF AnyProgram
<1> QED BY <1>1, <1>2, <1>3, <1>4 DEF Sound

LEMMA OpsOfCommands ==
    /\ \A program \in AnyProgram, does \in {"prepare", "add", "delete", "list", "test"},
          X \in SUBSET Files :
          [program |-> program, does |-> does, files |-> X] \in CommandOps
    /\ \A dir \in {"work", "list", "move"} :
          [program |-> "rm", does |-> "remove", dir |-> dir, files |-> {}] \in CommandOps
    /\ \A X \in SUBSET Files, keep \in BOOLEAN :
          [program |-> "mv", does |-> "move", files |-> X,
           keep |-> keep, update |-> FALSE, top |-> TRUE] \in CommandOps
  BY DEF CommandOps

LEMMA MembersKnown ==
    ASSUME back_end \in DOMAIN BackEnd
    PROVE  Members \subseteq Files /\ Members # {}
<1> QED BY BackEndsAssumption DEF Members

\* What is asked for, when it is to extract.
Extraction(j) ==
    /\ j.action = "extract" /\ j.files \subseteq Members
    /\ j.overwrite \in BOOLEAN /\ j.skip_older \in BOOLEAN
    /\ j.junk_paths \in BOOLEAN /\ j.base_dir \in BOOLEAN
    /\ Be.one_file => ~j.base_dir
    /\ j.before \in [Files -> [{"top", "folder"} -> Contents]]

LEMMA ExtractsIsOp ==
    ASSUME back_end \in DOMAIN BackEnd, NEW j, Extraction(j), NEW program \in AnyProgram,
           NEW X \in SUBSET Files, NEW to \in {"dest", "move"}
    PROVE  LET op == Extracts(j, program, X, to)
           IN /\ op \in CommandOps
              /\ op.does = "extract" /\ op.files = X /\ op.to = to
              /\ op.keep \in BOOLEAN /\ op.keep <=> ("avoid_overwrite" \in Be.flags /\ ~j.overwrite)
              /\ op.update \in BOOLEAN /\ op.update <=> ("skip_older" \in Be.flags /\ j.skip_older)
              /\ op.top \in BOOLEAN
              /\ op.top <=> (Be.one_file \/ ("junk_paths" \in Be.flags /\ j.junk_paths))
<1>1. Be.one_file \in BOOLEAN BY BackEndIs DEF Be, Sound
<1> DEFINE keep   == "avoid_overwrite" \in Be.flags /\ ~j.overwrite
           update == "skip_older" \in Be.flags /\ j.skip_older
           top    == Be.one_file \/ ("junk_paths" \in Be.flags /\ j.junk_paths)
<1>2. keep \in BOOLEAN /\ update \in BOOLEAN /\ top \in BOOLEAN BY <1>1
<1>3. Extracts(j, program, X, to) =
          [program |-> program, does |-> "extract", files |-> X, to |-> to,
           keep |-> keep, update |-> update, top |-> top]
 BY DEF Extracts
<1> HIDE DEF keep, update, top
<1>4. [program |-> program, does |-> "extract", files |-> X, to |-> to,
       keep |-> keep, update |-> update, top |-> top] \in CommandOps
 BY <1>2 DEF CommandOps
<1>5. Extracts(j, program, X, to) \in CommandOps BY <1>3, <1>4
<1>6. LET op == Extracts(j, program, X, to)
      IN /\ op.does = "extract" /\ op.files = X /\ op.to = to
         /\ op.keep = keep /\ op.update = update /\ op.top = top
 BY <1>3
<1> QED BY <1>2, <1>5, <1>6 DEF keep, update, top

----
Place(op) == IF op.top THEN "top" ELSE "folder"

Keeps(op, there) == there # "nothing" /\ (op.keep \/ (op.update /\ there = "newer"))

\* The file in that place may be replaced.
Allowed(j, f, place) ==
    LET there == j.before[f][place]
    IN \/ f \in Asked(j) /\ j.overwrite /\ ~(j.skip_older /\ there = "newer")
       \/ back_end \in {"dpkg", "unstuff"} /\ f \notin Filtered(j)
       \/ j.overwrite /\ MoveToDestDir(j) /\ (j.base_dir \/ Can("skip_older"))

\* A command only replaces what may be.
Spares(j, op) ==
    \A f \in op.files :
        \/ j.before[f][Place(op)] = "nothing"
        \/ Keeps(op, j.before[f][Place(op)])
        \/ Allowed(j, f, Place(op))

OpFine(j, op) ==
    /\ j.action = "extract" /\ (op.does = "move" \/ (op.does = "extract" /\ op.to = "dest")) =>
           Spares(j, op)
    /\ j.action \in {"list", "test"} => op.files \subseteq Members

CommandFine(j, command) ==
    /\ command.op \in CommandOps /\ OpFine(j, command.op)
    /\ ~command.continue_func
    /\ command.ignore_error => command.op.does \in {"delete", "remove"}

Fine(j, script) ==
    /\ script \in Seq(CommandInfo)
    /\ \A i \in 1 .. Len(script) : CommandFine(j, script[i])

\* The script has such a command, whose errors count.
Has(script, op) == \E i \in 1 .. Len(script) : script[i].op = op /\ ~script[i].ignore_error

HasStill(script, more) == \A op : Has(script, op) => Has(more, op)

LEMMA NothingFine == ASSUME NEW j PROVE Fine(j, <<>>) /\ \A op : ~Has(<<>>, op)
  BY DEF Fine, Has

LEMMA BegunFine ==
    ASSUME NEW j, NEW script, Fine(j, script), NEW op \in CommandOps, OpFine(j, op)
    PROVE  /\ Fine(j, BeginCommand(script, op))
           /\ BeginCommand(script, op) # <<>>
           /\ BeginCommand(script, op)[Len(BeginCommand(script, op))].op = op
           /\ Has(BeginCommand(script, op), op)
           /\ HasStill(script, BeginCommand(script, op))
<1> DEFINE more == BeginCommand(script, op)
           n == Len(script)
<1>1. script \in Seq(CommandInfo) /\ op \in Ops /\ n \in Nat BY BackEndsAssumption DEF Fine
<1>2. /\ more \in Seq(CommandInfo) /\ Len(more) = n + 1
      /\ \A i \in 1 .. n : more[i] = script[i]
      /\ more[n + 1].op = op /\ ~more[n + 1].ignore_error /\ ~more[n + 1].continue_func
 BY <1>1, CommandsBegun
<1> HIDE DEF more
<1>3. n + 1 \in 1 .. Len(more) /\ \A i \in 1 .. n : i \in 1 .. Len(more) BY <1>1, <1>2
<1>4. Fine(j, more)
 <2>1. ASSUME NEW i \in 1 .. Len(more) PROVE CommandFine(j, more[i])
  <3>1. CASE i = n + 1 BY <1>2, <3>1 DEF CommandFine
  <3>2. CASE i # n + 1
   <4>1. i \in 1 .. n BY <1>1, <1>2, <3>2
   <4> QED BY <1>2, <4>1 DEF Fine
  <3> QED BY <3>1, <3>2
 <2> QED BY <1>2, <2>1 DEF Fine
<1>5. Has(more, op) BY <1>2, <1>3 DEF Has
<1>6. HasStill(script, more) BY <1>2, <1>3 DEF Has, HasStill
<1>7. more # <<>> BY <1>1, <1>2
<1> QED BY <1>2, <1>4, <1>5, <1>6, <1>7 DEF more

LEMMA StickyFine ==
    ASSUME NEW j, NEW script, Fine(j, script), script # <<>>
    PROVE  /\ Fine(j, SetSticky(script)) /\ SetSticky(script) # <<>>
           /\ HasStill(script, SetSticky(script))
           /\ SetSticky(script)[Len(SetSticky(script))].op = script[Len(script)].op
<1> DEFINE now == SetSticky(script)
           n == Len(script)
<1>1. script \in Seq(CommandInfo) /\ n \in Nat /\ n \in 1 .. n BY DEF Fine
<1>2. KeepsOthers(script, now) BY <1>1, StickySet
<1>3. now[n].op = script[n].op /\ now[n].ignore_error = script[n].ignore_error
          /\ now[n].continue_func = script[n].continue_func
 BY <1>1, StickySet
<1> HIDE DEF now
<1>4. now \in Seq(CommandInfo) /\ Len(now) = n /\ \A i \in 1 .. n - 1 : now[i] = script[i]
 BY <1>2 DEF KeepsOthers
<1>5. \A i \in 1 .. n : /\ now[i].op = script[i].op
                        /\ now[i].ignore_error = script[i].ignore_error
                        /\ now[i].continue_func = script[i].continue_func
 <2> SUFFICES ASSUME NEW i \in 1 .. n
              PROVE  /\ now[i].op = script[i].op
                     /\ now[i].ignore_error = script[i].ignore_error
                     /\ now[i].continue_func = script[i].continue_func
  OBVIOUS
 <2>1. i = n \/ i \in 1 .. n - 1 BY <1>1
 <2> QED BY <1>3, <1>4, <2>1
<1>6. Fine(j, now) BY <1>4, <1>5 DEF Fine, CommandFine
<1>7. HasStill(script, now) BY <1>4, <1>5 DEF Has, HasStill
<1>8. now # <<>> BY <1>1, <1>4
<1> QED BY <1>3, <1>4, <1>6, <1>7, <1>8 DEF now

LEMMA IgnoredFine ==
    ASSUME NEW j, NEW script, Fine(j, script), script # <<>>,
           script[Len(script)].op.does \in {"delete", "remove"}
    PROVE  Fine(j, SetIgnoreError(script))
<1> DEFINE now == SetIgnoreError(script)
           n == Len(script)
<1>1. script \in Seq(CommandInfo) /\ n \in Nat /\ n \in 1 .. n BY DEF Fine
<1>2. KeepsOthers(script, now) BY <1>1, IgnoreErrorSet
<1>3. now[n].op = script[n].op /\ now[n].continue_func = script[n].continue_func
 BY <1>1, IgnoreErrorSet
<1> HIDE DEF now
<1>4. now \in Seq(CommandInfo) /\ Len(now) = n /\ \A i \in 1 .. n - 1 : now[i] = script[i]
 BY <1>2 DEF KeepsOthers
<1>5. CommandFine(j, now[n]) BY <1>1, <1>3 DEF Fine, CommandFine
<1>6. ASSUME NEW i \in 1 .. n PROVE CommandFine(j, now[i])
 <2>1. i = n \/ i \in 1 .. n - 1 BY <1>1
 <2> QED BY <1>4, <1>5, <2>1 DEF Fine
<1> QED BY <1>4, <1>6 DEF Fine, now

\* Commands written one after the other.
LEMMA JoinedFine ==
    ASSUME NEW j, NEW script, Fine(j, script), NEW seqs, seqs \in Seq(Seq(CommandInfo)),
           \A i \in 1 .. Len(seqs) : Fine(j, seqs[i])
    PROVE  LET all == script \o FlattenSeq(seqs)
           IN /\ Fine(j, all) /\ HasStill(script, all)
              /\ \A i \in 1 .. Len(seqs) : HasStill(seqs[i], all)
<1> DEFINE flat == FlattenSeq(seqs)
           all == script \o flat
<1>1. flat \in Seq(CommandInfo) /\ MadeOf(flat, seqs, Len(seqs)) BY Flattened
<1> HIDE DEF flat
<1>2. script \in Seq(CommandInfo) /\ flat \in Seq(CommandInfo) BY <1>1 DEF Fine
<1>3. /\ all \in Seq(CommandInfo) /\ Len(all) = Len(script) + Len(flat)
      /\ Len(script) \in Nat /\ Len(flat) \in Nat
      /\ \A k \in 1 .. Len(script) : all[k] = script[k]
      /\ \A k \in 1 .. Len(flat) : all[Len(script) + k] = flat[k]
 BY <1>2
<1> HIDE DEF all
<1>4. ASSUME NEW k \in 1 .. Len(all) PROVE CommandFine(j, all[k])
 <2>1. CASE k \in 1 .. Len(script) BY <1>3, <2>1 DEF Fine
 <2>2. CASE k \notin 1 .. Len(script)
  <3>1. k - Len(script) \in 1 .. Len(flat) /\ k = Len(script) + (k - Len(script)) BY <1>3, <2>2
  <3>2. all[k] = flat[k - Len(script)] BY <1>3, <3>1
  <3>3. PICK i \in 1 .. Len(seqs) : \E h \in 1 .. Len(seqs[i]) : flat[k - Len(script)] = seqs[i][h]
   BY <1>1, <3>1 DEF MadeOf
  <3> QED BY <3>2, <3>3 DEF Fine
 <2> QED BY <2>1, <2>2
<1>5. HasStill(script, all)
 <2>1. \A k \in 1 .. Len(script) : k \in 1 .. Len(all) BY <1>3
 <2> QED BY <1>3, <2>1 DEF Has, HasStill
<1>6. ASSUME NEW i \in 1 .. Len(seqs), NEW op, Has(seqs[i], op) PROVE Has(all, op)
 <2>1. PICK h \in 1 .. Len(seqs[i]) : seqs[i][h].op = op /\ ~seqs[i][h].ignore_error
  BY <1>6 DEF Has
 <2>2. PICK k \in 1 .. Len(flat) : flat[k] = seqs[i][h] BY <1>1 DEF MadeOf
 <2>3. Len(script) + k \in 1 .. Len(all) /\ all[Len(script) + k] = flat[k] BY <1>3
 <2> QED BY <2>1, <2>2, <2>3 DEF Has
<1> QED BY <1>3, <1>4, <1>5, <1>6 DEF Fine, HasStill, all, flat

LEMMA HasStillTrans ==
    ASSUME NEW s, NEW t, NEW u, HasStill(s, t), HasStill(t, u)
    PROVE  HasStill(s, u)
  BY DEF HasStill

\* The parts of a list of files.
LEMMA OneByOneIs ==
    ASSUME NEW X \in SUBSET Files
    PROVE  /\ OneByOne(X) \in Seq(SUBSET Files)
           /\ \A i \in 1 .. Len(OneByOne(X)) : OneByOne(X)[i] \subseteq X /\ OneByOne(X)[i] # {}
           /\ \A f \in X : \E i \in 1 .. Len(OneByOne(X)) : f \in OneByOne(X)[i]
<1> DEFINE S == {{f} : f \in X}
           q == SetToSeq(S)
<1>1. IsFiniteSet(S)
 <2>1. IsFiniteSet(X) BY BackEndsAssumption, FS_Subset
 <2> DEFINE g == [f \in X |-> {f}]
 <2>2. g \in Surjection(X, S) BY DEF Surjection
 <2> QED BY <2>1, <2>2, FS_Surjection
<1>2. q \in Seq(S) /\ \A x \in S : \E i \in 1 .. Len(q) : q[i] = x BY <1>1, SetInOrder
<1>3. OneByOne(X) = q BY DEF OneByOne
<1>4. \A x \in S : x \in SUBSET Files /\ x \subseteq X /\ x # {} OBVIOUS
<1> HIDE DEF q
<1>5. \A i \in 1 .. Len(q) : q[i] \in S BY <1>2
<1>6. q \in Seq(SUBSET Files)
 <2> HIDE DEF S
 <2>1. S \subseteq SUBSET Files BY <1>4
 <2> QED BY <1>2, <2>1
<1>7. ASSUME NEW f \in X PROVE \E i \in 1 .. Len(q) : f \in q[i]
 <2>1. {f} \in S OBVIOUS
 <2> QED BY <1>2, <2>1
<1> QED BY <1>3, <1>4, <1>5, <1>6, <1>7

LEMMA ChunksAre ==
    ASSUME NEW j, NEW X \in SUBSET Files, X # {}
    PROVE  /\ Chunks(j, X) \in Seq(SUBSET Files)
           /\ \A i \in 1 .. Len(Chunks(j, X)) : Chunks(j, X)[i] \subseteq X /\ Chunks(j, X)[i] # {}
           /\ \A f \in X : \E i \in 1 .. Len(Chunks(j, X)) : f \in Chunks(j, X)[i]
<1>1. CASE j.list = "chunks"
 <2> QED BY <1>1, OneByOneIs DEF Chunks
<1>2. CASE j.list # "chunks"
 <2>1. Chunks(j, X) = <<X>> BY <1>2 DEF Chunks
 <2>2. /\ <<X>> \in Seq(SUBSET Files) /\ Len(<<X>>) = 1 /\ <<X>>[1] = X OBVIOUS
 <2> QED BY <2>1, <2>2
<1> QED BY <1>1, <1>2

----
(* What is asked for. *)

LEMMA PlainJob ==
    ASSUME NEW action, NEW X, NEW list
    PROVE  LET j == Job(action, X, list)
           IN /\ j.action = action /\ j.files = X /\ j.list = list /\ j.present = {}
              /\ j.before \in Destinations
<1> QED BY BackEndsAssumption DEF SomeDestination, Job

LEMMA ExtractionIs ==
    ASSUME back_end \in DOMAIN BackEnd, NEW j \in Extractions
    PROVE  Extraction(j)
<1>1. Be.one_file \in BOOLEAN BY BackEndIs DEF Be, Sound
<1>2. /\ j.action = "extract" /\ j.files \in SUBSET Members /\ j.overwrite \in BOOLEAN
      /\ j.skip_older \in BOOLEAN /\ j.junk_paths \in BOOLEAN /\ j.before \in Destinations
      /\ j.base_dir \in IF Be.one_file THEN {FALSE} ELSE BOOLEAN
 BY DEF Extractions
<1> QED BY <1>1, <1>2, BackEndsAssumption DEF Extraction

LEMMA AdditionIs ==
    ASSUME back_end \in DOMAIN BackEnd, NEW j \in Additions
    PROVE  /\ j.action = "add" /\ j.files \subseteq Members /\ j.files # {}
           /\ j.present \subseteq j.files /\ j.list \in Lists \ {"unsaved"}
           /\ j.before \in Destinations
<1>1. PICK X \in (SUBSET Members) \ {{}}, present \in SUBSET Members, list \in Lists \ {"unsaved"} :
           j = [Job("add", X, list) EXCEPT !.present = present \cap X]
 <2> DEFINE Made(X, present, list) == [Job("add", X, list) EXCEPT !.present = present \cap X]
            Some   == (SUBSET Members) \ {{}}
            All    == SUBSET Members
            Listed == Lists \ {"unsaved"}
 <2>1. Additions = {Made(X, present, list) : X \in Some, present \in All, list \in Listed}
  BY DEF Additions
 <2> HIDE DEF Made, Some, All, Listed
 <2>2. \E X \in Some, present \in All, list \in Listed : j = Made(X, present, list) BY <2>1
 <2> QED BY <2>2 DEF Made, Some, All, Listed
<1>2. SomeDestination \in Destinations BY BackEndsAssumption DEF SomeDestination
<1>3. /\ j.action = "add" /\ j.files = X /\ j.list = list /\ j.present = present \cap X
      /\ j.before = SomeDestination
 BY <1>1 DEF Job
<1> QED BY <1>2, <1>3

LEMMA DeletionIs ==
    ASSUME back_end \in DOMAIN BackEnd, NEW j \in Deletions
    PROVE  /\ j.action = "delete" /\ j.files \subseteq Members /\ j.files # {}
           /\ j.list \in Lists /\ j.before \in Destinations
<1>1. Be.one_file \in BOOLEAN BY BackEndIs DEF Be, Sound
<1>2. PICK X \in IF Be.one_file THEN {} ELSE (SUBSET Members) \ {{}}, list \in Lists :
           j = Job("delete", X, list)
 BY DEF Deletions
<1>3. X \in (SUBSET Members) \ {{}} BY <1>1, <1>2
<1>4. j.action = "delete" /\ j.files = X /\ j.list = list /\ j.before \in Destinations
 BY <1>2, PlainJob
<1> QED BY <1>2, <1>3, <1>4

LEMMA JobIs ==
    ASSUME back_end \in DOMAIN BackEnd, NEW j \in Jobs
    PROVE  /\ j.before \in [Files -> [{"top", "folder"} -> Contents]]
           /\ \/ j.action = "list"
              \/ j.action = "test"
              \/ j.action = "extract" /\ j \in Extractions
              \/ j.action = "add" /\ j \in Additions
              \/ j.action = "delete" /\ j \in Deletions
<1>1. CASE j \in Extractions BY <1>1, ExtractionIs DEF Extraction
<1>2. CASE j \in Additions BY <1>2, AdditionIs, BackEndsAssumption
<1>3. CASE j \in Deletions BY <1>3, DeletionIs, BackEndsAssumption
<1>4. CASE j \in {Job("list", {}, "args"), Job("test", {}, "args")}
 BY <1>4, PlainJob, BackEndsAssumption
<1> QED BY <1>1, <1>2, <1>3, <1>4 DEF Jobs

----
(* The commands that extract. *)

\* The files that a command extracts, that is made for some of them.
Spread(X) == IF X = {} \/ ~Be.chooses \/ back_end \in CFiles THEN Members ELSE X

TakesOut(j, X, to) == {Extracts(j, program, Y, to) : program \in AnyProgram, Y \in SUBSET Spread(X)}

\* The files meant: none are all.
Meant(X) == IF X = {} THEN Members ELSE X

\* The script extracts them all, and spares what it should.
Unpacked(j, script, X, to) ==
    /\ Fine(j, script)
    /\ \A f \in Meant(X) : \E op \in TakesOut(j, X, to) : f \in op.files /\ Has(script, op)

LEMMA SpreadIs ==
    ASSUME back_end \in DOMAIN BackEnd, NEW X, X \subseteq Members
    PROVE  /\ Spread(X) \subseteq Members /\ Meant(X) \subseteq Spread(X)
           /\ \A Y \in SUBSET X : Y # {} => Spread(Y) \subseteq Spread(X)
<1> QED BY BackEndIs DEF Be, Sound, Spread, Meant

LEMMA UnpacksAre ==
    ASSUME back_end \in DOMAIN BackEnd, NEW j, Extraction(j), NEW X, X \subseteq Members,
           NEW to \in {"dest", "move"}, NEW op \in TakesOut(j, X, to)
    PROVE  /\ op \in CommandOps
           /\ op.does = "extract" /\ op.files \subseteq Spread(X) /\ op.to = to
           /\ op.keep \in BOOLEAN /\ op.keep <=> ("avoid_overwrite" \in Be.flags /\ ~j.overwrite)
           /\ op.update \in BOOLEAN /\ op.update <=> ("skip_older" \in Be.flags /\ j.skip_older)
           /\ op.top \in BOOLEAN
           /\ op.top <=> (Be.one_file \/ ("junk_paths" \in Be.flags /\ j.junk_paths))
<1>1. PICK program \in AnyProgram, Y \in SUBSET Spread(X) : op = Extracts(j, program, Y, to)
 BY DEF TakesOut
<1>2. Y \in SUBSET Files BY SpreadIs, MembersKnown
<1> QED BY <1>1, <1>2, ExtractsIsOp

\* One more command.
LEMMA BegunUnpacked ==
    ASSUME back_end \in DOMAIN BackEnd, NEW j, Extraction(j), NEW X, X \subseteq Members,
           NEW to \in {"dest", "move"}, \A op \in TakesOut(j, X, to) : OpFine(j, op),
           NEW script, Fine(j, script), NEW program \in AnyProgram
    PROVE  LET op == Extracts(j, program, Spread(X), to)
           IN Unpacked(j, BeginCommand(script, op), X, to) /\ BeginCommand(script, op) # <<>>
<1> DEFINE op == Extracts(j, program, Spread(X), to)
<1>1. op \in TakesOut(j, X, to) BY DEF TakesOut
<1>2. Spread(X) \in SUBSET Files BY SpreadIs, MembersKnown
<1>3. op \in CommandOps /\ op.files = Spread(X) BY <1>2, ExtractsIsOp
<1> HIDE DEF op
<1>4. Fine(j, BeginCommand(script, op)) /\ Has(BeginCommand(script, op), op)
      /\ BeginCommand(script, op) # <<>>
 BY <1>1, <1>3, BegunFine
<1>5. \A f \in Meant(X) : f \in op.files BY <1>3, SpreadIs
<1> QED BY <1>1, <1>4, <1>5 DEF Unpacked, op

\* What is written after it.
LEMMA StillUnpacked ==
    ASSUME NEW j, NEW X, NEW to, NEW script, Unpacked(j, script, X, to),
           NEW more, Fine(j, more), HasStill(script, more)
    PROVE  Unpacked(j, more, X, to)
  BY DEF Unpacked, HasStill

\* Commands with nothing to spare.
LEMMA ServantsFine ==
    ASSUME NEW j, NEW script, Fine(j, script)
    PROVE  /\ \A program \in AnyProgram :
                  LET more == Run(script, program, "prepare", {})
                  IN Fine(j, more) /\ more # <<>> /\ HasStill(script, more)
           /\ \A dir \in {"work", "list", "move"} :
                  LET more == RemoveDir(script, dir)
                  IN /\ Fine(j, more) /\ more # <<>> /\ HasStill(script, more)
                     /\ more[Len(more)].op.does = "remove"
<1>1. ASSUME NEW program \in AnyProgram
      PROVE  LET more == Run(script, program, "prepare", {})
             IN Fine(j, more) /\ more # <<>> /\ HasStill(script, more)
 <2> DEFINE op == [program |-> program, does |-> "prepare", files |-> {}]
 <2>1. op \in CommandOps BY OpsOfCommands
 <2>2. OpFine(j, op) BY DEF OpFine
 <2>3. Run(script, program, "prepare", {}) = BeginCommand(script, op) BY DEF Run
 <2> HIDE DEF op
 <2> QED BY <2>1, <2>2, <2>3, BegunFine
<1>2. ASSUME NEW dir \in {"work", "list", "move"}
      PROVE  LET more == RemoveDir(script, dir)
             IN /\ Fine(j, more) /\ more # <<>> /\ HasStill(script, more)
                /\ more[Len(more)].op.does = "remove"
 <2> DEFINE op == [program |-> "rm", does |-> "remove", dir |-> dir, files |-> {}]
 <2>1. op \in CommandOps BY OpsOfCommands
 <2>2. OpFine(j, op) /\ op.does = "remove" BY DEF OpFine
 <2>3. RemoveDir(script, dir) = BeginCommand(script, op) BY DEF RemoveDir
 <2> HIDE DEF op
 <2> QED BY <2>1, <2>2, <2>3, BegunFine
<1> QED BY <1>1, <1>2

\* A directory that is removed whatever happens.
LEMMA RemovedFine ==
    ASSUME NEW j, NEW script, Fine(j, script), NEW dir \in {"work", "list", "move"}
    PROVE  LET more == SetSticky(RemoveDir(script, dir))
           IN /\ Fine(j, more) /\ more # <<>> /\ HasStill(script, more)
              /\ more[Len(more)].op.does = "remove"
<1> DEFINE removed == RemoveDir(script, dir)
<1>1. /\ Fine(j, removed) /\ removed # <<>> /\ HasStill(script, removed)
      /\ removed[Len(removed)].op.does = "remove"
 BY ServantsFine
<1> HIDE DEF removed
<1>2. /\ Fine(j, SetSticky(removed)) /\ SetSticky(removed) # <<>>
      /\ HasStill(removed, SetSticky(removed))
      /\ SetSticky(removed)[Len(SetSticky(removed))].op = removed[Len(removed)].op
 BY <1>1, StickyFine
<1> QED BY <1>1, <1>2, HasStillTrans DEF removed

LEMMA AroundFine ==
    ASSUME back_end \in DOMAIN BackEnd, NEW j, NEW op \in CommandOps, OpFine(j, op),
           op.does = "add" => Be.can_write # {},
           NEW script, Fine(j, script)
    PROVE  /\ Fine(j, Around(script, op)) /\ Around(script, op) # <<>>
           /\ Has(Around(script, op), op)
<1> DEFINE program   == Program(IF op.does = "add" THEN Be.writes ELSE Be.reads)
           copied    == Run(script, "cp", "prepare", {})
           converted == Run(copied, program, "prepare", {})
           begun     == BeginCommand(converted, op)
<1>1. "cp" \in AnyProgram /\ program \in AnyProgram BY ProgramKnown DEF AnyProgram, Shell
<1>2. Around(script, op) = SetSticky(RemoveDir(begun, "work")) BY DEF Around
<1> HIDE DEF program
<1>3. Fine(j, copied) BY <1>1, ServantsFine
<1> HIDE DEF copied
<1>4. Fine(j, converted) BY <1>1, <1>3, ServantsFine
<1> HIDE DEF converted
<1>5. Fine(j, begun) /\ Has(begun, op) BY <1>4, BegunFine
<1> HIDE DEF begun
<1>6. LET more == SetSticky(RemoveDir(begun, "work"))
      IN Fine(j, more) /\ more # <<>> /\ HasStill(begun, more)
 BY <1>5, RemovedFine
<1> QED BY <1>2, <1>5, <1>6 DEF HasStill

LEMMA UnpacksGrow ==
    ASSUME back_end \in DOMAIN BackEnd, NEW j, NEW to, NEW X, X \subseteq Members,
           NEW Y \in SUBSET X, Y # {}
    PROVE  TakesOut(j, Y, to) \subseteq TakesOut(j, X, to)
<1> QED BY SpreadIs DEF TakesOut

\* Scripts for the parts of a list, one after the other.
LEMMA PartsUnpacked ==
    ASSUME back_end \in DOMAIN BackEnd, NEW j, NEW to, NEW X, X \subseteq Members, X # {},
           NEW parts \in Seq(SUBSET Files),
           \A i \in 1 .. Len(parts) : parts[i] \subseteq X /\ parts[i] # {},
           \A f \in X : \E i \in 1 .. Len(parts) : f \in parts[i],
           NEW seqs, seqs \in Seq(Seq(CommandInfo)), Len(seqs) = Len(parts),
           \A i \in 1 .. Len(parts) : Unpacked(j, seqs[i], parts[i], to),
           NEW script, Fine(j, script)
    PROVE  Unpacked(j, script \o FlattenSeq(seqs), X, to)
<1> DEFINE all == script \o FlattenSeq(seqs)
<1>1. \A i \in 1 .. Len(seqs) : Fine(j, seqs[i]) BY DEF Unpacked
<1>2. Fine(j, all) /\ \A i \in 1 .. Len(seqs) : HasStill(seqs[i], all) BY <1>1, JoinedFine
<1> HIDE DEF all
<1>3. ASSUME NEW f \in Meant(X)
      PROVE  \E op \in TakesOut(j, X, to) : f \in op.files /\ Has(all, op)
 <2>1. f \in X BY DEF Meant
 <2>2. PICK i \in 1 .. Len(parts) : f \in parts[i] BY <2>1
 <2>3. f \in Meant(parts[i]) BY <2>2 DEF Meant
 <2>4. PICK op \in TakesOut(j, parts[i], to) : f \in op.files /\ Has(seqs[i], op)
  BY <2>3 DEF Unpacked
 <2>5. op \in TakesOut(j, X, to) BY UnpacksGrow
 <2>6. Has(all, op) BY <1>2, <2>4 DEF HasStill
 <2> QED BY <2>4, <2>5, <2>6
<1> QED BY <1>2, <1>3 DEF Unpacked, all

LEMMA CfileUnpacked ==
    ASSUME back_end \in DOMAIN BackEnd, back_end \in CFiles, NEW j, Extraction(j),
           NEW X, X \subseteq Members, NEW to \in {"dest", "move"},
           \A op \in TakesOut(j, X, to) : OpFine(j, op), NEW script, Fine(j, script)
    PROVE  Unpacked(j, CfileExtract(j, script, to), X, to) /\ CfileExtract(j, script, to) # <<>>
<1> DEFINE op == Extracts(j, "cp", Members, to)
<1>1. "cp" \in AnyProgram /\ Spread(X) = Members BY DEF AnyProgram, Shell, Spread
<1>2. Members \subseteq Files BY MembersKnown
<1>3. op \in CommandOps /\ op.files = Members /\ op.does = "extract" BY <1>1, <1>2, ExtractsIsOp
<1>4. op \in TakesOut(j, X, to) BY <1>1 DEF TakesOut
<1>5. CfileExtract(j, script, to) = Around(script, op) BY DEF CfileExtract
<1> HIDE DEF op
<1>6. /\ Fine(j, Around(script, op)) /\ Around(script, op) # <<>>
      /\ Has(Around(script, op), op)
 BY <1>3, <1>4, AroundFine
<1>7. Meant(X) \subseteq Members BY DEF Meant
<1> QED BY <1>3, <1>4, <1>5, <1>6, <1>7 DEF Unpacked

LEMMA DpkgUnpacked ==
    ASSUME back_end \in DOMAIN BackEnd, back_end = "dpkg", NEW j, Extraction(j),
           NEW X, X \subseteq Members, NEW to \in {"dest", "move"},
           \A op \in TakesOut(j, X, to) : OpFine(j, op), NEW script, Fine(j, script)
    PROVE  Unpacked(j, DpkgExtract(j, script, to), X, to) /\ DpkgExtract(j, script, to) # <<>>
<1>1. ~Be.chooses /\ Be.reads = <<"dpkg-deb">> BY DEF Be, BackEnd, Dpkg, Reader, Command
<1>2. Spread(X) = Members /\ "dpkg-deb" \in AnyProgram
 <2>1. "dpkg-deb" \in Programs("dpkg") BY <1>1 DEF Programs, ToSet, Be
 <2>2. "dpkg" \in DOMAIN BackEnd OBVIOUS
 <2> QED BY <1>1, <2>1, <2>2 DEF Spread, AnyProgram
<1> DEFINE begun == BeginCommand(script, Extracts(j, "dpkg-deb", Members, to))
<1>3. Unpacked(j, begun, X, to) BY <1>2, BegunUnpacked
<1>4. DpkgExtract(j, script, to) = Run(begun, "dpkg-deb", "prepare", {}) BY DEF DpkgExtract
<1> HIDE DEF begun
<1>5. Fine(j, begun) BY <1>3 DEF Unpacked
<1>6. LET more == Run(begun, "dpkg-deb", "prepare", {})
      IN Fine(j, more) /\ more # <<>> /\ HasStill(begun, more)
 BY <1>2, <1>5, ServantsFine
<1> QED BY <1>3, <1>4, <1>6, StillUnpacked

LEMMA IsoUnpacked ==
    ASSUME back_end \in DOMAIN BackEnd, back_end = "iso", NEW j, Extraction(j),
           NEW X, X \subseteq Members, X # {}, NEW to \in {"dest", "move"},
           \A op \in TakesOut(j, X, to) : OpFine(j, op), NEW script, Fine(j, script)
    PROVE  Unpacked(j, IsoExtract(j, script, X, to), X, to)
<1>1. Be.chooses /\ back_end \notin CFiles BY DEF Be, BackEnd, Iso, Reader, Command, CFiles
<1>2. "sh" \in AnyProgram BY DEF AnyProgram, Shell
<1> DEFINE parts == OneByOne(X)
           seqs == [i \in DOMAIN parts |-> BeginCommand(<<>>, Extracts(j, "sh", parts[i], to))]
<1>3. IsoExtract(j, script, X, to) = script \o FlattenSeq(seqs) BY DEF IsoExtract, Each
<1>4. X \in SUBSET Files BY MembersKnown
<1>5. /\ parts \in Seq(SUBSET Files)
      /\ \A i \in 1 .. Len(parts) : parts[i] \subseteq X /\ parts[i] # {}
      /\ \A f \in X : \E i \in 1 .. Len(parts) : f \in parts[i]
 BY <1>4, OneByOneIs
<1> HIDE DEF parts
<1>6. DOMAIN parts = 1 .. Len(parts) /\ Len(parts) \in Nat BY <1>5
<1>7. ASSUME NEW i \in 1 .. Len(parts)
      PROVE  LET one == BeginCommand(<<>>, Extracts(j, "sh", parts[i], to))
             IN Unpacked(j, one, parts[i], to) /\ one \in Seq(CommandInfo)
 <2>1. parts[i] \subseteq Members /\ parts[i] # {} /\ parts[i] \in SUBSET X BY <1>5
 <2>2. Spread(parts[i]) = parts[i] BY <1>1, <2>1 DEF Spread
 <2>3. \A op \in TakesOut(j, parts[i], to) : OpFine(j, op) BY <2>1, UnpacksGrow
 <2>4. Fine(j, <<>>) BY NothingFine
 <2> QED BY <1>2, <2>1, <2>2, <2>3, <2>4, BegunUnpacked DEF Unpacked, Fine
<1>8. \A i \in 1 .. Len(parts) :
          Unpacked(j, seqs[i], parts[i], to) /\ seqs[i] \in Seq(CommandInfo)
 BY <1>6, <1>7
<1>9. seqs \in [1 .. Len(parts) -> Seq(CommandInfo)] BY <1>6, <1>8
<1> HIDE DEF seqs
<1>10. seqs \in Seq(Seq(CommandInfo)) /\ Len(seqs) = Len(parts) BY <1>6, <1>9
<1>11. Unpacked(j, script \o FlattenSeq(seqs), X, to) BY <1>5, <1>8, <1>10, PartsUnpacked
<1> QED BY <1>3, <1>11

LEMMA CommandUnpacked ==
    ASSUME back_end \in DOMAIN BackEnd, NEW j, Extraction(j),
           NEW X, X \subseteq Members, back_end = "iso" => X # {}, NEW to \in {"dest", "move"},
           \A op \in TakesOut(j, X, to) : OpFine(j, op), NEW script, Fine(j, script)
    PROVE  Unpacked(j, ExtractCommand(j, script, X, to), X, to)
<1>1. CASE back_end \in CFiles
 <2>1. ExtractCommand(j, script, X, to) = CfileExtract(j, script, to)
  BY <1>1 DEF ExtractCommand, CFiles
 <2> QED BY <1>1, <2>1, CfileUnpacked
<1>2. CASE back_end = "iso"
 <2>1. ExtractCommand(j, script, X, to) = IsoExtract(j, script, X, to)
  BY <1>2 DEF ExtractCommand, CFiles
 <2> QED BY <1>2, <2>1, IsoUnpacked
<1>3. CASE back_end = "dpkg"
 <2>1. ExtractCommand(j, script, X, to) = DpkgExtract(j, script, to)
  BY <1>3 DEF ExtractCommand, CFiles
 <2> QED BY <1>3, <2>1, DpkgUnpacked
<1>4. CASE back_end \notin CFiles \cup {"iso", "dpkg"}
 <2> DEFINE all == X = {} \/ ~Be.chooses
 <2>1. ExtractCommand(j, script, X, to) =
           BeginCommand(script, Extracts(j, Program(Be.reads), IF all THEN Members ELSE X, to))
  BY <1>4 DEF ExtractCommand
 <2>2. (IF all THEN Members ELSE X) = Spread(X) BY <1>4 DEF Spread
 <2>3. ExtractCommand(j, script, X, to) =
           BeginCommand(script, Extracts(j, Program(Be.reads), Spread(X), to))
  BY <2>1, <2>2
 <2>4. Program(Be.reads) \in AnyProgram BY ProgramKnown
 <2> QED BY <2>3, <2>4, BegunUnpacked
<1> QED BY <1>1, <1>2, <1>3, <1>4

LEMMA ListUnpacked ==
    ASSUME back_end \in DOMAIN BackEnd, NEW j, Extraction(j),
           NEW X, X \subseteq Members, back_end = "iso" => X # {}, NEW to \in {"dest", "move"},
           \A op \in TakesOut(j, X, to) : OpFine(j, op)
    PROVE  /\ Fine(j, ExtractFrom(j, <<>>, X, to))
           /\ j.list # "unsaved" => Unpacked(j, ExtractFrom(j, <<>>, X, to), X, to)
<1>0. Fine(j, <<>>) BY NothingFine
<1>1. CASE X = {}
 <2>1. ExtractFrom(j, <<>>, X, to) = ExtractCommand(j, <<>>, X, to) BY <1>1 DEF ExtractFrom
 <2>2. Unpacked(j, ExtractCommand(j, <<>>, X, to), X, to) BY <1>0, CommandUnpacked
 <2> QED BY <2>1, <2>2 DEF Unpacked
<1>2. CASE X # {} /\ j.list = "unsaved"
 <2>1. ExtractFrom(j, <<>>, X, to) = <<>> BY <1>2 DEF ExtractFrom
 <2> QED BY <1>0, <1>2, <2>1
<1>3. CASE X # {} /\ j.list = "file"
 <2> DEFINE part == ExtractCommand(j, <<>>, X, to)
 <2>1. ExtractFrom(j, <<>>, X, to) = SetSticky(RemoveDir(part, "list")) BY <1>3 DEF ExtractFrom
 <2>2. Unpacked(j, part, X, to) BY <1>0, CommandUnpacked
 <2> HIDE DEF part
 <2>3. Fine(j, part) BY <2>2 DEF Unpacked
 <2>4. LET more == SetSticky(RemoveDir(part, "list"))
       IN Fine(j, more) /\ HasStill(part, more)
  BY <2>3, RemovedFine
 <2>5. Unpacked(j, SetSticky(RemoveDir(part, "list")), X, to) BY <2>2, <2>4, StillUnpacked
 <2> QED BY <2>1, <2>4, <2>5
<1>4. CASE X # {} /\ j.list \notin {"unsaved", "file"}
 <2> DEFINE parts == Chunks(j, X)
            seqs == [i \in DOMAIN parts |-> ExtractCommand(j, <<>>, parts[i], to)]
 <2>1. ExtractFrom(j, <<>>, X, to) = <<>> \o FlattenSeq(seqs) BY <1>4 DEF ExtractFrom, Each
 <2>2. X \in SUBSET Files BY MembersKnown
 <2>3. /\ parts \in Seq(SUBSET Files)
       /\ \A i \in 1 .. Len(parts) : parts[i] \subseteq X /\ parts[i] # {}
       /\ \A f \in X : \E i \in 1 .. Len(parts) : f \in parts[i]
  BY <1>4, <2>2, ChunksAre
 <2> HIDE DEF parts
 <2>4. DOMAIN parts = 1 .. Len(parts) /\ Len(parts) \in Nat BY <2>3
 <2>5. ASSUME NEW i \in 1 .. Len(parts)
       PROVE  LET one == ExtractCommand(j, <<>>, parts[i], to)
              IN Unpacked(j, one, parts[i], to) /\ one \in Seq(CommandInfo)
  <3>1. parts[i] \subseteq Members /\ parts[i] # {} /\ parts[i] \in SUBSET X BY <2>3
  <3>2. \A op \in TakesOut(j, parts[i], to) : OpFine(j, op) BY <3>1, UnpacksGrow
  <3> QED BY <1>0, <3>1, <3>2, CommandUnpacked DEF Unpacked, Fine
 <2>6. \A i \in 1 .. Len(parts) :
           Unpacked(j, seqs[i], parts[i], to) /\ seqs[i] \in Seq(CommandInfo)
  BY <2>4, <2>5
 <2>7. seqs \in [1 .. Len(parts) -> Seq(CommandInfo)] BY <2>4, <2>6
 <2> HIDE DEF seqs
 <2>8. seqs \in Seq(Seq(CommandInfo)) /\ Len(seqs) = Len(parts) BY <2>4, <2>7
 <2>9. Unpacked(j, <<>> \o FlattenSeq(seqs), X, to) BY <1>0, <1>4, <2>3, <2>6, <2>8, PartsUnpacked
 <2> QED BY <2>1, <2>9 DEF Unpacked
<1> QED BY <1>1, <1>2, <1>3, <1>4

----
(* The script of an extraction. *)

\* The file is to be there after the extraction.
Due(j, f) ==
    LET there == j.before[f][GoesTo(j)]
    IN there = "nothing" \/ (j.overwrite /\ ~(j.skip_older /\ there = "newer"))

Elsewhere(j, f) == j.base_dir /\ ~j.junk_paths /\ f \notin Filtered(j)

\* A command that writes at the destination.
Puts(op) == op.does = "move" \/ (op.does = "extract" /\ op.to = "dest")

\* It puts the file where it goes, in place of what is there.
Brings(j, op, f) ==
    /\ Puts(op) /\ f \in op.files /\ Place(op) = GoesTo(j)
    /\ ~Keeps(op, j.before[f][GoesTo(j)])

\* The script brings all that is asked for.
BringsAll(j, script) ==
    \A f \in Asked(j) :
        Due(j, f) => (\E op : Has(script, op) /\ Brings(j, op, f)) \/ Elsewhere(j, f)

LEMMA AskedIs ==
    ASSUME back_end \in DOMAIN BackEnd, NEW j, Extraction(j)
    PROVE  /\ Asked(j) \subseteq Members /\ Asked(j) # {} /\ Filtered(j) \subseteq Asked(j)
           /\ Meant(j.files) = Asked(j) /\ Meant(Asked(j)) = Asked(j)
  BY MembersKnown DEF Extraction, Asked, Filtered, Meant

\* What a place may hold.
LEMMA Held ==
    ASSUME NEW j, Extraction(j), NEW f \in Files, NEW place \in {"top", "folder"}
    PROVE  j.before[f][place] \in Contents
  BY DEF Extraction

\* What is left out is nowhere looked for, or not due.
LEMMA LeftOut ==
    ASSUME back_end \in DOMAIN BackEnd, NEW j, Extraction(j), NEW f \in Asked(j),
           f \notin Filtered(j), Due(j, f)
    PROVE  Elsewhere(j, f)
<1>1. f \in Files BY AskedIs, MembersKnown
<1> DEFINE there == j.before[f][LooksAt(j)]
<1>2. \/ there = "newer" /\ ~Can("skip_older") /\ j.skip_older
      \/ there # "nothing" /\ ~Can("avoid_overwrite") /\ ~j.overwrite
 BY DEF Filtered
<1>3. CASE j.base_dir /\ ~j.junk_paths BY <1>3 DEF Elsewhere
<1>4. CASE ~(j.base_dir /\ ~j.junk_paths)
 <2>1. GoesTo(j) = LooksAt(j) BY <1>4 DEF GoesTo, LooksAt, Extraction
 <2>2. there = "nothing" \/ (j.overwrite /\ ~(j.skip_older /\ there = "newer")) BY <2>1 DEF Due
 <2> HIDE DEF there
 <2> QED BY <1>2, <2>2
<1> QED BY <1>3, <1>4

\* Where a command puts what it extracts, when it is not moved from there.
LEMMA PlaceIs ==
    ASSUME back_end \in DOMAIN BackEnd, NEW j, Extraction(j), ~MoveToDestDir(j),
           NEW X, X \subseteq Members, NEW op \in TakesOut(j, X, "dest")
    PROVE  /\ Place(op) = GoesTo(j) /\ LooksAt(j) = GoesTo(j)
           /\ Puts(op) /\ op \in CommandOps /\ op.files \subseteq Spread(X)
           /\ op.keep <=> ("avoid_overwrite" \in Be.flags /\ ~j.overwrite)
           /\ op.update <=> ("skip_older" \in Be.flags /\ j.skip_older)
<1>1. Sound(Be) BY BackEndIs DEF Be
<1>2. "junk_paths" \in Be.can <=> "junk_paths" \in Be.flags BY <1>1 DEF Sound
<1>3. /\ op \in CommandOps
      /\ op.does = "extract" /\ op.files \subseteq Spread(X) /\ op.to = "dest"
      /\ op.keep <=> ("avoid_overwrite" \in Be.flags /\ ~j.overwrite)
      /\ op.update <=> ("skip_older" \in Be.flags /\ j.skip_older)
      /\ op.top <=> (Be.one_file \/ ("junk_paths" \in Be.flags /\ j.junk_paths))
 BY UnpacksAre
<1>4. ~j.base_dir /\ (j.junk_paths => "junk_paths" \in Be.can) BY DEF MoveToDestDir, Can
<1>5. op.top <=> (Be.one_file \/ j.junk_paths \/ j.base_dir) BY <1>2, <1>3, <1>4
<1>6. Place(op) = GoesTo(j) /\ LooksAt(j) = GoesTo(j) BY <1>4, <1>5 DEF Place, GoesTo, LooksAt
<1> QED BY <1>3, <1>6 DEF Puts

\* The files that are left to extract: all that is asked for, if the program has what it
\* takes to spare what it should.
Rest(j) == IF AllOptionsSupported(j) THEN Asked(j) ELSE Filtered(j)

LEMMA RestIs ==
    ASSUME back_end \in DOMAIN BackEnd, NEW j, Extraction(j), NEW f \in Rest(j)
    PROVE  /\ f \in Asked(j) /\ f \in Files
           /\ LET there == j.before[f][LooksAt(j)]
              IN /\ there = "newer" /\ j.skip_older => "skip_older" \in Be.flags
                 /\ there # "nothing" /\ ~j.overwrite => "avoid_overwrite" \in Be.flags
<1>1. Sound(Be) BY BackEndIs DEF Be
<1>2. /\ "avoid_overwrite" \in Be.can => "avoid_overwrite" \in Be.flags
      /\ "skip_older" \in Be.can => "skip_older" \in Be.flags
 BY <1>1 DEF Sound
<1>3. CASE AllOptionsSupported(j)
 <2>1. f \in Asked(j) /\ (j.overwrite \/ Can("avoid_overwrite"))
       /\ (~j.skip_older \/ Can("skip_older"))
  BY <1>3 DEF Rest, AllOptionsSupported
 <2> QED BY <1>2, <2>1, AskedIs, MembersKnown DEF Can
<1>4. CASE ~AllOptionsSupported(j)
 <2>1. f \in Asked(j)
       /\ LET there == j.before[f][LooksAt(j)]
          IN /\ ~(there = "newer" /\ ~Can("skip_older") /\ j.skip_older)
             /\ ~(there # "nothing" /\ ~Can("avoid_overwrite") /\ ~j.overwrite)
  BY <1>4 DEF Rest, Filtered
 <2> QED BY <1>2, <2>1, AskedIs, MembersKnown DEF Can
<1> QED BY <1>3, <1>4

\* What the program extracts besides what it is asked for.
LEMMA SpreadRest ==
    ASSUME back_end \in DOMAIN BackEnd, NEW j, Extraction(j), Rest(j) # {},
           NEW X, X \subseteq Members, Meant(X) = Rest(j), NEW f \in Spread(X), f \notin Rest(j)
    PROVE  back_end \in {"dpkg", "unstuff"} /\ f \notin Filtered(j)
<1>1. Rest(j) \subseteq Members /\ Filtered(j) \subseteq Rest(j) BY AskedIs DEF Rest
<1>2. Be.one_file \in BOOLEAN /\ Be.chooses \in BOOLEAN BY BackEndIs DEF Be, Sound
<1>3. X # {} /\ Meant(X) = X
 <2>1. CASE X = {}
  <3> QED BY <2>1 DEF Meant, Spread
 <2>2. CASE X # {} BY <2>2 DEF Meant
 <2> QED BY <2>1, <2>2
<1>4. Spread(X) = Members /\ (~Be.chooses \/ back_end \in CFiles) BY <1>3 DEF Spread
<1>5. ~Be.one_file
 <2> SUFFICES ASSUME Be.one_file PROVE FALSE BY <1>2
 <2>1. Members = {CHOOSE g \in Files : TRUE} BY DEF Members
 <2>2. Members \subseteq Rest(j) BY <1>1, <2>1
 <2> QED BY <1>4, <2>2
<1>6. back_end \in {"dpkg", "unstuff"}
 <2>1. back_end \in CFiles => Be.one_file BY BackEndIs DEF Be
 <2>2. ~Be.chooses => Be.one_file \/ back_end \in {"dpkg", "unstuff"} BY BackEndIs DEF Be
 <2> QED BY <1>4, <1>5, <2>1, <2>2
<1> QED BY <1>1, <1>6

\* The commands of a script that is written for these files.
LEMMA RestSpared ==
    ASSUME back_end \in DOMAIN BackEnd, NEW j, Extraction(j), ~MoveToDestDir(j), Rest(j) # {},
           NEW X, X \subseteq Members, Meant(X) = Rest(j), NEW op \in TakesOut(j, X, "dest")
    PROVE  /\ OpFine(j, op)
           /\ \A f \in op.files : f \in Rest(j) /\ Due(j, f) => Brings(j, op, f)
<1>1. /\ Place(op) = GoesTo(j) /\ LooksAt(j) = GoesTo(j)
      /\ Puts(op) /\ op \in CommandOps /\ op.files \subseteq Spread(X)
      /\ op.keep <=> ("avoid_overwrite" \in Be.flags /\ ~j.overwrite)
      /\ op.update <=> ("skip_older" \in Be.flags /\ j.skip_older)
 BY PlaceIs
<1>2. ASSUME NEW f \in op.files
      PROVE  \/ j.before[f][Place(op)] = "nothing"
             \/ Keeps(op, j.before[f][Place(op)])
             \/ Allowed(j, f, Place(op))
 <2>1. CASE f \in Rest(j)
  <3> DEFINE there == j.before[f][Place(op)]
  <3>1. /\ f \in Asked(j)
        /\ there = "newer" /\ j.skip_older => "skip_older" \in Be.flags
        /\ there # "nothing" /\ ~j.overwrite => "avoid_overwrite" \in Be.flags
   BY <1>1, <2>1, RestIs
  <3>2. Keeps(op, there) <=> there # "nothing" /\ (op.keep \/ (op.update /\ there = "newer"))
   BY DEF Keeps
  <3>3. Allowed(j, f, Place(op))
           \/ ~(f \in Asked(j) /\ j.overwrite /\ ~(j.skip_older /\ there = "newer"))
   BY DEF Allowed
  <3> HIDE DEF there
  <3> QED BY <1>1, <3>1, <3>2, <3>3 DEF there
 <2>2. CASE f \notin Rest(j)
  <3> QED BY <1>1, <2>2, SpreadRest DEF Allowed
 <2> QED BY <2>1, <2>2
<1>3. OpFine(j, op)
 <2>1. j.action = "extract" BY DEF Extraction
 <2> QED BY <1>2, <2>1 DEF OpFine, Spares
<1>4. ASSUME NEW f \in op.files, f \in Rest(j), Due(j, f) PROVE Brings(j, op, f)
 <2> DEFINE there == j.before[f][GoesTo(j)]
 <2>1. there = "nothing" \/ (j.overwrite /\ ~(j.skip_older /\ there = "newer")) BY <1>4 DEF Due
 <2>2. Keeps(op, there) <=> there # "nothing" /\ (op.keep \/ (op.update /\ there = "newer"))
  BY DEF Keeps
 <2> HIDE DEF there
 <2>3. ~Keeps(op, there) BY <1>1, <2>1, <2>2
 <2> QED BY <1>1, <2>3 DEF Brings, there
<1> QED BY <1>3, <1>4

\* Extracted where it goes.
LEMMA StraightScript ==
    ASSUME back_end \in DOMAIN BackEnd, NEW j, Extraction(j), ~MoveToDestDir(j), Rest(j) # {},
           NEW X, X \subseteq Members, Meant(X) = Rest(j), back_end = "iso" => X # {}
    PROVE  LET script == ExtractFrom(j, <<>>, X, "dest")
           IN Fine(j, script) /\ (j.list # "unsaved" => BringsAll(j, script))
<1> DEFINE script == ExtractFrom(j, <<>>, X, "dest")
<1>1. \A op \in TakesOut(j, X, "dest") : OpFine(j, op) BY RestSpared
<1>2. Fine(j, script) /\ (j.list # "unsaved" => Unpacked(j, script, X, "dest"))
 BY <1>1, ListUnpacked
<1> HIDE DEF script
<1>3. ASSUME Unpacked(j, script, X, "dest"), NEW f \in Asked(j), Due(j, f)
      PROVE  (\E op : Has(script, op) /\ Brings(j, op, f)) \/ Elsewhere(j, f)
 <2>1. CASE f \in Rest(j)
  <3>1. PICK op \in TakesOut(j, X, "dest") : f \in op.files /\ Has(script, op)
   BY <1>3, <2>1 DEF Unpacked
  <3>2. Brings(j, op, f) BY <1>3, <2>1, <3>1, RestSpared
  <3> QED BY <3>1, <3>2
 <2>2. CASE f \notin Rest(j)
  <3>1. f \notin Filtered(j) BY <2>2 DEF Rest
  <3> QED BY <1>3, <3>1, LeftOut
 <2> QED BY <2>1, <2>2
<1> QED BY <1>2, <1>3 DEF BringsAll, script

Moves(j, X) ==
    [program |-> "mv", does |-> "move", files |-> X,
     keep |-> ~j.overwrite, update |-> FALSE, top |-> TRUE]

LEMMA MovesIs ==
    ASSUME back_end \in DOMAIN BackEnd, NEW j, Extraction(j), MoveToDestDir(j),
           ~AllOptionsSupported(j), NEW X \in SUBSET Filtered(j)
    PROVE  /\ Moves(j, X) \in CommandOps /\ OpFine(j, Moves(j, X))
           /\ Moves(j, X).files = X
           /\ \A f \in X : Due(j, f) => Brings(j, Moves(j, X), f)
<1> DEFINE op == Moves(j, X)
<1>1. j.overwrite \in BOOLEAN /\ (~j.overwrite) \in BOOLEAN BY DEF Extraction
<1>2. X \in SUBSET Files BY AskedIs, MembersKnown
<1>3. op \in CommandOps BY <1>1, <1>2, OpsOfCommands DEF Moves
<1>4. /\ op.does = "move" /\ op.files = X /\ op.top /\ ~op.update /\ op.keep = ~j.overwrite
      /\ Place(op) = "top"
 BY DEF Moves, Place
<1> HIDE DEF op
<1>5. j.base_dir \/ (j.junk_paths /\ ~Can("junk_paths")) BY DEF MoveToDestDir
<1>6. GoesTo(j) = "top" BY <1>5 DEF GoesTo
<1>7. ASSUME NEW f \in X
      PROVE  \/ j.before[f]["top"] = "nothing"
             \/ Keeps(op, j.before[f]["top"])
             \/ Allowed(j, f, "top")
 <2> DEFINE there == j.before[f]["top"]
 <2>1. Keeps(op, there) <=> there # "nothing" /\ ~j.overwrite BY <1>1, <1>4 DEF Keeps
 <2>2. CASE j.base_dir \/ Can("skip_older")
  <3>1. j.overwrite => Allowed(j, f, "top") BY <2>2 DEF Allowed
  <3> HIDE DEF there
  <3> QED BY <1>1, <2>1, <3>1 DEF there
 <2>3. CASE ~(j.base_dir \/ Can("skip_older"))
  <3>1. LooksAt(j) = "top" BY <1>5, <2>3 DEF LooksAt
  <3>2. f \in Asked(j) /\ ~(there = "newer" /\ ~Can("skip_older") /\ j.skip_older)
   BY <3>1 DEF Filtered
  <3>3. j.overwrite => Allowed(j, f, "top") BY <2>3, <3>2 DEF Allowed
  <3> HIDE DEF there
  <3> QED BY <1>1, <2>1, <3>3 DEF there
 <2> QED BY <2>2, <2>3
<1>8. OpFine(j, op)
 <2>1. j.action = "extract" BY DEF Extraction
 <2> QED BY <1>4, <1>7, <2>1 DEF OpFine, Spares
<1>9. ASSUME NEW f \in X, Due(j, f) PROVE Brings(j, op, f)
 <2> DEFINE there == j.before[f][GoesTo(j)]
 <2>1. there = "nothing" \/ j.overwrite BY <1>9 DEF Due
 <2>2. Keeps(op, there) <=> there # "nothing" /\ ~j.overwrite BY <1>1, <1>4 DEF Keeps
 <2> HIDE DEF there
 <2>3. ~Keeps(op, there) BY <2>1, <2>2
 <2> QED BY <1>4, <1>6, <2>3 DEF Brings, Puts, there
<1> QED BY <1>3, <1>4, <1>8, <1>9 DEF op

LEMMA MovesFine ==
    ASSUME back_end \in DOMAIN BackEnd, NEW j, Extraction(j), MoveToDestDir(j),
           ~AllOptionsSupported(j), Filtered(j) # {}, NEW script, Fine(j, script)
    PROVE  LET all == MoveFiles(j, script, Filtered(j))
           IN /\ Fine(j, all)
              /\ \A f \in Filtered(j) : Due(j, f) => \E op : Has(all, op) /\ Brings(j, op, f)
<1> DEFINE parts == Chunks(j, Filtered(j))
           seqs == [i \in DOMAIN parts |-> BeginCommand(<<>>, Moves(j, parts[i]))]
           all == script \o FlattenSeq(seqs)
<1>1. MoveFiles(j, script, Filtered(j)) = all BY DEF MoveFiles, Each, Moves
<1>2. Filtered(j) \in SUBSET Files BY AskedIs, MembersKnown
<1>3. /\ parts \in Seq(SUBSET Files)
      /\ \A i \in 1 .. Len(parts) : parts[i] \subseteq Filtered(j) /\ parts[i] # {}
      /\ \A f \in Filtered(j) : \E i \in 1 .. Len(parts) : f \in parts[i]
 BY <1>2, ChunksAre
<1> HIDE DEF parts
<1>4. DOMAIN parts = 1 .. Len(parts) /\ Len(parts) \in Nat BY <1>3
<1>5. ASSUME NEW i \in 1 .. Len(parts)
      PROVE  LET one == BeginCommand(<<>>, Moves(j, parts[i]))
             IN Fine(j, one) /\ Has(one, Moves(j, parts[i]))
 <2>1. Moves(j, parts[i]) \in CommandOps /\ OpFine(j, Moves(j, parts[i])) BY <1>3, MovesIs
 <2>2. Fine(j, <<>>) BY NothingFine
 <2> QED BY <2>1, <2>2, BegunFine
<1>6. \A i \in 1 .. Len(parts) : Fine(j, seqs[i]) /\ Has(seqs[i], Moves(j, parts[i])) BY <1>4, <1>5
<1>7. seqs \in [1 .. Len(parts) -> Seq(CommandInfo)] BY <1>4, <1>6 DEF Fine
<1> HIDE DEF seqs
<1>8. seqs \in Seq(Seq(CommandInfo)) /\ Len(seqs) = Len(parts) BY <1>4, <1>7
<1>9. Fine(j, all) /\ \A i \in 1 .. Len(seqs) : HasStill(seqs[i], all) BY <1>6, <1>8, JoinedFine
<1> HIDE DEF all
<1>10. ASSUME NEW f \in Filtered(j), Due(j, f) PROVE \E op : Has(all, op) /\ Brings(j, op, f)
 <2>1. PICK i \in 1 .. Len(parts) : f \in parts[i] BY <1>3
 <2>2. Has(all, Moves(j, parts[i])) BY <1>6, <1>8, <1>9 DEF HasStill
 <2>3. Brings(j, Moves(j, parts[i]), f) BY <1>3, <1>10, <2>1, MovesIs
 <2> QED BY <2>2, <2>3
<1> QED BY <1>1, <1>9, <1>10

LEMMA ToMoveFine ==
    ASSUME NEW j, NEW X, X \subseteq Members, back_end \in DOMAIN BackEnd, Extraction(j)
    PROVE  \A op \in TakesOut(j, X, "move") : OpFine(j, op)
<1>1. ASSUME NEW op \in TakesOut(j, X, "move")
      PROVE  op.does = "extract" /\ op.to = "move"
 BY UnpacksAre
<1>2. j.action = "extract" BY DEF Extraction
<1> QED BY <1>1, <1>2 DEF OpFine

\* The script of an extraction replaces only what may be replaced, and brings every file
\* that is due, unless it was looked for elsewhere.
LEMMA ExtractScriptIs ==
    ASSUME back_end \in DOMAIN BackEnd, NEW j, Extraction(j)
    PROVE  /\ Fine(j, ExtractScript(j))
           /\ j.list # "unsaved" => BringsAll(j, ExtractScript(j))
<1>0. /\ Asked(j) \subseteq Members /\ Asked(j) # {} /\ Filtered(j) \subseteq Asked(j)
      /\ Meant(j.files) = Asked(j) /\ Meant(Asked(j)) = Asked(j) /\ j.files \subseteq Members
 BY AskedIs DEF Extraction
<1>1. CASE AllOptionsSupported(j)
 <2> DEFINE X == IF Can("extract_all") THEN j.files ELSE Asked(j)
 <2>1. ExtractScript(j) = ExtractFrom(j, <<>>, X, "dest") BY <1>1 DEF ExtractScript
 <2>2. ~MoveToDestDir(j) /\ Rest(j) = Asked(j)
  BY <1>1 DEF AllOptionsSupported, MoveToDestDir, Rest, Extraction
 <2>3. X \subseteq Members /\ Meant(X) = Rest(j) BY <1>0, <2>2
 <2>4. back_end = "iso" => X # {}
  <3> SUFFICES ASSUME back_end = "iso" PROVE X # {} OBVIOUS
  <3>1. Be.can = {} BY DEF Be, BackEnd, Iso, Reader, Command
  <3>2. X = Asked(j) BY <3>1 DEF Can
  <3> QED BY <1>0, <3>2
 <2> HIDE DEF X
 <2> QED BY <1>0, <2>1, <2>2, <2>3, <2>4, StraightScript
<1>2. CASE ~AllOptionsSupported(j) /\ Filtered(j) = {}
 <2>1. ExtractScript(j) = <<>> BY <1>2 DEF ExtractScript
 <2>2. ASSUME NEW f \in Asked(j), Due(j, f) PROVE Elsewhere(j, f) BY <1>2, <2>2, LeftOut
 <2> QED BY <2>1, <2>2, NothingFine DEF BringsAll
<1>3. CASE ~AllOptionsSupported(j) /\ Filtered(j) # {} /\ MoveToDestDir(j)
 <2> DEFINE script == ExtractFrom(j, <<>>, Filtered(j), "move")
            moved  == MoveFiles(j, script, Filtered(j))
 <2>1. ExtractScript(j) = RemoveDir(moved, "move") BY <1>3 DEF ExtractScript
 <2>2. \A op \in TakesOut(j, Filtered(j), "move") : OpFine(j, op) BY <1>0, ToMoveFine
 <2>3. Fine(j, script) BY <1>0, <1>3, <2>2, ListUnpacked
 <2> HIDE DEF script
 <2>4. /\ Fine(j, moved)
       /\ \A f \in Filtered(j) : Due(j, f) => \E op : Has(moved, op) /\ Brings(j, op, f)
  BY <1>3, <2>3, MovesFine
 <2> HIDE DEF moved
 <2>5. Fine(j, RemoveDir(moved, "move")) /\ HasStill(moved, RemoveDir(moved, "move"))
  BY <2>4, ServantsFine
 <2>6. ASSUME NEW f \in Asked(j), Due(j, f)
       PROVE  (\E op : Has(ExtractScript(j), op) /\ Brings(j, op, f)) \/ Elsewhere(j, f)
  <3>1. CASE f \in Filtered(j) BY <2>1, <2>4, <2>5, <2>6, <3>1 DEF HasStill
  <3>2. CASE f \notin Filtered(j) BY <2>6, <3>2, LeftOut
  <3> QED BY <3>1, <3>2
 <2> QED BY <2>1, <2>5, <2>6 DEF BringsAll
<1>4. CASE ~AllOptionsSupported(j) /\ Filtered(j) # {} /\ ~MoveToDestDir(j)
 <2>1. ExtractScript(j) = ExtractFrom(j, <<>>, Filtered(j), "dest") BY <1>4 DEF ExtractScript
 <2>2. Rest(j) = Filtered(j) /\ Meant(Filtered(j)) = Filtered(j) /\ Filtered(j) \subseteq Members
  BY <1>0, <1>4 DEF Rest, Meant
 <2> QED BY <1>4, <2>1, <2>2, StraightScript
<1> QED BY <1>1, <1>2, <1>3, <1>4

----
(* The scripts of the other operations. *)

\* Each of the files is in a command that does this, whose errors count.
Covers(script, X, does) ==
    \A f \in X : \E op : Has(script, op) /\ op.does = does /\ f \in op.files

\* A command does this on these files, and its errors count.
DoneWholly(script, X, does) == \E op : Has(script, op) /\ op.does = does /\ op.files = X

LEMMA RunFine ==
    ASSUME NEW j, NEW X \in SUBSET Files, NEW program \in AnyProgram,
           NEW does \in {"add", "delete", "list", "test"},
           j.action \in {"list", "test"} => X \subseteq Members,
           NEW script, Fine(j, script)
    PROVE  LET more == Run(script, program, does, X)
           IN /\ Fine(j, more) /\ more # <<>> /\ HasStill(script, more)
              /\ Covers(more, X, does)
              /\ more[Len(more)].op.does = does
              /\ DoneWholly(more, X, does)
<1> DEFINE op == [program |-> program, does |-> does, files |-> X]
<1>1. op \in CommandOps BY OpsOfCommands
<1>2. OpFine(j, op) /\ op.does = does /\ op.files = X BY DEF OpFine
<1>3. Run(script, program, does, X) = BeginCommand(script, op) BY DEF Run
<1> HIDE DEF op
<1> QED BY <1>1, <1>2, <1>3, BegunFine DEF Covers, DoneWholly

LEMMA PartsRun ==
    ASSUME NEW j, j.action \notin {"list", "test"}, NEW X \in SUBSET Files, X # {},
           NEW program \in AnyProgram, NEW does \in {"add", "delete"},
           NEW script, Fine(j, script)
    PROVE  LET seqs == [i \in DOMAIN Chunks(j, X) |-> Run(<<>>, program, does, Chunks(j, X)[i])]
               all  == script \o FlattenSeq(seqs)
           IN /\ Fine(j, all) /\ HasStill(script, all) /\ Covers(all, X, does)
              /\ FlattenSeq(seqs) # <<>>
              /\ FlattenSeq(seqs) \in Seq({c \in CommandInfo : c.op.does = does})
<1> DEFINE parts == Chunks(j, X)
           seqs  == [i \in DOMAIN parts |-> Run(<<>>, program, does, parts[i])]
           all   == script \o FlattenSeq(seqs)
           S     == {c \in CommandInfo : c.op.does = does}
<1>1. /\ parts \in Seq(SUBSET Files)
      /\ \A i \in 1 .. Len(parts) : parts[i] \subseteq X /\ parts[i] # {}
      /\ \A f \in X : \E i \in 1 .. Len(parts) : f \in parts[i]
 BY ChunksAre
<1> HIDE DEF parts
<1>2. DOMAIN parts = 1 .. Len(parts) /\ Len(parts) \in Nat BY <1>1
<1>3. ASSUME NEW i \in 1 .. Len(parts)
      PROVE  LET one == Run(<<>>, program, does, parts[i])
             IN Fine(j, one) /\ Covers(one, parts[i], does) /\ one \in Seq(S)
 <2> DEFINE op == [program |-> program, does |-> does, files |-> parts[i]]
            command == [op |-> op, sticky |-> FALSE, ignore_error |-> FALSE, continue_func |-> FALSE]
 <2>1. Fine(j, <<>>) /\ parts[i] \in SUBSET Files BY <1>1, NothingFine
 <2>2. LET one == Run(<<>>, program, does, parts[i])
       IN Fine(j, one) /\ Covers(one, parts[i], does)
  <3>1. /\ does \in {"add", "delete", "list", "test"}
        /\ (j.action \in {"list", "test"} => parts[i] \subseteq Members)
   OBVIOUS
  <3>2. Fine(j, Run(<<>>, program, does, parts[i])) BY <2>1, <3>1, RunFine
  <3>3. Covers(Run(<<>>, program, does, parts[i]), parts[i], does) BY <2>1, <3>1, RunFine
  <3> QED BY <3>2, <3>3
 <2>3. Run(<<>>, program, does, parts[i]) = <<command>> BY DEF Run, BeginCommand
 <2>4. op \in Ops /\ op.does = does BY <2>1, OpsOfCommands, BackEndsAssumption
 <2> HIDE DEF op
 <2>5. command \in CommandInfo /\ command.op = op BY <2>4 DEF CommandInfo
 <2> HIDE DEF command
 <2>6. <<command>> \in Seq(S) BY <2>4, <2>5
 <2> QED BY <2>2, <2>3, <2>6
<1>4. \A i \in 1 .. Len(parts) : Fine(j, seqs[i]) /\ Covers(seqs[i], parts[i], does) BY <1>2, <1>3
<1>5. seqs \in [1 .. Len(parts) -> Seq(S)] BY <1>2, <1>3
<1>6. seqs \in [1 .. Len(parts) -> Seq(CommandInfo)] BY <1>2, <1>3 DEF Fine
<1> HIDE DEF seqs
<1>7. seqs \in Seq(Seq(CommandInfo)) /\ seqs \in Seq(Seq(S)) /\ Len(seqs) = Len(parts)
 <2> HIDE DEF S
 <2> QED BY <1>2, <1>5, <1>6
<1>8. FlattenSeq(seqs) \in Seq(S) BY <1>7, Flattened
<1>9. /\ Fine(j, all) /\ HasStill(script, all)
      /\ \A i \in 1 .. Len(seqs) : HasStill(seqs[i], all)
 BY <1>4, <1>7, JoinedFine
<1>10. Covers(all, X, does)
 <2> HIDE DEF all
 <2> SUFFICES ASSUME NEW f \in X
              PROVE  \E op : Has(all, op) /\ op.does = does /\ f \in op.files
  BY DEF Covers
 <2>1. PICK i \in 1 .. Len(parts) : f \in parts[i] BY <1>1
 <2>2. PICK op : Has(seqs[i], op) /\ op.does = does /\ f \in op.files BY <1>4, <2>1 DEF Covers
 <2> QED BY <1>7, <1>9, <2>2 DEF HasStill
<1>11. FlattenSeq(seqs) # <<>>
 <2>1. MadeOf(FlattenSeq(seqs), seqs, Len(seqs)) BY <1>7, Flattened
 <2>2. PICK f \in X : TRUE OBVIOUS
 <2>3. PICK i \in 1 .. Len(parts) : f \in parts[i] BY <1>1
 <2>4. PICK op : Has(seqs[i], op) BY <1>4, <2>3 DEF Covers
 <2>5. PICK h \in 1 .. Len(seqs[i]) : TRUE BY <2>4 DEF Has
 <2>6. \E k \in 1 .. Len(FlattenSeq(seqs)) : TRUE BY <1>7, <2>1, <2>5 DEF MadeOf
 <2> HIDE DEF S
 <2> QED BY <1>8, <2>6
<1> QED BY <1>8, <1>9, <1>10, <1>11 DEF seqs, all, parts

LEMMA DeleteFromIs ==
    ASSUME back_end \in DOMAIN BackEnd, Be.can_write # {}, NEW j, j.action \notin {"list", "test"},
           NEW X \in SUBSET Files, X # {}
    PROVE  LET script == DeleteFrom(j, <<>>, X)
           IN /\ Fine(j, script)
              /\ j.list # "unsaved" =>
                    /\ script # <<>> /\ script[Len(script)].op.does \in {"delete", "remove"}
                    /\ Covers(script, X, "delete")
<1>0. Fine(j, <<>>) /\ Program(Be.writes) \in AnyProgram BY NothingFine, ProgramKnown
<1>1. CASE j.list = "unsaved" BY <1>0, <1>1 DEF DeleteFrom
<1>2. CASE j.list = "file"
 <2> DEFINE part == CommandDelete(<<>>, X)
 <2>1. DeleteFrom(j, <<>>, X) = SetSticky(RemoveDir(part, "list")) BY <1>2 DEF DeleteFrom
 <2>2. Fine(j, part) /\ Covers(part, X, "delete") BY <1>0, RunFine DEF CommandDelete
 <2> HIDE DEF part
 <2>3. LET more == SetSticky(RemoveDir(part, "list"))
       IN /\ Fine(j, more) /\ more # <<>> /\ HasStill(part, more)
          /\ more[Len(more)].op.does = "remove"
  BY <2>2, RemovedFine
 <2> QED BY <2>1, <2>2, <2>3 DEF Covers, HasStill
<1>3. CASE j.list \notin {"unsaved", "file"}
 <2> DEFINE seqs == [i \in DOMAIN Chunks(j, X) |->
                         Run(<<>>, Program(Be.writes), "delete", Chunks(j, X)[i])]
            flat == FlattenSeq(seqs)
            S    == {c \in CommandInfo : c.op.does = "delete"}
 <2>1. DeleteFrom(j, <<>>, X) = <<>> \o flat BY <1>3 DEF DeleteFrom, Each, CommandDelete
 <2>2. /\ Fine(j, <<>> \o flat) /\ Covers(<<>> \o flat, X, "delete")
       /\ flat # <<>> /\ flat \in Seq(S)
  BY <1>0, PartsRun
 <2> HIDE DEF flat
 <2>3. <<>> \o flat = flat /\ flat[Len(flat)] \in S
  <3> HIDE DEF S
  <3> QED BY <2>2
 <2> QED BY <2>1, <2>2, <2>3
<1> QED BY <1>1, <1>2, <1>3

LEMMA JarAddIs ==
    ASSUME back_end \in DOMAIN BackEnd, Be.can_write # {}, NEW j, j.action = "add",
           j.files \in SUBSET Files, j.files # {}
    PROVE  Fine(j, JarAdd(j)) /\ Covers(JarAdd(j), j.files, "add")
<1>0. Fine(j, <<>>) /\ Program(Be.writes) \in AnyProgram BY NothingFine, ProgramKnown
<1> DEFINE seqs == [i \in DOMAIN Chunks(j, j.files) |->
                        Run(<<>>, Program(Be.writes), "add", Chunks(j, j.files)[i])]
           part == <<>> \o FlattenSeq(seqs)
<1>1. JarAdd(j) = SetSticky(RemoveDir(part, "work")) BY DEF JarAdd, Each, CommandAdd
<1>2. Fine(j, part) /\ Covers(part, j.files, "add") BY <1>0, PartsRun
<1> HIDE DEF part
<1>3. LET more == SetSticky(RemoveDir(part, "work"))
      IN Fine(j, more) /\ HasStill(part, more)
 BY <1>2, RemovedFine
<1> QED BY <1>1, <1>2, <1>3 DEF Covers, HasStill

LEMMA CfileAddIs ==
    ASSUME back_end \in DOMAIN BackEnd, Be.can_write # {}, NEW j, j.action = "add",
           j.files \in SUBSET Files
    PROVE  Fine(j, CfileAdd(j.files)) /\ Covers(CfileAdd(j.files), j.files, "add")
<1> DEFINE op == [program |-> "cp", does |-> "add", files |-> j.files]
<1>1. "cp" \in AnyProgram BY DEF AnyProgram, Shell
<1>2. op \in CommandOps BY <1>1, OpsOfCommands
<1>3. OpFine(j, op) /\ op.does = "add" /\ op.files = j.files BY DEF OpFine
<1>4. CfileAdd(j.files) = Around(<<>>, op) BY DEF CfileAdd
<1> HIDE DEF op
<1>5. Fine(j, <<>>) BY NothingFine
<1>6. Fine(j, Around(<<>>, op)) /\ Has(Around(<<>>, op), op) BY <1>2, <1>3, <1>5, AroundFine
<1> QED BY <1>3, <1>4, <1>6 DEF Covers

\* Adding deletes what it replaces first, where the back end cannot do both.
LEMMA ArchiveAddIs ==
    ASSUME back_end \in DOMAIN BackEnd, Be.can_write # {}, NEW j, j \in Additions
    PROVE  Fine(j, ArchiveAdd(j)) /\ Covers(ArchiveAdd(j), j.files, "add")
<1>0. /\ j.action = "add" /\ j.files \subseteq Files /\ j.files # {}
      /\ j.present \subseteq Files /\ j.list # "unsaved"
 BY AdditionIs, MembersKnown
<1> DEFINE nothing == Can("replace") \/ j.present = {}
           cleared == IF nothing THEN <<>> ELSE SetIgnoreError(DeleteFrom(j, <<>>, j.present))
<1>1. Fine(j, cleared)
 <2>1. CASE nothing BY <2>1, NothingFine
 <2>2. CASE ~nothing
  <3> DEFINE script == DeleteFrom(j, <<>>, j.present)
  <3>1. Fine(j, script) /\ script # <<>> /\ script[Len(script)].op.does \in {"delete", "remove"}
   BY <1>0, <2>2, DeleteFromIs
  <3>2. cleared = SetIgnoreError(script) BY <2>2
  <3> HIDE DEF script, cleared
  <3> QED BY <3>1, <3>2, IgnoredFine
 <2> QED BY <2>1, <2>2
<1>2. Program(Be.writes) \in AnyProgram BY ProgramKnown
<1>3. CASE back_end \in CFiles
 <2>1. ArchiveAdd(j) = CfileAdd(j.files) BY <1>3 DEF ArchiveAdd
 <2> QED BY <1>0, <2>1, CfileAddIs
<1>4. CASE back_end = "jar"
 <2>1. ArchiveAdd(j) = JarAdd(j) BY <1>4 DEF ArchiveAdd, CFiles
 <2> QED BY <1>0, <2>1, JarAddIs
<1>5. CASE back_end \notin CFiles \cup {"jar"} /\ j.list = "file"
 <2> DEFINE part == CommandAdd(cleared, j.files)
 <2>1. ArchiveAdd(j) = SetSticky(RemoveDir(part, "list")) BY <1>5 DEF ArchiveAdd
 <2> HIDE DEF cleared
 <2>2. Fine(j, part) /\ Covers(part, j.files, "add")
  <3>1. /\ "add" \in {"add", "delete", "list", "test"}
        /\ (j.action \in {"list", "test"} => j.files \subseteq Members)
   BY <1>0
  <3>2. part = Run(cleared, Program(Be.writes), "add", j.files) BY DEF CommandAdd
  <3>3. j.files \in SUBSET Files BY <1>0
  <3> HIDE DEF part
  <3>4. Fine(j, part) BY <1>1, <1>2, <3>1, <3>2, <3>3, RunFine
  <3>5. Covers(part, j.files, "add") BY <1>1, <1>2, <3>1, <3>2, <3>3, RunFine
  <3> QED BY <3>4, <3>5
 <2> HIDE DEF part
 <2>3. LET more == SetSticky(RemoveDir(part, "list"))
       IN Fine(j, more) /\ HasStill(part, more)
  BY <2>2, RemovedFine
 <2> QED BY <2>1, <2>2, <2>3 DEF Covers, HasStill
<1>6. CASE back_end \notin CFiles \cup {"jar"} /\ j.list # "file"
 <2> DEFINE seqs == [i \in DOMAIN Chunks(j, j.files) |->
                         Run(<<>>, Program(Be.writes), "add", Chunks(j, j.files)[i])]
 <2>1. ArchiveAdd(j) = cleared \o FlattenSeq(seqs) BY <1>6 DEF ArchiveAdd, Each, CommandAdd
 <2> HIDE DEF cleared
 <2>2. LET all == cleared \o FlattenSeq(seqs)
       IN Fine(j, all) /\ Covers(all, j.files, "add")
  BY <1>0, <1>1, <1>2, PartsRun
 <2> QED BY <2>1, <2>2
<1> QED BY <1>3, <1>4, <1>5, <1>6

\* It looks at the whole archive.
LooksAtAll(script) ==
    DoneWholly(script, Members, "list") \/ DoneWholly(script, Members, "test")

LEMMA ListScriptIs ==
    ASSUME back_end \in DOMAIN BackEnd, NEW j, j.action = "list"
    PROVE  Fine(j, ListScript) /\ (ListScript = <<>> \/ LooksAtAll(ListScript))
<1>0. Fine(j, <<>>) /\ Program(Be.reads) \in AnyProgram /\ Members \in SUBSET Files
 BY NothingFine, ProgramKnown, MembersKnown
<1>1. CASE back_end \in CFiles \ {"gzip"}
 <2>1. ListScript = <<>> BY <1>1 DEF ListScript, CFiles
 <2> QED BY <1>0, <2>1
<1>2. CASE back_end = "dpkg"
 <2> DEFINE first == Run(<<>>, "dpkg-deb", "prepare", {})
 <2>1. ListScript = Run(first, "dpkg-deb", "list", Members) BY <1>2 DEF ListScript, CFiles
 <2>2. "dpkg-deb" \in AnyProgram
  <3>1. Be.reads = <<"dpkg-deb">> BY <1>2 DEF Be, BackEnd, Dpkg, Reader, Command
  <3> QED BY <3>1 DEF Programs, ToSet, Be, AnyProgram
 <2>3. Fine(j, first) BY <1>0, <2>2, ServantsFine
 <2> HIDE DEF first
 <2>4. LET more == Run(first, "dpkg-deb", "list", Members)
       IN Fine(j, more) /\ DoneWholly(more, Members, "list")
  <3>1. "list" \in {"add", "delete", "list", "test"} /\ Members \subseteq Members OBVIOUS
  <3> QED BY <3>1, <1>0, <2>2, <2>3, RunFine
 <2> QED BY <2>1, <2>4 DEF LooksAtAll
<1>3. CASE back_end \notin (CFiles \ {"gzip"}) \cup {"dpkg"}
 <2>1. ListScript = Run(<<>>, Program(Be.reads), "list", Members) BY <1>3 DEF ListScript
 <2>2. LET more == Run(<<>>, Program(Be.reads), "list", Members)
       IN Fine(j, more) /\ DoneWholly(more, Members, "list")
  BY <1>0, RunFine
 <2> QED BY <2>1, <2>2 DEF LooksAtAll
<1> QED BY <1>1, <1>2, <1>3

\* What the script of an operation does, when it all goes well.
Complete(j, script) ==
    /\ j.action = "extract" => BringsAll(j, script)
    /\ j.action = "list" => script = <<>> \/ LooksAtAll(script)
    /\ j.action = "test" => LooksAtAll(script)
    /\ j.action \in {"add", "delete"} => Covers(script, j.files, j.action)

\* So does every script: it does only what may be done, and all that was asked for.
LEMMA ScriptIs ==
    ASSUME back_end \in DOMAIN BackEnd, NEW j \in Jobs, Capable(j)
    PROVE  Fine(j, Script(j)) /\ (j.list # "unsaved" => Complete(j, Script(j)))
<1>1. CASE j.action = "list" BY <1>1, ListScriptIs DEF Script, Complete
<1>2. CASE j.action = "test"
 <2>1. Script(j) = Run(<<>>, Program(Be.reads), "test", Members) BY <1>2 DEF Script
 <2>2. Fine(j, <<>>) /\ Program(Be.reads) \in AnyProgram /\ Members \in SUBSET Files
  BY NothingFine, ProgramKnown, MembersKnown
 <2>3. LET more == Run(<<>>, Program(Be.reads), "test", Members)
       IN Fine(j, more) /\ DoneWholly(more, Members, "test")
  <3>1. "test" \in {"add", "delete", "list", "test"} /\ Members \subseteq Members OBVIOUS
  <3> QED BY <3>1, <2>2, RunFine
 <2> QED BY <1>2, <2>1, <2>3 DEF LooksAtAll, Complete
<1>3. CASE j.action = "extract" /\ j \in Extractions
 <2>1. Extraction(j) BY <1>3, ExtractionIs
 <2> QED BY <1>3, <2>1, ExtractScriptIs DEF Script, Complete
<1>4. CASE j.action = "add" /\ j \in Additions
 <2>1. Be.can_write # {} BY <1>4 DEF Capable, IsCapable
 <2> QED BY <1>4, <2>1, ArchiveAddIs DEF Script, Complete
<1>5. CASE j.action = "delete" /\ j \in Deletions
 <2>1. Be.can_write # {} BY <1>5 DEF Capable, IsCapable
 <2>2. Script(j) = DeleteFrom(j, <<>>, j.files) /\ j.files \in SUBSET Files /\ j.files # {}
  BY <1>5, DeletionIs, MembersKnown DEF Script
 <2>3. /\ Fine(j, DeleteFrom(j, <<>>, j.files))
       /\ j.list # "unsaved" => Covers(DeleteFrom(j, <<>>, j.files), j.files, "delete")
  BY <1>5, <2>1, <2>2, DeleteFromIs
 <2> QED BY <1>5, <2>2, <2>3 DEF Complete
<1> QED BY <1>1, <1>2, <1>3, <1>4, <1>5, JobIs

----
(* The inductive invariant.  The commands of the script do what is asked, and only that; a place
   at the destination is as it was, or was put there rightly; what the commands that ended well
   were to do is done; and the owner is told what becomes of the error. *)

\* What the command was to do is done.
Did(op) ==
    /\ op.does \in {"add", "delete", "list", "test"} => op.files \subseteq done
    /\ job.action = "extract" /\ Puts(op) =>
           \A f \in op.files : dest[f][Place(op)] = "mine" \/ Keeps(op, job.before[f][Place(op)])

Through(i) == comm[i].ignore_error \/ Did(comm[i].op)

ScriptProgress ==
    busy /\ ~sticky_only =>
        /\ \A i \in DOMAIN comm : i < current_command => Through(i)
        /\ child = 0 => Through(current_command)

Finished == ~busy /\ error.type = "NONE" => \A i \in DOMAIN comm : Through(i)

PutRight ==
    /\ dest \in [Files -> [{"top", "folder"} -> Contents]]
    /\ job.action = "extract" =>
           \A f \in Files, place \in {"top", "folder"} :
               \/ dest[f][place] = job.before[f][place]
               \/ /\ dest[f][place] = "mine"
                  /\ job.before[f][place] = "nothing" \/ Allowed(job, f, place)

Looked ==
    /\ job.action \in {"list", "test"} => done \subseteq Members
    /\ job.action = "list" /\ comm = <<>> => Members \subseteq done

Told == IF busy THEN told = "nothing" ELSE told \in HandleError(error)

Planned ==
    /\ job \in Jobs /\ Fine(job, comm)
    /\ job.list # "unsaved" => Complete(job, comm)

Doing == Planned /\ PutRight /\ Looked /\ Told /\ ScriptProgress /\ Finished

Idle == job = NoJob /\ ~busy /\ ~spawn_failed /\ told = "nothing"

BackEndInv == IInv /\ back_end \in BackEnds /\ (Idle \/ Doing)

LEMMA BackEndInvInit == BackEndInit => BackEndInv
<1> SUFFICES ASSUME BackEndInit PROVE BackEndInv OBVIOUS
<1>1. IInv BY IInvInit DEF BackEndInit
<1>2. Idle BY DEF BackEndInit, Init, Idle
<1> QED BY <1>1, <1>2 DEF BackEndInit, BackEndInv

----
(* The plan is made once. *)

LEMMA FineKept ==
    ASSUME UNCHANGED back_end, NEW CONSTANT j, NEW CONSTANT script
    PROVE  Fine(j, script)' <=> Fine(j, script)
  BY SMT DEF Fine, CommandFine, OpFine, Spares, Allowed, Asked, Filtered, Members, Be, Can,
             LooksAt, MoveToDestDir, Place, Keeps, CommandOps

LEMMA CompleteKept ==
    ASSUME UNCHANGED back_end, NEW CONSTANT j, NEW CONSTANT script
    PROVE  Complete(j, script)' <=> Complete(j, script)
<1>1. /\ Members' = Members /\ Asked(j)' = Asked(j) /\ GoesTo(j)' = GoesTo(j)
      /\ Filtered(j)' = Filtered(j)
 BY DEF Members, Asked, GoesTo, Filtered, Be, Can, LooksAt
<1>2. \A f : (Due(j, f)' <=> Due(j, f)) /\ (Elsewhere(j, f)' <=> Elsewhere(j, f))
 BY <1>1 DEF Due, Elsewhere
<1>3. \A f, op : Brings(j, op, f)' <=> Brings(j, op, f) BY <1>1 DEF Brings
<1>4. BringsAll(j, script)' <=> BringsAll(j, script) BY <1>1, <1>2, <1>3 DEF BringsAll
<1>5. LooksAtAll(script)' <=> LooksAtAll(script) BY <1>1 DEF LooksAtAll
<1> QED BY <1>4, <1>5 DEF Complete

LEMMA JobsKept ==
    ASSUME UNCHANGED back_end
    PROVE  Jobs' = Jobs /\ Members' = Members
<1>1. Members' = Members /\ Be' = Be BY DEF Members, Be
<1>2. Lists' = Lists BY <1>1 DEF Lists, Can
<1>3. Extractions' = Extractions BY <1>1, <1>2 DEF Extractions
<1>4. Additions' = Additions BY <1>1, <1>2 DEF Additions
<1>5. Deletions' = Deletions BY <1>1, <1>2 DEF Deletions
<1>6. Can("test")' <=> Can("test") BY <1>1 DEF Can
<1> QED BY <1>1, <1>3, <1>4, <1>5, <1>6 DEF Jobs

LEMMA PlannedKept ==
    ASSUME Planned, UNCHANGED <<back_end, job, comm>>
    PROVE  Planned'
<1>1. PICK j, script : j = job /\ script = comm OBVIOUS
<1>2. Fine(j, script)' /\ (j.list # "unsaved" => Complete(j, script)')
 BY <1>1, FineKept, CompleteKept DEF Planned
<1>3. job' = j /\ comm' = script BY <1>1
<1>4. job' \in Jobs' BY JobsKept DEF Planned
<1> QED BY <1>2, <1>3, <1>4 DEF Planned

LEMMA ToldNow ==
    ASSUME UNCHANGED back_end, Tell
    PROVE  Told'
<1>1. PICK e : e = error' OBVIOUS
<1>2. HandleError(e)' = HandleError(e)
 BY DEF HandleError, Handle7z, HandleArj, HandleAlz, HandleRar, HandleUnstuff, HandleZip
<1>3. told' \in IF busy' THEN {"nothing"} ELSE HandleError(e) BY <1>1 DEF Tell
<1> QED BY <1>1, <1>2, <1>3 DEF Told

\* The places, and what was done, are left alone.
LEMMA PlacedKept ==
    ASSUME PutRight, Looked, UNCHANGED <<back_end, job, comm, dest, done>>
    PROVE  PutRight' /\ Looked'
<1>1. Members' = Members /\ (job' = job => \A j : Asked(j)' = Asked(j) /\ Filtered(j)' = Filtered(j))
 BY DEF Members, Asked, Filtered, Be, Can, LooksAt
<1>2. ASSUME NEW CONSTANT j, NEW CONSTANT f, NEW CONSTANT place
      PROVE  Allowed(j, f, place)' <=> Allowed(j, f, place)
 BY <1>1 DEF Allowed, MoveToDestDir, Can, Be
<1>3. PICK j : j = job /\ job' = j OBVIOUS
<1>4. \A f, place : Allowed(job, f, place)' <=> Allowed(job, f, place) BY <1>2, <1>3
<1>5. PutRight' BY <1>4 DEF PutRight
<1>6. Looked' BY <1>1 DEF Looked
<1> QED BY <1>5, <1>6

LEMMA ThroughKept ==
    ASSUME UNCHANGED <<job, comm, dest, done>>, NEW CONSTANT i
    PROVE  Through(i)' <=> Through(i)
  BY DEF Through, Did, Place, Puts, Keeps

----
(* An operation is asked for. *)

\* A new operation, with its script.
LEMMA AskStep ==
    ASSUME BackEndInv, job = NoJob, NEW j \in Jobs, NEW spawned \in BOOLEAN, Ask(j, spawned)
    PROVE  BackEndInv'
<1>1. /\ Idle /\ IInv /\ back_end \in BackEnds /\ back_end \in DOMAIN BackEnd
 <2>1. job \notin Jobs
  <3> QED BY JobIs, BackEndsAssumption DEF NoJob, BackEndInv
 <2> QED BY <2>1, BackEndsAssumption DEF BackEndInv, Doing, Planned
<1>2. PICK script : script = Script(j) OBVIOUS
<1>3. /\ Capable(j) /\ Request(script, spawned) /\ Tell
      /\ job' = j /\ dest' = j.before
      /\ done' = IF j.action = "list" /\ script = <<>> THEN Members ELSE {}
      /\ UNCHANGED <<back_end, installed, held>>
 BY <1>2 DEF Ask
<1>4. Fine(j, script) /\ (j.list # "unsaved" => Complete(j, script)) BY <1>1, <1>2, <1>3, ScriptIs
<1>5. IInv' BY <1>1, <1>3, <1>4, RequestStep DEF Fine
<1>6. ~busy /\ ~running BY <1>1 DEF Idle, IInv, Outcome, ReadyWhenIdle
<1>7. comm' = script /\ Start(script, spawned) BY <1>3, <1>6 DEF Request
<1>8. Planned'
 <2>1. Fine(j, script)' /\ (j.list # "unsaved" => Complete(j, script)')
  BY <1>3, <1>4, FineKept, CompleteKept
 <2>2. job' \in Jobs' BY <1>3, JobsKept
 <2> QED BY <1>3, <1>7, <2>1, <2>2 DEF Planned
<1>9. PutRight'
 <2>1. j.before \in [Files -> [{"top", "folder"} -> Contents]] BY <1>1, JobIs
 <2> QED BY <1>3, <2>1 DEF PutRight
<1>10. Looked'
 <2>1. Members' = Members BY <1>3, JobsKept
 <2> QED BY <1>3, <1>7, <2>1 DEF Looked
<1>11. Told' BY <1>3, ToldNow
<1>12. (ScriptProgress /\ Finished)'
 <2>1. CASE script = <<>>
  <3> QED BY <1>7, <2>1 DEF Start, ScriptProgress, Finished
 <2>2. CASE script # <<>> /\ spawned
  <3>1. busy' /\ current_command' = 1 /\ child' = Running
   BY <1>7, <2>2 DEF Start, StartCurrentCommand
  <3>2. Running # 0 BY ConstantsAssumption
  <3>3. \A i \in DOMAIN comm' : ~(i < 1) BY <1>4, <1>7 DEF Fine
  <3> QED BY <3>1, <3>2, <3>3 DEF ScriptProgress, Finished
 <2>3. CASE script # <<>> /\ ~spawned
  <3>1. ~busy' /\ error' = [NoError EXCEPT !.type = "SPAWN"]
   BY <1>7, <2>3 DEF Start, StartCurrentCommand
  <3>2. error'.type = "SPAWN" BY <3>1 DEF NoError
  <3> QED BY <3>1, <3>2 DEF ScriptProgress, Finished
 <2> QED BY <2>1, <2>2, <2>3
<1> QED BY <1>1, <1>3, <1>5, <1>8, <1>9, <1>10, <1>11, <1>12 DEF BackEndInv, Doing

----
(* The process goes on, is stopped, or is left alone. *)

\* What does not change between the programs.
LEMMA AsideKept ==
    ASSUME BackEndInv, Doing, IInv', UNCHANGED <<back_end, job, comm, dest, done>>, Told',
           (ScriptProgress /\ Finished)'
    PROVE  BackEndInv'
<1>1. Planned /\ PutRight /\ Looked BY DEF Doing
<1>2. Planned' /\ PutRight' /\ Looked' BY <1>1, PlannedKept, PlacedKept
<1>3. back_end' \in BackEnds BY DEF BackEndInv
<1> QED BY <1>2, <1>3 DEF BackEndInv, Doing

LEMMA BusyDoes ==
    ASSUME BackEndInv, busy
    PROVE  Doing /\ IInv /\ TypeOK
  BY DEF BackEndInv, Idle, IInv

LEMMA StopJobStep ==
    ASSUME BackEndInv, StopJob
    PROVE  BackEndInv'
<1>1. Stop /\ UNCHANGED archive_vars BY DEF StopJob
<1>2. busy /\ UNCHANGED <<comm, current_command, child, busy>>
      /\ (sticky_only' \/ UNCHANGED sticky_only)
 BY <1>1 DEF Stop
<1>3. Doing /\ IInv BY <1>2, BusyDoes
<1>4. IInv' BY <1>1, <1>3, StopStep
<1>5. UNCHANGED <<back_end, job, told, dest, done>> BY <1>1 DEF archive_vars
<1>6. Told' /\ Finished' BY <1>2, <1>3, <1>5 DEF Doing, Told, Finished
<1>7. ScriptProgress'
 <2> SUFFICES ASSUME ~sticky_only' PROVE ScriptProgress' BY DEF ScriptProgress
 <2>1. ASSUME NEW i PROVE Through(i)' <=> Through(i) BY <1>2, <1>5, ThroughKept
 <2>2. ~sticky_only BY <1>2
 <2>3. /\ \A i \in DOMAIN comm : i < current_command => Through(i)
       /\ child = 0 => Through(current_command)
  BY <1>2, <1>3, <2>2 DEF Doing, ScriptProgress
 <2>4. PICK k : k = current_command OBVIOUS
 <2>5. child = 0 => Through(k)' BY <2>1, <2>3, <2>4
 <2>6. \A i \in DOMAIN comm : i < current_command => Through(i)' BY <2>1, <2>3
 <2> QED BY <1>2, <2>4, <2>5, <2>6 DEF ScriptProgress
<1> QED BY <1>2, <1>3, <1>4, <1>5, <1>6, <1>7, AsideKept

LEMMA AloneStep ==
    ASSUME BackEndInv, UNCHANGED back_end_vars
    PROVE  BackEndInv'
<1>1. UNCHANGED vars /\ UNCHANGED archive_vars BY DEF back_end_vars
<1>2. IInv' BY <1>1, IInvStep DEF BackEndInv
<1>3. UNCHANGED <<back_end, job, told, dest, done, comm, current_command, child, busy,
                  sticky_only, error, spawn_failed>>
 BY <1>1 DEF archive_vars, vars, process_vars, ghosts
<1>4. CASE Idle BY <1>2, <1>3, <1>4 DEF Idle, BackEndInv, NoJob
<1>5. CASE Doing
 <2>1. ASSUME NEW i PROVE Through(i)' <=> Through(i) BY <1>3, ThroughKept
 <2>2. PICK k, e : k = current_command /\ e = error OBVIOUS
 <2>3. Through(k)' <=> Through(k) BY <2>1
 <2>4. (ScriptProgress /\ Finished)'
  BY <1>3, <1>5, <2>1, <2>2, <2>3 DEF Doing, ScriptProgress, Finished
 <2>5. HandleError(e)' = HandleError(e)
  BY <1>3 DEF HandleError, Handle7z, HandleArj, HandleAlz, HandleRar, HandleUnstuff, HandleZip
 <2>6. Told' BY <1>3, <1>5, <2>2, <2>5 DEF Doing, Told
 <2> QED BY <1>2, <1>3, <1>5, <2>4, <2>6, AsideKept
<1> QED BY <1>4, <1>5 DEF BackEndInv

\* A command that fails is noticed, unless its errors are ignored.
LEMMA ErrorNoticed ==
    ASSUME TypeOK, check_timeout, child # Running, child # 0, ~Info.ignore_error,
           ~Info.continue_func
    PROVE  After("ok").type # "NONE"
<1>1. error \in Errors /\ (child \in 0 .. 255 \/ child = Killed) BY ConstantsAssumption DEF TypeOK
<1>2. CASE error.type = "STOPPED" BY <1>2 DEF After, GzipContinue, CommandError
<1>3. CASE error.type # "STOPPED"
 <2>1. CommandError("ok") = StatusError(error, child) BY <1>3 DEF CommandError
 <2>2. StatusError(error, child).type # "NONE" BY <1>1, ConstantsAssumption DEF StatusError, Errors
 <2> QED BY <2>1, <2>2 DEF After, GzipContinue
<1> QED BY <1>2, <1>3

\* How check_child goes on, when no command has a continue function.
LEMMA CheckGoesOn ==
    ASSUME TypeOK, ~Info.continue_func, NEW spawned \in BOOLEAN, CheckChild("ok", spawned)
    PROVE  LET e           == After("ok")
               only_sticky == sticky_only \/ e.type # "NONE"
               first       == IF e.type # "NONE" THEN RememberFirst(e) ELSE first_error
               next        == NextCommand(only_sticky)
           IN /\ check_timeout /\ child # Running /\ UNCHANGED comm
              /\ \/ ~busy' /\ error'.type = "SPAWN"
                 \/ /\ ~busy' /\ next > Len(comm)
                    /\ error' = IF only_sticky THEN first ELSE e
                 \/ /\ busy' /\ ~(next > Len(comm)) /\ current_command' = next
                    /\ child' = Running /\ sticky_only' = only_sticky
<1> DEFINE e           == After("ok")
           only_sticky == sticky_only \/ e.type # "NONE"
           first       == IF e.type # "NONE" THEN RememberFirst(e) ELSE first_error
           next        == NextCommand(only_sticky)
<1>1. /\ check_timeout /\ child # Running
      /\ IF ~Continues(e)
         THEN Finish(e, sticky_only, first_error)
         ELSE IF next > Len(comm)
         THEN Finish(e, only_sticky, first)
         ELSE /\ StartCurrentCommand(comm, next, e, spawned)
              /\ sticky_only' = only_sticky
              /\ UNCHANGED comm
 BY DEF CheckChild, After
<1>2. Continues(e) /\ e \in Errors BY <1>1, AfterTyped DEF Continues
<1> HIDE DEF e, only_sticky, first, next
<1>3. CASE next > Len(comm) BY <1>1, <1>2, <1>3 DEF Finish, only_sticky, first, next, e
<1>4. CASE ~(next > Len(comm))
 <2>1. /\ StartCurrentCommand(comm, next, e, spawned)
       /\ sticky_only' = only_sticky /\ UNCHANGED comm
  BY <1>1, <1>2, <1>4
 <2>2. CASE spawned BY <1>1, <1>4, <2>1, <2>2 DEF StartCurrentCommand, only_sticky, first, next, e
 <2>3. CASE ~spawned
  <3>1. ~busy' /\ error' = [e EXCEPT !.type = "SPAWN"] BY <2>1, <2>3 DEF StartCurrentCommand
  <3>2. error'.type = "SPAWN" BY <1>2, <3>1 DEF Errors
  <3> QED BY <1>1, <2>1, <3>1, <3>2 DEF only_sticky, first, next, e
 <2> QED BY <2>2, <2>3
<1> QED BY <1>3, <1>4

\* The next program is started, cannot be started, or there is none left.
LEMMA CheckProgramStep ==
    ASSUME BackEndInv, NEW spawned \in BOOLEAN, CheckProgram(spawned)
    PROVE  BackEndInv'
<1> DEFINE e           == After("ok")
           only_sticky == sticky_only \/ e.type # "NONE"
           first       == IF e.type # "NONE" THEN RememberFirst(e) ELSE first_error
           next        == NextCommand(only_sticky)
           i           == current_command
<1>1. /\ CheckChild("ok", spawned) /\ Tell
      /\ UNCHANGED <<back_end, installed, job, dest, held, temp, done>>
 BY DEF CheckProgram
<1>2. check_timeout BY <1>1 DEF CheckChild
<1>3. Doing /\ IInv /\ TypeOK /\ Tracked /\ FailuresNoted /\ busy
 <2> QED BY <1>2, BusyDoes DEF BackEndInv, IInv, TypeOK
<1>4. /\ comm \in Seq(CommandInfo) /\ i \in DOMAIN comm /\ i \in 1 .. Len(comm)
      /\ Len(comm) \in Nat /\ sticky_only \in BOOLEAN /\ only_sticky \in BOOLEAN
 BY <1>3 DEF TypeOK
<1>5. ~Info.continue_func BY <1>3, <1>4 DEF Doing, Planned, Fine, CommandFine, Info
<1>6. /\ child # Running /\ UNCHANGED comm
      /\ \/ ~busy' /\ error'.type = "SPAWN"
         \/ ~busy' /\ next > Len(comm) /\ error' = IF only_sticky THEN first ELSE e
         \/ /\ busy' /\ ~(next > Len(comm)) /\ current_command' = next
            /\ child' = Running /\ sticky_only' = only_sticky
 BY <1>1, <1>3, <1>5, CheckGoesOn
<1>7. IInv' BY <1>1, <1>3, CheckChildStep
<1>8. ~only_sticky => next = i + 1
 <2>1. /\ next \in i + 1 .. Len(comm) + 1
       /\ \A k \in i + 1 .. next - 1 : only_sticky /\ ~comm[k].sticky
  BY <1>4, NextCommandChosen
 <2> HIDE DEF only_sticky, next
 <2>2. ASSUME ~only_sticky, next # i + 1 PROVE FALSE
  <3>1. i + 1 \in i + 1 .. next - 1 BY <1>4, <2>1, <2>2
  <3> QED BY <2>1, <2>2, <3>1
 <2> QED BY <2>1, <2>2
<1>9. ~only_sticky => \A k \in DOMAIN comm : k <= i => Through(k)
 <2> SUFFICES ASSUME ~only_sticky, NEW k \in DOMAIN comm, k <= i PROVE Through(k) OBVIOUS
 <2>1. Info.ignore_error \/ child = 0 BY <1>2, <1>3, <1>5, <1>6, ErrorNoticed
 <2>2. Through(i) BY <1>3, <2>1 DEF Doing, ScriptProgress, Through, Info
 <2>3. \A h \in DOMAIN comm : h < i => Through(h) BY <1>3 DEF Doing, ScriptProgress
 <2>4. k = i \/ k < i BY <1>4
 <2> QED BY <2>2, <2>3, <2>4
<1>10. ASSUME NEW k PROVE Through(k)' <=> Through(k) BY <1>1, <1>6, ThroughKept
<1>11. ~busy' /\ error'.type = "NONE" => next > Len(comm) /\ ~only_sticky
 <2> SUFFICES ASSUME ~busy', error'.type = "NONE" PROVE next > Len(comm) /\ ~only_sticky OBVIOUS
 <2>1. next > Len(comm) /\ error' = IF only_sticky THEN first ELSE e BY <1>6
 <2>2. sticky_only => first_error = first_failure /\ first_failure.type # "NONE"
  BY <1>3 DEF Tracked, FailuresNoted
 <2> HIDE DEF e, next
 <2>3. only_sticky => first.type # "NONE" BY <1>4, <2>2 DEF RememberFirst
 <2> QED BY <2>1, <2>3
<1> HIDE DEF e, only_sticky, first, next
<1>12. Finished'
 <2> SUFFICES ASSUME ~busy', error'.type = "NONE", NEW k \in DOMAIN comm PROVE Through(k)'
  BY <1>6 DEF Finished
 <2>1. next > Len(comm) /\ ~only_sticky BY <1>11
 <2>2. k <= i BY <1>4, <1>8, <2>1
 <2> QED BY <1>9, <1>10, <2>1, <2>2
<1>13. ScriptProgress'
 <2> SUFFICES ASSUME busy', ~sticky_only' PROVE ScriptProgress' BY DEF ScriptProgress
 <2>1. current_command' = next /\ child' = Running /\ ~only_sticky BY <1>6
 <2>2. child' # 0 BY <2>1, ConstantsAssumption
 <2>3. \A k \in DOMAIN comm : k < next => Through(k)' BY <1>4, <1>8, <1>9, <1>10, <2>1
 <2> QED BY <1>6, <2>1, <2>2, <2>3 DEF ScriptProgress
<1> QED BY <1>1, <1>3, <1>6, <1>7, <1>12, <1>13, ToldNow, AsideKept

----
(* A program ends. *)

LEMMA PlaceTyped == ASSUME NEW op PROVE Place(op) \in {"top", "folder"}
  BY DEF Place

\* What a program may have done.
LEMMA WorksIs ==
    ASSUME NEW op \in CommandOps, NEW status, NEW X, Works(op, status, X)
    PROVE  /\ X \subseteq op.files /\ (status = 0 => X = op.files)
           /\ \/ Puts(op) /\ dest' = Writing(op, X) /\ UNCHANGED done
              \/ ~Puts(op) /\ UNCHANGED dest /\ done' = done \cup X
              \/ ~Puts(op) /\ UNCHANGED <<dest, done>>
                 /\ op.does \notin {"add", "delete", "list", "test"}
           /\ op.does \in {"add", "delete", "list", "test"} => ~Puts(op)
<1> QED BY DEF CommandOps, Works, Puts

\* What is in a place afterwards.
LEMMA WritingIs ==
    ASSUME NEW op \in CommandOps, NEW X, X \subseteq Files,
           dest \in [Files -> [{"top", "folder"} -> Contents]], dest' = Writing(op, X)
    PROVE  /\ dest' \in [Files -> [{"top", "folder"} -> Contents]]
           /\ \A f \in Files, place \in {"top", "folder"} :
                  dest'[f][place] = IF f \in X /\ place = Place(op)
                                    THEN IF Keeps(op, dest[f][place]) THEN dest[f][place] ELSE "mine"
                                    ELSE dest[f][place]
<1> DEFINE place == Place(op)
<1>1. place \in {"top", "folder"} BY PlaceTyped
<1>2. dest' = [f \in Files |-> IF f \in X THEN [dest[f] EXCEPT ![place] = Written(op, @)] ELSE dest[f]]
 BY DEF Writing, Place
<1> HIDE DEF place
<1>3. \A there \in Contents :
          /\ Written(op, there) \in Contents
          /\ Written(op, there) = IF Keeps(op, there) THEN there ELSE "mine"
 BY DEF Written, Keeps, Contents
<1>4. ASSUME NEW f \in Files
      PROVE  /\ dest'[f] \in [{"top", "folder"} -> Contents]
             /\ \A p \in {"top", "folder"} :
                    dest'[f][p] = IF f \in X /\ p = place
                                  THEN IF Keeps(op, dest[f][p]) THEN dest[f][p] ELSE "mine"
                                  ELSE dest[f][p]
 <2>1. dest[f] \in [{"top", "folder"} -> Contents] /\ dest[f][place] \in Contents BY <1>1
 <2>2. CASE f \in X
  <3>1. dest'[f] = [dest[f] EXCEPT ![place] = Written(op, dest[f][place])] BY <1>2, <2>2
  <3> QED BY <1>1, <1>3, <2>1, <2>2, <3>1
 <2>3. CASE f \notin X BY <1>2, <2>1, <2>3
 <2> QED BY <2>2, <2>3
<1>5. dest' \in [Files -> [{"top", "folder"} -> Contents]] BY <1>2, <1>4
<1> QED BY <1>4, <1>5 DEF place

\* A program ends: what it did to the files, and what becomes of its status.
LEMMA ProgramEndsStep ==
    ASSUME BackEndInv, NEW status \in ExitCodes, ProgramEnds(status)
    PROVE  BackEndInv'
<1> DEFINE op == Info.op
<1>1. PICK X \in SUBSET Files : Works(op, status, X) BY DEF ProgramEnds
<1>2. /\ child = Running /\ child' = status /\ ChildExits(status)
      /\ UNCHANGED <<comm, current_command, error, busy, sticky_only, spawn_failed>>
      /\ UNCHANGED <<back_end, installed, job, told>>
 BY DEF ProgramEnds, ChildExits, ghosts
<1>3. Doing /\ IInv /\ TypeOK /\ busy
 <2> QED BY <1>2, ConstantsAssumption, BusyDoes DEF BackEndInv, IInv, TypeOK
<1>4. comm \in Seq(CommandInfo) /\ current_command \in DOMAIN comm BY <1>3 DEF TypeOK
<1>5. op \in CommandOps /\ OpFine(job, op) /\ job \in Jobs
 BY <1>3, <1>4 DEF Doing, Planned, Fine, CommandFine, Info
<1>6. IInv' BY <1>2, <1>3, ExitStep
<1> HIDE DEF op
<1>7. /\ X \subseteq op.files /\ (status = 0 => X = op.files)
      /\ \/ Puts(op) /\ dest' = Writing(op, X) /\ UNCHANGED done
         \/ ~Puts(op) /\ UNCHANGED dest /\ done' = done \cup X
         \/ ~Puts(op) /\ UNCHANGED <<dest, done>>
            /\ op.does \notin {"add", "delete", "list", "test"}
      /\ op.does \in {"add", "delete", "list", "test"} => ~Puts(op)
 BY <1>1, <1>5, WorksIs
<1>8. dest \in [Files -> [{"top", "folder"} -> Contents]] BY <1>3 DEF Doing, PutRight
<1>9. Puts(op) =>
          /\ dest' \in [Files -> [{"top", "folder"} -> Contents]]
          /\ \A f \in Files, place \in {"top", "folder"} :
                 dest'[f][place] = IF f \in X /\ place = Place(op)
                                   THEN IF Keeps(op, dest[f][place]) THEN dest[f][place] ELSE "mine"
                                   ELSE dest[f][place]
 BY <1>5, <1>7, <1>8, WritingIs
<1>10. /\ done \subseteq done'
       /\ dest' \in [Files -> [{"top", "folder"} -> Contents]]
       /\ \A f \in Files, place \in {"top", "folder"} :
              dest'[f][place] \in {dest[f][place], "mine"}
 BY <1>7, <1>8, <1>9
<1>11. \A f \in Files, place \in {"top", "folder"} :
           dest'[f][place] # dest[f][place] =>
               Puts(op) /\ f \in op.files /\ place = Place(op) /\ ~Keeps(op, dest[f][place])
 BY <1>7, <1>9
<1>12. Planned' BY <1>2, <1>3, PlannedKept DEF Doing
<1>13. PutRight'
 <2>1. PICK j : j = job /\ job' = j BY <1>2
 <2>2. ASSUME NEW CONSTANT f, NEW CONSTANT place
       PROVE  Allowed(j, f, place)' <=> Allowed(j, f, place)
  <3>1. Asked(j)' = Asked(j) /\ Filtered(j)' = Filtered(j)
   BY <1>2 DEF Members, Asked, Filtered, Be, Can, LooksAt
  <3> QED BY <1>2, <3>1 DEF Allowed, MoveToDestDir, Can, Be
 <2>3. ASSUME j.action = "extract", NEW f \in Files, NEW place \in {"top", "folder"}
       PROVE  \/ dest'[f][place] = j.before[f][place]
              \/ /\ dest'[f][place] = "mine"
                 /\ j.before[f][place] = "nothing" \/ Allowed(j, f, place)
  <3>1. \/ dest[f][place] = j.before[f][place]
        \/ /\ dest[f][place] = "mine"
           /\ j.before[f][place] = "nothing" \/ Allowed(j, f, place)
   BY <1>3, <2>1, <2>3 DEF Doing, PutRight
  <3>2. CASE dest'[f][place] = dest[f][place] BY <3>1, <3>2
  <3>3. CASE dest'[f][place] # dest[f][place]
   <4>1. Puts(op) /\ f \in op.files /\ place = Place(op) /\ ~Keeps(op, dest[f][place])
    BY <1>11, <3>3
   <4>2. dest'[f][place] = "mine" BY <1>10, <3>3
   <4>3. \/ j.before[f][place] = "nothing"
         \/ Keeps(op, j.before[f][place])
         \/ Allowed(j, f, place)
    BY <1>5, <2>1, <2>3, <4>1 DEF OpFine, Puts, Spares
   <4> QED BY <3>1, <4>1, <4>2, <4>3
  <3> QED BY <3>2, <3>3
 <2>4. ASSUME j.action = "extract", NEW f \in Files, NEW place \in {"top", "folder"}
       PROVE  \/ dest'[f][place] = j.before[f][place]
              \/ /\ dest'[f][place] = "mine"
                 /\ j.before[f][place] = "nothing" \/ Allowed(j, f, place)'
  BY <2>2, <2>3, <2>4
 <2> QED BY <1>10, <2>1, <2>4 DEF PutRight
<1>14. Looked'
 <2>1. Members' = Members BY <1>2, JobsKept
 <2>2. job.action \in {"list", "test"} => op.files \subseteq Members /\ done \subseteq Members
  BY <1>3, <1>5 DEF OpFine, Doing, Looked
 <2>3. done' \subseteq done \cup op.files BY <1>7
 <2>4. job.action = "list" /\ comm = <<>> => Members \subseteq done BY <1>3 DEF Doing, Looked
 <2> QED BY <1>2, <1>10, <2>1, <2>2, <2>3, <2>4 DEF Looked
<1>15. Told' BY <1>2, <1>3 DEF Doing, Told
<1>16. ASSUME NEW any \in CommandOps, Did(any) PROVE Did(any)'
 <2>1. ASSUME job.action = "extract", Puts(any), NEW f \in any.files
       PROVE  dest'[f][Place(any)] = "mine" \/ Keeps(any, job.before[f][Place(any)])
  <3>1. dest[f][Place(any)] = "mine" \/ Keeps(any, job.before[f][Place(any)])
   BY <1>16, <2>1 DEF Did
  <3>2. any.files \subseteq Files BY DEF CommandOps
  <3>3. dest'[f][Place(any)] \in {dest[f][Place(any)], "mine"} BY <1>10, <3>2, PlaceTyped
  <3> QED BY <3>1, <3>3
 <2>2. any.does \in {"add", "delete", "list", "test"} => any.files \subseteq done'
  BY <1>10, <1>16 DEF Did
 <2> QED BY <1>2, <2>1, <2>2 DEF Did, Place, Puts, Keeps
<1>17. ASSUME status = 0 PROVE Did(op)'
 <2>1. X = op.files /\ op.files \subseteq Files BY <1>5, <1>7, <1>17 DEF CommandOps
 <2>2. op.does \in {"add", "delete", "list", "test"} => op.files \subseteq done' BY <1>7, <2>1
 <2>3. ASSUME job.action = "extract", Puts(op), NEW f \in op.files
       PROVE  dest'[f][Place(op)] = "mine" \/ Keeps(op, job.before[f][Place(op)])
  <3>1. dest'[f][Place(op)] = IF Keeps(op, dest[f][Place(op)]) THEN dest[f][Place(op)] ELSE "mine"
   BY <1>9, <2>1, <2>3, PlaceTyped
  <3>2. dest[f][Place(op)] \in {job.before[f][Place(op)], "mine"}
   BY <1>3, <2>1, <2>3, PlaceTyped DEF Doing, PutRight
  <3> QED BY <3>1, <3>2
 <2>4. PICK o : o = op OBVIOUS
 <2>5. Did(o)' BY <1>2, <2>2, <2>3, <2>4 DEF Did, Place, Puts, Keeps
 <2>6. op' = op BY <1>2 DEF op, Info
 <2> QED BY <2>4, <2>5, <2>6
<1>18. ASSUME NEW i \in DOMAIN comm, Through(i) PROVE Through(i)'
 <2>1. PICK o : o = comm[i].op OBVIOUS
 <2>2. o \in CommandOps BY <1>3, <1>4, <2>1 DEF Doing, Planned, Fine, CommandFine
 <2>3. Did(o) => Did(o)' BY <1>16, <2>2
 <2> QED BY <1>2, <1>18, <2>1, <2>3 DEF Through
<1>19. (ScriptProgress /\ Finished)'
 <2>1. Finished' BY <1>2, <1>3 DEF Finished
 <2>2. ASSUME ~sticky_only PROVE ScriptProgress'
  <3>1. \A i \in DOMAIN comm : i < current_command => Through(i)'
   BY <1>3, <1>18, <2>2 DEF Doing, ScriptProgress
  <3>2. PICK k : k = current_command OBVIOUS
  <3>3. PICK o : o = op OBVIOUS
  <3>4. comm'[k].op = o /\ op' = o BY <1>2, <3>2, <3>3 DEF op, Info
  <3>5. status = 0 => Did(o)' BY <1>17, <3>3, <3>4
  <3>6. status = 0 => Through(k)' BY <3>4, <3>5 DEF Through
  <3>7. /\ comm' = comm /\ current_command' = k /\ child' = status
        /\ \A i \in DOMAIN comm : i < k => Through(i)'
   BY <1>2, <3>1, <3>2
  <3> QED BY <3>6, <3>7 DEF ScriptProgress
 <2>3. sticky_only => ScriptProgress' BY <1>2 DEF ScriptProgress
 <2> QED BY <2>1, <2>2, <2>3
<1> QED BY <1>2, <1>6, <1>12, <1>13, <1>14, <1>15, <1>19 DEF BackEndInv, Doing

\* Every step keeps the invariant.
LEMMA BackEndInvStep == BackEndInv /\ [BackEndNext]_back_end_vars => BackEndInv'
<1> SUFFICES ASSUME BackEndInv, [BackEndNext]_back_end_vars PROVE BackEndInv' OBVIOUS
<1>1. ASSUME job = NoJob, NEW j \in Jobs, NEW spawned \in BOOLEAN, Ask(j, spawned)
      PROVE  BackEndInv'
 BY <1>1, AskStep
<1>2. ASSUME NEW spawned \in BOOLEAN, CheckProgram(spawned) PROVE BackEndInv'
 BY <1>2, CheckProgramStep
<1>3. CASE StopJob BY <1>3, StopJobStep
<1>4. ASSUME NEW status \in ExitCodes, ProgramEnds(status) PROVE BackEndInv'
 BY <1>4, ProgramEndsStep
<1>5. CASE UNCHANGED back_end_vars BY <1>5, AloneStep
<1> QED BY <1>1, <1>2, <1>3, <1>4, <1>5 DEF BackEndNext

\* While any back end runs the script of any operation, whatever is installed, fails or is
\* stopped: the script asks only for what may be replaced and covers all that was asked
\* for, the places at the destination are as they were or were put right, what has ended
\* well is done, and the owner is told what handle_error makes of the error.
THEOREM BackEndsAreSound == BackEndSpec => []BackEndInv
<1> QED BY BackEndInvInit, BackEndInvStep, PTL DEF BackEndSpec

\* What is told, when an error is not forgiven.
LEMMA NoneIsNone ==
    ASSUME error \in Errors, told \in HandleError(error), told = "NONE", ~Forgiven
    PROVE  error.type = "NONE"
<1> SUFFICES ASSUME error.type # "NONE" PROVE FALSE OBVIOUS
<1>1. error.status \in 0 .. 255 BY DEF Errors
<1>2. CASE back_end \in {"sevenz", "arj", "rar", "unstuff", "zip", "jar"}
 <2>1. ~(error.status <= 1) BY <1>2 DEF Forgiven
 <2>2. CASE back_end = "sevenz" BY <1>1, <2>1, <2>2 DEF HandleError, Handle7z
 <2>3. CASE back_end = "arj" BY <2>1, <2>3 DEF HandleError, HandleArj
 <2>4. CASE back_end = "rar" BY <2>1, <2>4 DEF HandleError, HandleRar
 <2>5. CASE back_end = "unstuff" BY <2>1, <2>5 DEF HandleError, HandleUnstuff
 <2>6. CASE back_end \in {"zip", "jar"} BY <2>1, <2>6 DEF HandleError, HandleZip
 <2> QED BY <1>2, <2>2, <2>3, <2>4, <2>5, <2>6
<1>3. CASE back_end = "alz" BY <1>3 DEF HandleError, HandleAlz
<1>4. CASE back_end \notin {"sevenz", "arj", "rar", "unstuff", "zip", "jar", "alz"}
 <2> QED BY <1>4 DEF HandleError
<1> QED BY <1>2, <1>3, <1>4

LEMMA IdleJob == NoJob.action = "none"
  BY DEF NoJob

LEMMA InvReplacesOnly == BackEndInv => ReplacesOnlyWhatWasAskedUnless
<1> SUFFICES ASSUME BackEndInv, job.action = "extract",
                    NEW f \in Files, NEW place \in {"top", "folder"},
                    dest[f][place] # job.before[f][place], job.before[f][place] # "nothing"
             PROVE  Allowed(job, f, place)
 BY DEF ReplacesOnlyWhatWasAskedUnless, Allowed
<1> QED BY IdleJob DEF BackEndInv, Idle, Doing, PutRight

\* What a script has, that is done, is done.
LEMMA HasDid ==
    ASSUME \A i \in DOMAIN comm : Through(i), comm \in Seq(CommandInfo), NEW op, Has(comm, op)
    PROVE  Did(op)
  BY DEF Has, Through

LEMMA InvSuccess == BackEndInv => SuccessMeansDoneUnless
<1> SUFFICES ASSUME BackEndInv, told = "NONE", ~Forgiven, job.list # "unsaved"
             PROVE  CASE job.action = "extract" ->
                            \A f \in Asked(job) :
                                ToBeThere(f) => dest[f][GoesTo(job)] = "mine" \/ LookedAtElsewhere(f)
                      [] job.action \in {"list", "test"} -> done = Members
                      [] OTHER -> job.files \subseteq done
 BY DEF SuccessMeansDoneUnless
<1>1. Doing /\ IInv /\ back_end \in DOMAIN BackEnd BY BackEndsAssumption DEF BackEndInv, Idle
<1>2. ~busy /\ told \in HandleError(error) /\ error \in Errors BY <1>1 DEF Doing, Told, IInv, TypeOK
<1>3. error.type = "NONE" BY <1>2, NoneIsNone
<1>4. \A i \in DOMAIN comm : Through(i) BY <1>1, <1>2, <1>3 DEF Doing, Finished
<1>5. \A op : Has(comm, op) => Did(op) BY <1>1, <1>4, HasDid DEF Doing, Planned, Fine
<1>6. job \in Jobs /\ Complete(job, comm) BY <1>1 DEF Doing, Planned
<1>7. CASE job.action = "extract"
 <2>1. ASSUME NEW f \in Asked(job), ToBeThere(f), ~LookedAtElsewhere(f)
       PROVE  dest[f][GoesTo(job)] = "mine"
  <3>1. Due(job, f) /\ ~Elsewhere(job, f) BY <2>1 DEF ToBeThere, Due, LookedAtElsewhere, Elsewhere
  <3>2. BringsAll(job, comm) BY <1>6, <1>7 DEF Complete
  <3>3. PICK op : Has(comm, op) /\ Brings(job, op, f) BY <3>1, <3>2 DEF BringsAll
  <3>4. Did(op) BY <1>5, <3>3
  <3> QED BY <1>7, <3>3, <3>4 DEF Did, Brings
 <2> QED BY <1>7, <2>1
<1>8. CASE job.action \in {"list", "test"}
 <2>1. done \subseteq Members BY <1>1, <1>8 DEF Doing, Looked
 <2>2. (job.action = "list" /\ comm = <<>>) \/ LooksAtAll(comm) BY <1>6, <1>8 DEF Complete
 <2>3. Members \subseteq done
  <3>1. CASE job.action = "list" /\ comm = <<>> BY <1>1, <3>1 DEF Doing, Looked
  <3>2. CASE LooksAtAll(comm)
   <4>1. PICK op : Has(comm, op) /\ op.does \in {"list", "test"} /\ op.files = Members
    BY <3>2 DEF LooksAtAll, DoneWholly
   <4> QED BY <1>5, <4>1 DEF Did
  <3> QED BY <2>2, <3>1, <3>2
 <2>4. done = Members BY <2>1, <2>3
 <2> QED BY <1>8, <2>4
<1>9. CASE job.action \in {"add", "delete"}
 <2>1. Covers(comm, job.files, job.action) BY <1>6, <1>9 DEF Complete
 <2>2. ASSUME NEW f \in job.files PROVE f \in done
  <3>1. PICK op : Has(comm, op) /\ op.does = job.action /\ f \in op.files BY <2>1 DEF Covers
  <3> QED BY <1>5, <1>9, <3>1 DEF Did
 <2> QED BY <1>9, <2>2
<1> QED BY <1>1, <1>6, <1>7, <1>8, <1>9, JobIs

\* Nothing is replaced at the destination of an extraction but what was asked for and may be
\* replaced by the options of the dialog, by any back end, also when the extraction fails or
\* is stopped; fr_archive_extract_to_local sees to it, but where the property names.
THEOREM ReplacesOnlyWhatWasAsked == BackEndSpec => []ReplacesOnlyWhatWasAskedUnless
<1> QED BY BackEndsAreSound, InvReplacesOnly, PTL

\* When fr_command_done tells the owner of any operation that there was no error, what was
\* asked is done for all files, with any back end, but for the cases the property names.
THEOREM SuccessMeansDoneForAll == BackEndSpec => []SuccessMeansDoneUnless
<1> QED BY BackEndsAreSound, InvSuccess, PTL
====

---- MODULE FrWindowProofs ----
(* What holds of every window, for any archives, files and selections. *)
EXTENDS FrWindow, SequenceTheorems, WellFoundedInduction, TLAPS

----
(* The type of the record, and what changes of it. *)

Names == {None} \cup Archives
ActTypes == {"NONE", "LOAD", "OPEN", "CLOSE", "QUIT", "SAVE_AS", "TEST"} \cup Working
Acts == [type : ActTypes, archive : Names, files : Seq(Files),
         overwrite : {"NO", "YES", "ASK"}, dir : {"unknown", "there", "made", "refused"},
         allowed : SUBSET Files]

Ops == [action : Actions, files : Seq(Files), replaced : SUBSET Files,
        unasked : BOOLEAN, stopped : BOOLEAN]

Dialogs == {"extract", "batch_add", "overwrite", "password", "install", "new", "error"}
Askers == {"nothing", "EXTRACT", "EXTRACT_HERE"} \cup Actions

Fields == {"alive", "shown", "non_interactive", "use_progress_dialog", "batch_mode", "list",
           "batch_action", "todo", "current", "use_default_dir", "uri", "present", "new",
           "password", "op", "converting", "converted", "dialogs", "clicked",
           "showing_error_dialog", "destroy_with_error_dialog", "installing", "ask", "hung",
           "saved", "replies", "effects", "touched", "orphaned", "overlap", "meant", "asker",
           "meanwhile", "abandoned", "whole", "left"}

TypeOK(s) ==
    /\ DOMAIN s = Fields
    /\ s.alive \in BOOLEAN /\ s.shown \in BOOLEAN /\ s.non_interactive \in BOOLEAN
    /\ s.use_progress_dialog \in BOOLEAN /\ s.batch_mode \in BOOLEAN
    /\ s.list \in Seq(Acts) /\ s.batch_action \in Nat
    /\ s.todo \in {"nothing", "list", "current"} /\ s.current \in Acts
    /\ s.use_default_dir \in BOOLEAN /\ s.uri \in Names /\ s.present \in BOOLEAN
    /\ s.new \in BOOLEAN /\ s.password \in BOOLEAN
    /\ s.op \in {None} \cup Ops /\ s.converting \in BOOLEAN
    /\ s.converted \in {None, "GETTING_FILE_LIST", "ADDING"}
    /\ s.dialogs \in SUBSET Dialogs /\ s.clicked \in BOOLEAN
    /\ s.showing_error_dialog \in BOOLEAN /\ s.destroy_with_error_dialog \in BOOLEAN
    /\ s.installing \in BOOLEAN /\ s.ask \in Nat /\ s.hung \in BOOLEAN
    /\ s.saved \in SUBSET Names /\ s.replies \in Seq({"error", "done"})
    /\ s.effects \in SUBSET (Nat \X Names) /\ s.touched \in BOOLEAN
    /\ s.orphaned \in {"no", "replaced", "stopped"} /\ s.overlap \in BOOLEAN
    /\ s.meant \in Names /\ s.asker \in Askers /\ s.meanwhile \in BOOLEAN
    /\ s.abandoned \in BOOLEAN /\ s.whole \in BOOLEAN /\ s.left \in BOOLEAN

\* t is s but for the fields that may have changed.
Same(t, s, changed) == \A field \in Fields \ changed : t[field] = s[field]

LEMMA ActTyped ==
    ASSUME NEW type \in ActTypes, NEW archive \in Names
    PROVE  Act(type, archive) \in Acts
BY EmptySeq DEF Act, Acts

LEMMA NoActTyped == NoAct \in Acts
BY ActTyped DEF NoAct, ActTypes, Names

LEMMA OpTyped ==
    ASSUME NEW action \in Actions
    PROVE  Op(action) \in Ops
BY EmptySeq DEF Op, Ops

LEMMA OpsAreSome == \A op \in Ops : op # None
BY WindowAssumption DEF Ops

LEMMA DestroyTyped ==
    ASSUME NEW s, TypeOK(s)
    PROVE  /\ TypeOK(Destroy(s))
           /\ Same(Destroy(s), s, {"alive", "dialogs", "todo", "op", "converted", "current", "asker"})
           /\ ~Destroy(s).alive /\ Destroy(s).converted = None /\ Destroy(s).op = None
<1>1. TypeOK(Destroy(s)) BY NoActTyped DEF Destroy, TypeOK, Fields, Askers
<1>2. Same(Destroy(s), s, {"alive", "dialogs", "todo", "op", "converted", "current", "asker"})
 BY DEF Destroy, TypeOK, Same, Fields
<1>3. ~Destroy(s).alive /\ Destroy(s).converted = None /\ Destroy(s).op = None
 BY DEF Destroy, TypeOK, Fields
<1> QED BY <1>1, <1>2, <1>3

LEMMA UseTyped ==
    ASSUME NEW s, TypeOK(s)
    PROVE  /\ TypeOK(Use(s)) /\ Same(Use(s), s, {"touched"})
           /\ Use(s).touched = (s.touched \/ ~s.alive)
<1>1. TypeOK(Use(s)) BY DEF Use, TypeOK, Fields
<1>2. Same(Use(s), s, {"touched"}) BY DEF Use, TypeOK, Same, Fields
<1>3. Use(s).touched = (s.touched \/ ~s.alive) BY DEF Use, TypeOK, Fields
<1> QED BY <1>1, <1>2, <1>3

LEMMA AbandonTyped ==
    ASSUME NEW s, TypeOK(s)
    PROVE  /\ TypeOK(Abandon(s)) /\ Same(Abandon(s), s, {"abandoned"})
           /\ ~s.shown => Abandon(s).abandoned
<1> DEFINE abandoned == s.abandoned \/ ~s.shown
           t == [s EXCEPT !.abandoned = abandoned]
<1>1. Abandon(s) = t BY DEF Abandon
<1>2. abandoned \in BOOLEAN /\ (~s.shown => abandoned) OBVIOUS
<1> HIDE DEF abandoned
<1>3. TypeOK(t) BY <1>2 DEF TypeOK, Fields
<1>4. Same(t, s, {"abandoned"}) /\ t.abandoned = abandoned BY DEF TypeOK, Same, Fields
<1> QED BY <1>1, <1>2, <1>3, <1>4

LEMMA ShowTyped ==
    ASSUME NEW s, TypeOK(s), NEW dialog \in Dialogs
    PROVE  /\ TypeOK(Show(s, dialog)) /\ Same(Show(s, dialog), s, {"dialogs"})
           /\ Show(s, dialog).dialogs = s.dialogs \cup {dialog}
<1>1. s.dialogs \cup {dialog} \in SUBSET Dialogs BY DEF TypeOK
<1>2. TypeOK(Show(s, dialog)) BY <1>1 DEF Show, TypeOK, Fields
<1>3. Same(Show(s, dialog), s, {"dialogs"}) BY DEF Show, TypeOK, Same, Fields
<1>4. Show(s, dialog).dialogs = s.dialogs \cup {dialog} BY DEF Show, TypeOK, Fields
<1> QED BY <1>2, <1>3, <1>4

LEMMA CloseTyped ==
    ASSUME NEW s, TypeOK(s)
    PROVE  /\ TypeOK(Close(s)) /\ Same(Close(s), s, {"present", "new", "password"})
           /\ ~Close(s).present
<1>1. CASE s.present
 <2>1. TypeOK(Close(s)) BY <1>1 DEF Close, TypeOK, Fields
 <2>2. Same(Close(s), s, {"present", "new", "password"}) BY <1>1 DEF Close, TypeOK, Same, Fields
 <2>3. ~Close(s).present BY <1>1 DEF Close, TypeOK, Fields
 <2> QED BY <2>1, <2>2, <2>3
<1>2. CASE ~s.present
 <2>1. Close(s) = s BY <1>2 DEF Close
 <2> QED BY <1>2, <2>1 DEF Same
<1> QED BY <1>1, <1>2

LEMMA ExecNextTyped ==
    ASSUME NEW s, TypeOK(s)
    PROVE  LET t == ExecNext(s)
               next == IF s.batch_action < Len(s.list) THEN s.batch_action + 1 ELSE 0
           IN  /\ TypeOK(t) /\ Same(t, s, {"batch_action", "batch_mode", "todo"})
               /\ t.batch_action = next /\ t.batch_mode = (s.batch_mode /\ next # 0)
               /\ t.todo = IF next # 0 THEN "list" ELSE "nothing"
<1> DEFINE next == IF s.batch_action < Len(s.list) THEN s.batch_action + 1 ELSE 0
           t == [s EXCEPT !.batch_action = next, !.batch_mode = @ /\ next # 0,
                          !.todo = IF next # 0 THEN "list" ELSE "nothing"]
<1>1. ExecNext(s) = t BY DEF ExecNext
<1>2. next \in Nat BY DEF TypeOK
<1> HIDE DEF next
<1>3. TypeOK(t) BY <1>2 DEF TypeOK, Fields
<1>4. Same(t, s, {"batch_action", "batch_mode", "todo"}) BY DEF TypeOK, Same, Fields
<1>5. /\ t.batch_action = next /\ t.todo = IF next # 0 THEN "list" ELSE "nothing"
 BY DEF TypeOK, Fields
<1>6. t.batch_mode = (s.batch_mode /\ next # 0) BY DEF TypeOK, Fields
<1> QED BY <1>1, <1>3, <1>4, <1>5, <1>6 DEF next

LEMMA StartTyped ==
    ASSUME NEW s, TypeOK(s), NEW op \in Ops
    PROVE  /\ TypeOK(Start(s, op)) /\ Same(Start(s, op), s, {"overlap", "op"})
           /\ Start(s, op).op = op /\ Start(s, op).overlap = (s.overlap \/ s.op # None)
<1>1. TypeOK(Start(s, op)) BY DEF Start, TypeOK, Fields
<1>2. Same(Start(s, op), s, {"overlap", "op"}) BY DEF Start, TypeOK, Same, Fields
<1>3. Start(s, op).op = op BY DEF Start, TypeOK, Fields
<1>4. Start(s, op).overlap = (s.overlap \/ s.op # None) BY DEF Start, TypeOK, Fields
<1> QED BY <1>1, <1>2, <1>3, <1>4

LEMMA AskPasswordTyped ==
    ASSUME NEW s, TypeOK(s), NEW asker \in Askers
    PROVE  LET t == AskPassword(s, asker)
           IN  /\ TypeOK(t) /\ Same(t, s, {"dialogs", "asker", "left"})
               /\ t.dialogs = s.dialogs \cup {"password"} /\ t.asker = asker
               /\ t.left = (s.left \/ s.converting)
<1> DEFINE u == Show(s, "password")
           t == [u EXCEPT !.asker = asker, !.left = @ \/ s.converting]
<1>1. AskPassword(s, asker) = t BY DEF AskPassword
<1>2. TypeOK(u) /\ Same(u, s, {"dialogs"}) /\ u.dialogs = s.dialogs \cup {"password"}
 BY ShowTyped DEF Dialogs
<1> HIDE DEF u
<1>3. TypeOK(t) BY <1>2 DEF TypeOK, Fields
<1>4. Same(t, u, {"asker", "left"}) BY <1>2 DEF TypeOK, Same, Fields
<1>5. t.dialogs = s.dialogs \cup {"password"} /\ t.asker = asker BY <1>2 DEF TypeOK, Same, Fields
<1>6. u.left = s.left BY <1>2 DEF Same, Fields
<1>7. t.left = (s.left \/ s.converting) BY <1>2, <1>6 DEF TypeOK, Fields
<1>8. Same(t, s, {"dialogs", "asker", "left"}) BY <1>2, <1>4 DEF Same, Fields
<1> QED BY <1>1, <1>3, <1>5, <1>7, <1>8

----
(* The inductive invariant: what holds of every window. *)

\* The program goes on: this window is not at the end of one of its faults.
Goes(s) == s.alive /\ ~s.hung /\ ~s.overlap /\ s.orphaned = "no"

\* What may be replaced was agreed to: by the choice made for all files, or for each of
\* those that the overwrite dialog has come past.
Agreed(act) ==
    act.overwrite = "YES" /\ act.files # <<>> /\ act.dir # "made" =>
      \A f \in ToSet(act.files) : There[f] = "file" => f \in act.allowed
AgreedBefore(act, i) ==
    \A j \in 1 .. i - 1 : There[act.files[j]] = "file" => act.files[j] \in act.allowed
Asking(s) ==
    "overwrite" \in s.dialogs =>
      s.ask \in DOMAIN s.current.files /\ AgreedBefore(s.current, s.ask)
Replaces(s) ==
    s.op # None /\ s.op.files # <<>> =>
      s.op.action = "EXTRACTING" /\ s.op.replaced \subseteq s.current.allowed

\* Nothing was told, or used too late.
Untold(s) == s.replies = <<>> /\ ~s.touched

Extraction(s) ==
    /\ Agreed(s.current) /\ Asking(s) /\ Replaces(s)
    /\ s.current.type \in {"NONE", "LOAD", "EXTRACT", "SAVE_AS", "TEST"}
    /\ s.current.type = "LOAD" =>
         s.current.archive \in Archives /\ (s.current.archive = s.uri \/ Kind[s.uri] = "absent")

IsDone(s, i) ==
    s.list[i].type \in Working =>
      \E e \in s.effects : e[1] = i /\ s.list[i].archive \in {None, e[2]}

\* The properties, of a record.
DropsFiles(s) == ~s.non_interactive /\ s.list # <<>>
Proper(s) ==
    /\ s.overlap \/ (s.op # None /\ s.op.unasked) => DropsFiles(s) \/ s.meanwhile
    /\ s.op # None /\ s.op.files # <<>> => s.op.replaced \subseteq s.current.allowed
    /\ Len(s.replies) <= 1
    /\ s.replies = <<"done">> => \A i \in DOMAIN s.list : IsDone(s, i)
    /\ s.converted # None => s.whole \/ s.left
    /\ s.alive /\ ~s.shown /\ s.todo = "nothing" =>
         Busy(s) \/ s.dialogs # {} \/ s.installing \/ s.abandoned \/ s.hung
    /\ s.touched => s.replies = <<"error">>
    /\ s.orphaned = "replaced" => DropsFiles(s) \/ s.meanwhile

----
(* What holds of a window for a batch. *)

Plain(act) == act = Act(act.type, act.archive) /\ (act.type = "LOAD" => act.archive \in Archives)

Follows(act, next) ==
    \/ act.type = "LOAD" /\ next.type \in Working /\ next.archive = act.archive
    \/ act.type = "OPEN" /\ next.type \in Working /\ next.archive = None
    \/ act.type \in Working /\ next.type = "CLOSE"
    \/ act.type = "CLOSE" /\ next.type \in {"LOAD", "QUIT"}

IsBatch(list) ==
    /\ list # <<>> /\ list[1].type \in {"LOAD", "OPEN"}
    /\ \A i \in DOMAIN list : Plain(list[i])
    /\ \A i \in 1 .. Len(list) - 1 : Follows(list[i], list[i + 1])
    /\ list[Len(list)].type = "QUIT"

Doing(s) == s.list[s.batch_action]

\* What was done before, and what it left for the action that the batch has come to.
Position(s) ==
    /\ s.batch_action \in DOMAIN s.list
    /\ \A i \in 1 .. s.batch_action - 1 : IsDone(s, i)
    /\ Doing(s).type \in {"LOAD", "OPEN"} => ~s.present
    /\ Doing(s).type \in Working => Doing(s).archive \in {None, s.uri} /\ s.meant = s.uri

\* Of an action to be run, an operation, a dialog and a search there is one; what it is
\* is known of the action that it is for.
Fits(s, act) ==
    \/ s.op.action \in {"LOADING", "LISTING"} /\ act.type = "LOAD" /\ s.uri = act.archive
       /\ s.meant = s.uri
    \/ s.op.action \in {"GETTING_FILE_LIST", "ADDING"} /\ act.type = "ADD"
    \/ s.op.action = "EXTRACTING" /\ act.type \in Working \ {"ADD"}

Shows(s, act) ==
    \/ s.dialogs \in {{"extract"}, {"overwrite"}} /\ act.type = "EXTRACT_INTERACT"
       /\ s.asker = "nothing" /\ ("overwrite" \in s.dialogs => s.current.type = "EXTRACT")
    \/ s.dialogs = {"batch_add"} /\ act.type = "OPEN" /\ s.asker = "nothing"
    \/ s.dialogs = {"password"} /\ act.type \in AskedBy(s.asker)
    \/ s.dialogs = {"install"} /\ act.type = "LOAD" /\ s.asker = "LOADING"
    \/ s.dialogs = {"error"} /\ s.destroy_with_error_dialog /\ s.asker = "nothing"
    \/ s.dialogs = {} /\ s.abandoned /\ s.asker = "nothing"

Stage(s) ==
    \/ s.todo = "list" /\ s.op = None /\ s.dialogs = {} /\ ~s.installing /\ s.asker = "nothing"
    \/ s.todo = "nothing" /\ s.op # None /\ s.dialogs = {} /\ ~s.installing
       /\ s.asker = "nothing" /\ Fits(s, Doing(s)) /\ ~s.op.unasked
    \/ s.todo = "nothing" /\ s.op = None /\ ~s.installing /\ Shows(s, Doing(s))
    \/ s.todo = "nothing" /\ s.op = None /\ s.dialogs = {} /\ s.installing
       /\ Doing(s).type = "LOAD" /\ s.asker = "LOADING"

\* What never changes while there is a batch.
Batch(s) ==
    /\ s.non_interactive /\ ~s.meanwhile /\ ~s.converting /\ s.converted = None
    /\ IsBatch(s.list) /\ (s.showing_error_dialog => s.dialogs = {"error"})

\* The batch was given up: the window goes with the dialog that tells of it.
Doomed(s) ==
    /\ ~s.batch_mode /\ s.todo = "nothing" /\ s.op = None /\ ~s.installing
    /\ s.dialogs = {"error"} /\ s.destroy_with_error_dialog /\ s.asker = "nothing"

BatchSound(s) ==
    /\ Batch(s)
    /\ \/ s.batch_mode /\ ~s.shown /\ Position(s) /\ Stage(s)
       \/ Doomed(s)

----
(* What holds of a window of the user. *)

NoDialog(s) == s.dialogs \subseteq {"error"}
LoadOnly(s) == s.current.type \in {"LOAD", "NONE"}
Under(s, actions) == s.op # None /\ s.op.action \in actions

Users(s) ==
    /\ ~s.non_interactive /\ s.shown /\ ~s.batch_mode /\ ~s.use_default_dir
    /\ ~s.destroy_with_error_dialog

\* Only what was dropped is ever in its list.
DropList(s) ==
    /\ s.list = <<>> \/ s.list = << Act("ADD", None) >>
    /\ s.todo = "list" => s.batch_action \in DOMAIN s.list
    /\ s.op # None /\ s.op.unasked => s.list # <<>>

OneDialog(s) == \E dialog \in Dialogs \ {"batch_add"} : s.dialogs \subseteq {dialog, "error"}

\* What waits for a password or a package has its dialog.
Waits(s) ==
    s.asker # "nothing" => "password" \in s.dialogs \/ "install" \in s.dialogs \/ s.installing

\* An extraction and a test are alone, and so are the dialogs that lead to them and what
\* is begun again, but for opening an archive.
Alone(s) ==
    /\ Under(s, {"EXTRACTING", "TESTING"}) => s.todo = "nothing" /\ NoDialog(s) /\ ~s.installing
    /\ s.dialogs \cap {"extract", "overwrite", "new"} # {} =>
         s.op = None /\ s.todo = "nothing" /\ ~s.installing
    /\ "password" \in s.dialogs /\ ~LoadOnly(s) => s.op = None /\ s.todo = "nothing"
    /\ s.todo = "current" /\ ~LoadOnly(s) => s.op = None /\ NoDialog(s) /\ ~s.installing
    /\ "install" \in s.dialogs \/ s.installing => LoadOnly(s)

\* Unless the window was used while a package was searched for, one thing is under way.
OneThing(s) ==
    ~s.meanwhile =>
      /\ s.op # None => s.todo = "nothing"
      /\ s.op # None \/ s.todo # "nothing" => NoDialog(s) /\ ~s.installing
      /\ ~NoDialog(s) => ~s.installing

\* A conversion goes on by itself, but for files that were dropped.
Converts(s) ==
    /\ s.converted # None => s.converting
    /\ ~s.meanwhile /\ s.list = <<>> /\ s.converted # None =>
         s.op = None /\ s.todo = "nothing" /\ NoDialog(s) /\ ~s.installing

\* What is under way, or to be begun again, but for opening an archive.
Pursued(s) ==
    \/ s.op # None /\ (s.op.action \notin {"LOADING", "LISTING"} \/ s.current.type # "LOAD")
    \/ s.dialogs \cap {"extract", "overwrite"} # {}
    \/ s.todo = "list"
    \/ (s.todo = "current" \/ "password" \in s.dialogs) /\ ~LoadOnly(s)
OnShown(s) == ~s.meanwhile /\ Pursued(s) => s.present

\* What is under way, or asked about, is what was last asked for, where that is noted.
Noted(s) ==
    /\ Under(s, {"EXTRACTING"}) => s.current.type \in {"EXTRACT", "SAVE_AS"}
    /\ Under(s, {"TESTING"}) => s.current.type = "TEST"
    /\ "overwrite" \in s.dialogs => s.current.type = "EXTRACT"

\* An archive that cannot be opened was only tried, and a dialog is of the archive.
Supported(s) ==
    /\ Under(s, {"LISTING"}) \/ s.present \/ "extract" \in s.dialogs \/ ~LoadOnly(s) =>
         Kind[s.uri] # "unsupported"
    /\ "install" \in s.dialogs => Kind[s.uri] = "unsupported"
    /\ "password" \in s.dialogs => Kind[s.uri] = "encrypted"

\* A conversion has all that the first archive holds, or its extraction is under way.
Whole(s) == s.converting => s.whole \/ s.left
WillBeWhole(s) == Whole(s) \/ (Under(s, {"EXTRACTING"}) /\ s.current.type = "SAVE_AS")

AskerIsNoted(s, asker) ==
    \/ s.current.type \in AskedBy(asker) \/ s.meanwhile
    \/ (asker = "LISTING" /\ s.present) \/ asker \in {"ADDING", "DELETING"}
Asked(s) == s.asker # "nothing" => AskerIsNoted(s, s.asker)

UserBase(s) ==
    /\ Users(s) /\ DropList(s) /\ OneDialog(s) /\ Waits(s) /\ Alone(s) /\ OneThing(s)
    /\ Converts(s) /\ OnShown(s) /\ Noted(s) /\ Supported(s) /\ Asked(s)
    /\ s.converted # None => s.whole \/ s.left

UserSound(s) == UserBase(s) /\ WillBeWhole(s)

Inv(s) ==
    /\ TypeOK(s) /\ Proper(s)
    /\ Goes(s) => Untold(s) /\ Extraction(s) /\ (BatchSound(s) \/ UserSound(s))

WindowInv == Inv(w)

----
(* The handlers, in a window of the user. *)

\* A window of the user, but that the extraction of a conversion may just have ended.
UserOn(s) == TypeOK(s) /\ Goes(s) /\ Untold(s) /\ Extraction(s) /\ UserBase(s)

\* A handler that begins again what waited is the only one to forget who waits.
KeepsAsker(t, s) == t.asker = s.asker \/ t.asker # "nothing" \/ t.todo = "nothing"

\* The one that does begins again what waited for it.
Resumes(t, s) ==
    s.asker # "nothing" /\ t.asker = "nothing" /\ t.todo # "nothing" =>
      \/ (IF t.todo = "list" THEN s.list[t.batch_action] ELSE t.current).type \in AskedBy(s.asker)
      \/ ~s.batch_mode /\ (s.meanwhile \/ (s.asker = "LISTING" /\ s.present)
                             \/ s.asker \in {"ADDING", "DELETING"})

LEMMA KeepsResumes ==
    ASSUME NEW s, NEW t, KeepsAsker(t, s)
    PROVE  Resumes(t, s)
BY DEF KeepsAsker, Resumes

\* What a handler arrives at.
Reaches(t, s) == Inv(t) /\ KeepsAsker(t, s)

LEMMA UserIsInv ==
    ASSUME NEW s, UserOn(s), WillBeWhole(s)
    PROVE  Inv(s)
<1> USE DEF UserOn, UserBase
<1> QED
 BY EmptySeq DEF Goes, Untold, Extraction, Replaces, Users, DropList, Proper, DropsFiles, Inv,
    UserSound

LEMMA ShowErrorUser ==
    ASSUME NEW s, UserOn(s)
    PROVE  LET t == ShowError(s)
           IN  /\ UserOn(t) /\ Same(t, s, {"dialogs", "showing_error_dialog"})
               /\ t.dialogs = s.dialogs \cup {"error"}
<1> USE DEF UserOn, UserBase
<1> DEFINE u == Show(s, "error")
           t == [u EXCEPT !.showing_error_dialog = TRUE, !.destroy_with_error_dialog = @ \/ s.batch_mode]
<1>1. ShowError(s) = t BY DEF ShowError, Users
<1>2. TypeOK(u) /\ Same(u, s, {"dialogs"}) /\ u.dialogs = s.dialogs \cup {"error"}
 BY ShowTyped DEF Dialogs
<1> HIDE DEF u
<1>3. TypeOK(t) BY <1>2 DEF TypeOK, Fields
<1>4. Same(t, u, {"showing_error_dialog", "destroy_with_error_dialog"}) /\ t.dialogs = u.dialogs
 BY <1>2 DEF TypeOK, Same, Fields
<1>5. ~u.destroy_with_error_dialog /\ ~s.batch_mode BY <1>2 DEF Users, Same, Fields
<1>6. ~t.destroy_with_error_dialog BY <1>2, <1>5 DEF TypeOK, Fields
<1>7. t.destroy_with_error_dialog = s.destroy_with_error_dialog BY <1>3, <1>6 DEF Users, TypeOK
<1> HIDE DEF t
<1>8. Same(t, s, {"dialogs", "showing_error_dialog"}) /\ t.dialogs = s.dialogs \cup {"error"}
 BY <1>2, <1>4, <1>7 DEF Same, Fields
<1> USE <1>3, <1>8 DEF Same, Fields
<1>9. Goes(t) /\ Untold(t) /\ Users(t) /\ DropList(t) /\ Waits(t)
 BY DEF Goes, Untold, Users, DropList, Waits
<1>10. Extraction(t) BY DEF Extraction, Asking, Replaces
<1>11. OneDialog(t) BY DEF OneDialog
<1>12. NoDialog(s) <=> NoDialog(t) BY DEF NoDialog
<1>13. Alone(t) BY <1>12 DEF Alone, Under, LoadOnly
<1>14. OneThing(t) /\ Converts(t) BY <1>12 DEF OneThing, Converts
<1>15. OnShown(t) BY DEF OnShown, Pursued, LoadOnly
<1>16. Noted(t) /\ Supported(t) /\ Asked(t)
 BY DEF Noted, Supported, Asked, AskerIsNoted, Under, LoadOnly
<1> QED BY <1>1, <1>9, <1>10, <1>11, <1>13, <1>14, <1>15, <1>16

LEMMA ExecNextUser ==
    ASSUME NEW s, UserOn(s), s.todo = "nothing", ~Under(s, {"EXTRACTING", "TESTING"}),
           s.dialogs \cap {"extract", "overwrite", "new"} = {},
           "password" \in s.dialogs => LoadOnly(s),
           ~s.meanwhile => s.op = None /\ NoDialog(s) /\ ~s.installing /\ s.present
    PROVE  LET t == ExecNext(s)
           IN  UserOn(t) /\ Same(t, s, {"batch_action", "todo", "batch_mode"})
<1> USE DEF UserOn, UserBase
<1> DEFINE t == ExecNext(s)
           next == IF s.batch_action < Len(s.list) THEN s.batch_action + 1 ELSE 0
<1>1. /\ TypeOK(t) /\ Same(t, s, {"batch_action", "batch_mode", "todo"})
      /\ t.batch_action = next /\ t.batch_mode = (s.batch_mode /\ next # 0)
      /\ t.todo = IF next # 0 THEN "list" ELSE "nothing"
 BY ExecNextTyped
<1>2. t.todo \in {"list", "nothing"} /\ ~t.batch_mode BY <1>1 DEF Users
<1>3. t.todo = "list" => t.batch_action \in DOMAIN s.list /\ s.list # <<>> BY <1>1 DEF TypeOK
<1> HIDE DEF t, next
<1> USE <1>1 DEF Same, Fields
<1>4. Goes(t) /\ Untold(t) /\ Users(t) /\ DropList(t) /\ Waits(t) /\ OneDialog(t)
 BY <1>2, <1>3 DEF Goes, Untold, Users, DropList, Waits, OneDialog
<1>5. Extraction(t) BY DEF Extraction, Asking, Replaces
<1>6. Alone(t) BY <1>2 DEF Alone, Under, LoadOnly, NoDialog
<1>7. OneThing(t) BY <1>2 DEF OneThing, NoDialog
<1>8. Converts(t) BY <1>2, <1>3 DEF Converts, NoDialog
<1>9. OnShown(t) BY <1>2 DEF OnShown, Pursued, LoadOnly
<1>10. Noted(t) /\ Supported(t) /\ Asked(t)
 BY DEF Noted, Supported, Asked, AskerIsNoted, Under, LoadOnly
<1> QED BY <1>1, <1>4, <1>5, <1>6, <1>7, <1>8, <1>9, <1>10 DEF t

LEMMA ShowUser ==
    ASSUME NEW s, UserOn(s), NEW dialog \in {"extract", "new", "install"},
           s.todo = "nothing", s.op = None, s.dialogs \subseteq {dialog, "error"},
           dialog # "install" =>
             ~s.installing /\ (dialog = "extract" => s.present),
           dialog = "install" =>
             LoadOnly(s) /\ (~s.meanwhile => ~s.installing) /\ Kind[s.uri] = "unsupported",
           ~s.meanwhile /\ s.list = <<>> => s.converted = None
    PROVE  LET t == Show(s, dialog) IN UserOn(t) /\ Same(t, s, {"dialogs"})
<1> USE DEF UserOn, UserBase
<1> DEFINE t == Show(s, dialog)
<1>1. TypeOK(t) /\ Same(t, s, {"dialogs"}) /\ t.dialogs = s.dialogs \cup {dialog}
 BY ShowTyped DEF Dialogs
<1> HIDE DEF t
<1> USE <1>1 DEF Same, Fields
<1>2. t.dialogs \subseteq {dialog, "error"} OBVIOUS
<1>3. Goes(t) /\ Untold(t) /\ Users(t) /\ DropList(t) BY DEF Goes, Untold, Users, DropList
<1>4. Waits(t) /\ OneDialog(t) BY <1>2 DEF Waits, OneDialog, Dialogs
<1>5. Extraction(t) BY <1>2 DEF Extraction, Asking, Replaces
<1>6. Alone(t) BY <1>2 DEF Alone, Under, LoadOnly
<1>7. OneThing(t) BY DEF OneThing
<1>8. Converts(t) BY DEF Converts
<1>9. OnShown(t) BY <1>2 DEF OnShown, Pursued, LoadOnly
<1>10. Noted(t) /\ Supported(t) /\ Asked(t)
 BY DEF Noted, Supported, Asked, AskerIsNoted, Under, LoadOnly
<1> QED BY <1>3, <1>4, <1>5, <1>6, <1>7, <1>8, <1>9, <1>10 DEF t

LEMMA AskPasswordUser ==
    ASSUME NEW s, UserOn(s), NEW asker \in Askers, asker # "nothing",
           s.todo = "nothing", s.op = None, s.dialogs \subseteq {"password", "error"},
           Kind[s.uri] = "encrypted",
           ~s.meanwhile => ~s.installing /\ (LoadOnly(s) \/ s.present),
           ~s.meanwhile /\ s.list = <<>> => s.converted = None,
           AskerIsNoted(s, asker)
    PROVE  Reaches(AskPassword(s, asker), s)
<1> USE DEF UserOn, UserBase
<1> DEFINE t == AskPassword(s, asker)
<1>1. /\ TypeOK(t) /\ Same(t, s, {"dialogs", "asker", "left"})
      /\ t.dialogs = s.dialogs \cup {"password"} /\ t.asker = asker
      /\ t.left = (s.left \/ s.converting)
 BY AskPasswordTyped
<1> HIDE DEF t
<1> USE <1>1 DEF Same, Fields
<1>2. t.dialogs \subseteq {"password", "error"} OBVIOUS
<1>3. Goes(t) /\ Untold(t) /\ Users(t) /\ DropList(t) BY DEF Goes, Untold, Users, DropList
<1>4. Waits(t) /\ OneDialog(t) BY <1>2 DEF Waits, OneDialog, Dialogs
<1>5. Extraction(t) BY <1>2 DEF Extraction, Asking, Replaces
<1>6. Alone(t) BY <1>2 DEF Alone, Under, LoadOnly
<1>7. OneThing(t) BY DEF OneThing
<1>8. Converts(t) /\ Whole(t) /\ (t.converted # None => t.whole \/ t.left)
 <2> QED BY DEF Converts, Whole
<1>9. OnShown(t) BY <1>2 DEF OnShown, Pursued, LoadOnly
<1>10. Noted(t) /\ Supported(t) /\ Asked(t)
 BY DEF Noted, Supported, Asked, AskerIsNoted, Under, LoadOnly
<1> QED
 BY <1>3, <1>4, <1>5, <1>6, <1>7, <1>8, <1>9, <1>10, UserIsInv DEF WillBeWhole, Reaches, KeepsAsker,
    t

\* The archive is closed when nothing is done with it any more.
LEMMA CloseUser ==
    ASSUME NEW s, UserOn(s), ~s.meanwhile => ~Pursued(s) /\ s.asker = "nothing"
    PROVE  LET t == Close(s) IN UserOn(t) /\ Same(t, s, {"present", "new", "password"}) /\ ~t.present
<1> USE DEF UserOn, UserBase
<1> DEFINE t == Close(s)
<1>1. TypeOK(t) /\ Same(t, s, {"present", "new", "password"}) /\ ~t.present BY CloseTyped
<1> HIDE DEF t
<1> USE <1>1 DEF Same, Fields
<1>2. Goes(t) /\ Untold(t) /\ Users(t) /\ DropList(t) /\ Waits(t) /\ OneDialog(t)
 BY DEF Goes, Untold, Users, DropList, Waits, OneDialog
<1>3. Extraction(t) BY DEF Extraction, Asking, Replaces
<1>4. Alone(t) /\ OneThing(t) /\ Converts(t)
 BY DEF Alone, OneThing, Converts, Under, LoadOnly, NoDialog
<1>5. OnShown(t) BY DEF OnShown, Pursued, LoadOnly
<1>6. Noted(t) /\ Supported(t) /\ Asked(t)
 BY DEF Noted, Supported, Asked, AskerIsNoted, Under, LoadOnly
<1> QED BY <1>1, <1>2, <1>3, <1>4, <1>5, <1>6 DEF t

\* Operations are begun when nothing else is under way, or one too many.
LEMMA StartUser ==
    ASSUME NEW s, UserOn(s), NEW op \in Ops, s.todo = "nothing",
           s.dialogs \cap {"extract", "overwrite", "new"} = {},
           "password" \in s.dialogs => LoadOnly(s),
           op.action \in {"EXTRACTING", "TESTING"} => NoDialog(s) /\ ~s.installing,
           ~s.meanwhile => s.op = None /\ NoDialog(s) /\ ~s.installing,
           ~s.meanwhile /\ s.list = <<>> => s.converted = None,
           \/ op.action \in {"LOADING", "LISTING"} /\ s.current.type = "LOAD"
           \/ s.present \/ s.meanwhile,
           op.unasked => s.list # <<>>,
           op.files # <<>> => op.action = "EXTRACTING" /\ op.replaced \subseteq s.current.allowed,
           op.action = "EXTRACTING" => s.current.type \in {"EXTRACT", "SAVE_AS"},
           op.action = "TESTING" => s.current.type = "TEST",
           op.action = "LISTING" => Kind[s.uri] # "unsupported",
           Whole(s) \/ (op.action = "EXTRACTING" /\ s.current.type = "SAVE_AS")
    PROVE  Reaches(Start(s, op), s)
<1> USE DEF UserOn, UserBase
<1> DEFINE t == Start(s, op)
<1>1. /\ TypeOK(t) /\ Same(t, s, {"overlap", "op"})
      /\ t.op = op /\ t.overlap = (s.overlap \/ s.op # None)
 BY StartTyped
<1>2. ~s.overlap BY DEF Goes
<1>3. t.overlap => s.meanwhile BY <1>1, <1>2
<1>4. KeepsAsker(t, s) BY <1>1 DEF KeepsAsker, Same, Fields
<1>5. op # None BY OpsAreSome
<1> HIDE DEF t
<1> USE <1>1 DEF Same, Fields
<1>6. Proper(t) BY <1>3, EmptySeq DEF Goes, Untold, Users, Proper, DropsFiles
<1>7. ASSUME ~t.overlap PROVE UserOn(t) /\ WillBeWhole(t)
 <2>1. Goes(t) /\ Untold(t) /\ Users(t) /\ DropList(t) /\ Waits(t) /\ OneDialog(t)
  BY <1>7 DEF Goes, Untold, Users, DropList, Waits, OneDialog
 <2>2. Extraction(t) BY DEF Extraction, Asking, Replaces
 <2>3. Alone(t) BY DEF Alone, Under, LoadOnly, NoDialog
 <2>4. OneThing(t) /\ Converts(t) BY DEF OneThing, Converts, NoDialog
 <2>5. OnShown(t) BY DEF OnShown, Pursued, LoadOnly
 <2>6. Noted(t) /\ Supported(t) /\ Asked(t)
  BY DEF Noted, Supported, Asked, AskerIsNoted, Under, LoadOnly
 <2>7. WillBeWhole(t) BY <1>5 DEF WillBeWhole, Whole, Under
 <2> QED BY <2>1, <2>2, <2>3, <2>4, <2>5, <2>6, <2>7
<1>8. Inv(t)
 <2>1. CASE t.overlap BY <2>1, <1>6 DEF Inv, Goes
 <2>2. CASE ~t.overlap BY <2>2, <1>7, UserIsInv
 <2> QED BY <2>1, <2>2
<1> QED BY <1>4, <1>8 DEF Reaches, t

\* What the invariant says nothing of, in a window of the user.
Aside == {"new", "password", "clicked", "saved", "meant", "effects", "abandoned",
          "showing_error_dialog", "use_progress_dialog"}

LEMMA AsideUser ==
    ASSUME NEW s, UserOn(s), NEW t, TypeOK(t), Same(t, s, Aside)
    PROVE  UserOn(t) /\ (Whole(s) => Whole(t)) /\ (WillBeWhole(s) => WillBeWhole(t))
<1> USE DEF UserOn, UserBase, Same, Fields, Aside
<1>1. Goes(t) /\ Untold(t) /\ Users(t) /\ DropList(t) /\ Waits(t) /\ OneDialog(t)
 BY DEF Goes, Untold, Users, DropList, Waits, OneDialog
<1>2. Extraction(t) BY DEF Extraction, Asking, Replaces
<1>3. Alone(t) /\ OneThing(t) /\ Converts(t)
 BY DEF Alone, OneThing, Converts, Under, LoadOnly, NoDialog
<1>4. OnShown(t) BY DEF OnShown, Pursued, LoadOnly
<1>5. Noted(t) /\ Supported(t) /\ Asked(t)
 BY DEF Noted, Supported, Asked, AskerIsNoted, Under, LoadOnly
<1>6. (Whole(s) => Whole(t)) /\ (WillBeWhole(s) => WillBeWhole(t)) BY DEF Whole, WillBeWhole, Under
<1> QED BY <1>1, <1>2, <1>3, <1>4, <1>5, <1>6

LEMMA UseUser ==
    ASSUME NEW s, UserOn(s)
    PROVE  UserOn(Use(s)) /\ Same(Use(s), s, {})
<1>1. TypeOK(Use(s)) /\ Same(Use(s), s, {"touched"}) /\ Use(s).touched = (s.touched \/ ~s.alive)
 BY UseTyped DEF UserOn
<1>2. ~s.touched /\ s.alive BY DEF UserOn, Untold, Goes
<1>3. ~Use(s).touched BY <1>1, <1>2
<1>4. Use(s).touched = s.touched BY <1>1, <1>2, <1>3 DEF TypeOK, UserOn
<1>5. Same(Use(s), s, {}) BY <1>1, <1>4 DEF Same, Fields
<1>6. Same(Use(s), s, Aside) BY <1>5 DEF Same
<1> QED BY <1>1, <1>5, <1>6, AsideUser

\* One operation too many: nothing is followed after it.
LEMMA OverlapUser ==
    ASSUME NEW s, TypeOK(s), NEW op \in Ops, s.op # None, s.meanwhile, ~s.non_interactive,
           s.shown, Untold(s), s.orphaned # "replaced" \/ s.meanwhile,
           s.converted # None => s.whole \/ s.left,
           op.files # <<>> => op.replaced \subseteq s.current.allowed
    PROVE  Inv(Start(s, op)) /\ Start(s, op).asker = s.asker
<1> DEFINE t == Start(s, op)
<1>1. /\ TypeOK(t) /\ Same(t, s, {"overlap", "op"})
      /\ t.op = op /\ t.overlap = (s.overlap \/ s.op # None)
 BY StartTyped
<1>2. t.overlap BY <1>1
<1> HIDE DEF t
<1> USE <1>1 DEF Same, Fields
<1>3. Proper(t) BY EmptySeq DEF Untold, Proper, DropsFiles
<1> QED BY <1>2, <1>3 DEF Inv, Goes, t

LEMMA ReloadUser ==
    ASSUME NEW s, UserOn(s), WillBeWhole(s), s.todo = "nothing",
           s.dialogs \cap {"extract", "overwrite", "new"} = {},
           "password" \in s.dialogs => LoadOnly(s),
           s.present \/ s.meanwhile,
           s.op = None => (NoDialog(s) /\ ~s.installing) \/ s.meanwhile
    PROVE  Reaches(Reload(s), s)
<1>1. CASE Busy(s) \/ s.new
 <2> QED BY <1>1, UserIsInv DEF Reload, Reaches, KeepsAsker
<1>2. CASE ~(Busy(s) \/ s.new)
 <2>1. Reload(s) = Start(s, Op("LOADING")) BY <1>2 DEF Reload, StartLoad
 <2>2. s.op = None /\ s.converted = None BY <1>2 DEF Busy
 <2>3. Whole(s) BY <2>2 DEF WillBeWhole, Under
 <2>4. Op("LOADING") \in Ops BY OpTyped DEF Actions
 <2>5. /\ Op("LOADING").action = "LOADING" /\ Op("LOADING").files = <<>>
       /\ Op("LOADING").unasked = FALSE
  BY DEF Op
 <2> QED BY <2>1, <2>2, <2>3, <2>4, <2>5, StartUser
<1> QED BY <1>1, <1>2

LEMMA ArchiveOpenUser ==
    ASSUME NEW s, UserOn(s), WillBeWhole(s), NEW archive \in Archives, s.todo = "nothing",
           s.dialogs \cap {"extract", "overwrite", "new"} = {},
           ~Under(s, {"EXTRACTING", "TESTING"}),
           ~s.meanwhile => s.op = None /\ NoDialog(s) /\ ~s.installing,
           ~s.meanwhile /\ s.list = <<>> => s.converted = None,
           archive = s.uri \/ NoDialog(s)
    PROVE  Reaches(ArchiveOpen(s, archive), s)
<1>1. CASE s.present
 <2> QED BY <1>1, UserIsInv DEF ArchiveOpen, Reaches, KeepsAsker
<1>2. CASE ~s.present
 <2> DEFINE act == Act("LOAD", archive)
            u == [s EXCEPT !.uri = archive, !.current = act]
            op == Op("LOADING")
 <2>1. ArchiveOpen(s, archive) = Start(u, op) BY <1>2 DEF ArchiveOpen, StartLoad
 <2>2. act \in Acts BY ActTyped DEF ActTypes, Names
 <2>3. act.type = "LOAD" /\ act.files = <<>> /\ act.archive = archive BY DEF Act
 <2>4. op \in Ops BY OpTyped DEF Actions
 <2>5. op.action = "LOADING" /\ op.files = <<>> /\ op.unasked = FALSE BY DEF Op
 <2> HIDE DEF act, op
 <2>6. TypeOK(u) BY <2>2 DEF UserOn, TypeOK, Fields, Names
 <2>7. Same(u, s, {"uri", "current"}) /\ u.current = act /\ u.uri = archive
  BY DEF UserOn, TypeOK, Same, Fields
 <2>8. Whole(s) BY DEF WillBeWhole, Under
 <2> HIDE DEF u
 <2> USE <2>6, <2>7 DEF UserOn, UserBase, Same, Fields
 <2>9. CASE s.op # None
  <3>1. /\ u.op # None /\ u.meanwhile /\ ~u.non_interactive /\ u.shown /\ Untold(u)
        /\ u.converted # None => u.whole \/ u.left
   BY <2>9 DEF Users, Untold
  <3>2. Inv(Start(u, op)) /\ Start(u, op).asker = u.asker BY <2>4, <2>5, <3>1, OverlapUser
  <3> QED BY <2>1, <3>2 DEF Reaches, KeepsAsker
 <2>10. CASE s.op = None
  <3>1. Goes(u) /\ Untold(u) /\ Users(u) /\ DropList(u) /\ Waits(u) /\ OneDialog(u)
   BY <2>10 DEF Goes, Untold, Users, DropList, Waits, OneDialog
  <3>2. Extraction(u) BY <2>3, <2>10 DEF Extraction, Agreed, Asking, Replaces
  <3>3. Alone(u) /\ OneThing(u) /\ Converts(u)
   BY <2>3, <2>10 DEF Alone, OneThing, Converts, Under, LoadOnly, NoDialog
  <3>4. OnShown(u) BY <2>3, <2>10 DEF OnShown, Pursued, LoadOnly
  <3>5. Noted(u) /\ Supported(u)
   BY <1>2, <2>3, <2>10 DEF Noted, Supported, Under, LoadOnly, NoDialog
  <3>6. Asked(u) BY <2>10 DEF Asked, AskerIsNoted, Waits, NoDialog
  <3>7. UserOn(u) /\ Whole(u) BY <2>8, <3>1, <3>2, <3>3, <3>4, <3>5, <3>6 DEF Whole
  <3>8. LoadOnly(u) BY <2>3 DEF LoadOnly
  <3>9. Reaches(Start(u, op), u) BY <2>3, <2>4, <2>5, <2>10, <3>7, <3>8, StartUser DEF NoDialog
  <3> QED BY <2>1, <3>9 DEF Reaches, KeepsAsker
 <2> QED BY <2>9, <2>10
<1> QED BY <1>1, <1>2

LEMMA ArchiveNewUser ==
    ASSUME NEW s, UserOn(s), WillBeWhole(s), NEW archive \in Archives, s.todo = "nothing",
           Kind[archive] \in {"absent", "foreign"}, ~Under(s, {"EXTRACTING", "TESTING"}),
           archive = s.uri \/ NoDialog(s) \/ Kind[archive] = "foreign",
           Kind[archive] = "foreign" \/ s.dialogs \cap {"extract", "overwrite", "new"} = {},
           "password" \in s.dialogs => LoadOnly(s),
           ~s.meanwhile /\ Kind[archive] # "foreign" => s.op = None /\ NoDialog(s) /\ ~s.installing
    PROVE  Reaches(ArchiveNew(s, archive), s)
<1>1. CASE Kind[archive] = "foreign"
 <2> DEFINE h == ShowError(s)
 <2>1. UserOn(h) /\ Same(h, s, {"dialogs", "showing_error_dialog"}) BY ShowErrorUser
 <2>2. h.alive BY <2>1 DEF UserOn, Goes
 <2>3. HandleErrors(s, "CREATING", "GENERIC") = h BY DEF HandleErrors
 <2> HIDE DEF h
 <2>4. Done(s, "CREATING", "GENERIC") = h BY <2>2, <2>3 DEF Done, Continue
 <2>5. WillBeWhole(h) /\ h.asker = s.asker BY <2>1 DEF WillBeWhole, Whole, Under, Same, Fields
 <2> QED BY <1>1, <2>1, <2>4, <2>5, UserIsInv DEF ArchiveNew, Reaches, KeepsAsker
<1>2. CASE Kind[archive] # "foreign"
 <2> DEFINE meant == IF s.list = <<>> THEN None ELSE archive
            u == [s EXCEPT !.uri = archive, !.present = TRUE, !.new = TRUE, !.meant = meant]
 <2>1. ArchiveNew(s, archive) = Done(u, "CREATING", "NONE") BY <1>2 DEF ArchiveNew
 <2>2. meant \in Names BY DEF Names
 <2> HIDE DEF meant
 <2>3. TypeOK(u) BY <2>2 DEF UserOn, TypeOK, Fields, Names
 <2>4. Same(u, s, {"uri", "present", "new", "meant"}) /\ u.present /\ u.uri = archive
  BY DEF UserOn, TypeOK, Same, Fields
 <2> HIDE DEF u
 <2> USE <2>3, <2>4 DEF UserOn, UserBase, Same, Fields
 <2>5. HandleErrors(u, "CREATING", "NONE") = u BY DEF HandleErrors
 <2>6. u.alive BY DEF Goes
 <2>7. Done(u, "CREATING", "NONE") = ExecNext(u) BY <2>5, <2>6 DEF Done, Continue
 <2>8. Goes(u) /\ Untold(u) /\ Users(u) /\ DropList(u) /\ Waits(u) /\ OneDialog(u)
  BY DEF Goes, Untold, Users, DropList, Waits, OneDialog
 <2>9. Extraction(u) BY <1>2 DEF Extraction, Asking, Replaces
 <2>10. Alone(u) /\ OneThing(u) /\ Converts(u)
  BY DEF Alone, OneThing, Converts, Under, LoadOnly, NoDialog
 <2>11. OnShown(u) /\ Noted(u) /\ Supported(u) /\ Asked(u)
  BY <1>2 DEF OnShown, Noted, Supported, Asked, AskerIsNoted, Under, LoadOnly, NoDialog
 <2>12. UserOn(u) /\ WillBeWhole(u) BY <2>8, <2>9, <2>10, <2>11 DEF WillBeWhole, Whole, Under
 <2>13. LET t == ExecNext(u)
        IN  UserOn(t) /\ Same(t, u, {"batch_action", "todo", "batch_mode"})
  BY <1>2, <2>12, ExecNextUser DEF Under, NoDialog, LoadOnly
 <2>14. WillBeWhole(ExecNext(u)) /\ ExecNext(u).asker = u.asker
  BY <2>12, <2>13 DEF WillBeWhole, Whole, Under
 <2> QED BY <2>1, <2>7, <2>13, <2>14, UserIsInv DEF Reaches, KeepsAsker
<1> QED BY <1>1, <1>2

LEMMA AddDroppedUser ==
    ASSUME NEW s, UserOn(s), WillBeWhole(s), s.todo = "nothing",
           ~Under(s, {"EXTRACTING", "TESTING"}),
           s.dialogs \cap {"extract", "overwrite", "new"} = {},
           "password" \in s.dialogs => LoadOnly(s), s.present \/ s.meanwhile,
           ~s.meanwhile => s.op = None /\ NoDialog(s) /\ ~s.installing,
           ~s.meanwhile /\ s.list = <<>> => s.converted = None,
           NEW own \in BOOLEAN, NEW unasked \in BOOLEAN, unasked => s.list # <<>>
    PROVE  Reaches(AddDropped(s, own, unasked), s)
<1>1. CASE Kind[s.uri] = "read_only" \/ own
 <2> DEFINE h == ShowError(s)
 <2>1. /\ UserOn(h) /\ Same(h, s, {"dialogs", "showing_error_dialog"})
       /\ h.dialogs = s.dialogs \cup {"error"}
  BY ShowErrorUser
 <2>2. h.alive /\ ~h.batch_mode BY <2>1 DEF UserOn, Goes, UserBase, Users
 <2>3. HandleErrors(s, "ADDING", "GENERIC") = h BY DEF HandleErrors
 <2> HIDE DEF h
 <2>4. Done(s, "ADDING", "GENERIC") = Reload(h) BY <2>2, <2>3 DEF Done, AddingDone
 <2>5. /\ WillBeWhole(h) /\ h.asker = s.asker /\ h.todo = "nothing"
       /\ h.dialogs \cap {"extract", "overwrite", "new"} = {}
       /\ ("password" \in h.dialogs => LoadOnly(h)) /\ (h.present \/ h.meanwhile)
       /\ (NoDialog(h) /\ ~h.installing) \/ h.meanwhile
  BY <2>1 DEF WillBeWhole, Whole, Under, Same, Fields, LoadOnly, NoDialog
 <2>6. Reaches(Reload(h), h) BY <2>1, <2>5, ReloadUser
 <2> QED BY <1>1, <2>4, <2>5, <2>6 DEF AddDropped, Reaches, KeepsAsker
<1>2. CASE ~(Kind[s.uri] = "read_only" \/ own)
 <2> DEFINE op == [Op("GETTING_FILE_LIST") EXCEPT !.unasked = unasked]
 <2>1. AddDropped(s, own, unasked) = Start(s, op) BY <1>2 DEF AddDropped
 <2>2. op \in Ops BY EmptySeq DEF Op, Ops, Actions
 <2>3. op.action = "GETTING_FILE_LIST" /\ op.files = <<>> /\ op.unasked = unasked BY DEF Op
 <2>4. Whole(s) BY DEF WillBeWhole, Under
 <2> HIDE DEF op
 <2> QED BY <2>1, <2>2, <2>3, <2>4, StartUser
<1> QED BY <1>1, <1>2

LEMMA ArchiveTestUser ==
    ASSUME NEW s, UserOn(s), WillBeWhole(s), s.todo = "nothing", s.op = None,
           NoDialog(s), ~s.installing, s.present \/ (s.meanwhile /\ ~LoadOnly(s)),
           ~s.meanwhile /\ s.list = <<>> => s.converted = None
    PROVE  Reaches(ArchiveTest(s), s)
<1> DEFINE act == Act("TEST", None)
           u == [s EXCEPT !.current = act]
           op == Op("TESTING")
<1>1. ArchiveTest(s) = Start(u, op) BY DEF ArchiveTest
<1>2. act \in Acts BY ActTyped DEF ActTypes, Names
<1>3. act.type = "TEST" /\ act.files = <<>> BY DEF Act
<1>4. op \in Ops BY OpTyped DEF Actions
<1>5. op.action = "TESTING" /\ op.files = <<>> /\ op.unasked = FALSE BY DEF Op
<1> HIDE DEF act, op
<1>6. TypeOK(u) BY <1>2 DEF UserOn, TypeOK, Fields
<1>7. Same(u, s, {"current"}) /\ u.current = act BY DEF UserOn, TypeOK, Same, Fields
<1>8. Whole(s) BY DEF WillBeWhole, Under
<1> HIDE DEF u
<1> USE <1>6, <1>7 DEF UserOn, UserBase, Same, Fields
<1>9. Goes(u) /\ Untold(u) /\ Users(u) /\ DropList(u) /\ Waits(u) /\ OneDialog(u)
 BY DEF Goes, Untold, Users, DropList, Waits, OneDialog
<1>10. Extraction(u) BY <1>3 DEF Extraction, Agreed, Asking, Replaces, NoDialog
<1>11. Alone(u) /\ OneThing(u) /\ Converts(u)
 BY <1>3 DEF Alone, OneThing, Converts, Under, LoadOnly, NoDialog
<1>12. OnShown(u) BY <1>3 DEF OnShown, Pursued, LoadOnly, NoDialog
<1>13. Noted(u) /\ Supported(u) BY <1>3 DEF Noted, Supported, Under, LoadOnly, NoDialog
<1>14. Asked(u) BY DEF Asked, AskerIsNoted, Waits, NoDialog
<1>15. UserOn(u) /\ Whole(u) BY <1>8, <1>9, <1>10, <1>11, <1>12, <1>13, <1>14 DEF Whole
<1>16. Reaches(Start(u, op), u) BY <1>3, <1>4, <1>5, <1>15, StartUser DEF NoDialog
<1> QED BY <1>1, <1>16 DEF Reaches, KeepsAsker

----
(* Extraction. *)

\* The operation that _fr_window_archive_extract_from_edata begins.
AskedFiles(act) == IF act.files = <<>> THEN Files ELSE ToSet(act.files)
ReplacedBy(act) ==
    IF act.dir = "there" /\ act.overwrite = "YES"
    THEN {f \in AskedFiles(act) : There[f] = "file"} ELSE {}
ExtractOp(act) ==
    [Op("EXTRACTING") EXCEPT !.files = act.files, !.replaced = ReplacedBy(act)]

LEMMA InRange ==
    ASSUME NEW S, NEW l \in Seq(S)
    PROVE  \A x \in ToSet(l) : x \in S /\ \E i \in DOMAIN l : x = l[i]
BY DEF ToSet

\* It replaces what was agreed to.
LEMMA ExtractOpAgreed ==
    ASSUME NEW act \in Acts, Agreed(act)
    PROVE  LET op == ExtractOp(act)
           IN  /\ op \in Ops /\ op.action = "EXTRACTING" /\ op.files = act.files
               /\ ~op.unasked /\ (op.files # <<>> => op.replaced \subseteq act.allowed)
<1> DEFINE op == ExtractOp(act)
<1>1. act.files \in Seq(Files) BY DEF Acts
<1>2. AskedFiles(act) \subseteq Files BY <1>1, InRange DEF AskedFiles
<1>3. ReplacedBy(act) \in SUBSET Files BY <1>2 DEF ReplacedBy
<1>4. act.files # <<>> => ReplacedBy(act) \subseteq act.allowed
 BY DEF ReplacedBy, AskedFiles, Agreed
<1>5. op \in Ops BY <1>1, <1>3 DEF ExtractOp, Op, Ops, Actions
<1>6. op.action = "EXTRACTING" /\ op.files = act.files /\ op.replaced = ReplacedBy(act)
 BY DEF ExtractOp, Op
<1>7. ~op.unasked BY DEF ExtractOp, Op
<1> QED BY <1>4, <1>5, <1>6, <1>7

LEMMA StartExtractIs ==
    ASSUME NEW s
    PROVE  StartExtract(s) = Start([s EXCEPT !.ask = 0], ExtractOp(s.current))
BY DEF StartExtract, ExtractOp, ReplacedBy, AskedFiles

LEMMA StartExtractUser ==
    ASSUME NEW s, UserOn(s), Whole(s), s.todo = "nothing", s.op = None,
           NoDialog(s), ~s.installing, s.present \/ s.meanwhile,
           s.current.type = "EXTRACT",
           ~s.meanwhile /\ s.list = <<>> => s.converted = None
    PROVE  Reaches(StartExtract(s), s)
<1> DEFINE u == [s EXCEPT !.ask = 0]
           op == ExtractOp(s.current)
<1>1. StartExtract(s) = Start(u, op) BY StartExtractIs
<1>2. s.current \in Acts /\ Agreed(s.current) BY DEF UserOn, TypeOK, Extraction
<1>3. /\ op \in Ops /\ op.action = "EXTRACTING" /\ ~op.unasked
      /\ op.files # <<>> => op.replaced \subseteq s.current.allowed
 BY <1>2, ExtractOpAgreed
<1> HIDE DEF op
<1>4. TypeOK(u) BY DEF UserOn, TypeOK, Fields
<1>5. Same(u, s, {"ask"}) BY DEF UserOn, TypeOK, Same, Fields
<1> HIDE DEF u
<1> USE <1>4, <1>5 DEF UserOn, UserBase, Same, Fields
<1>6. Goes(u) /\ Untold(u) /\ Users(u) /\ DropList(u) /\ Waits(u) /\ OneDialog(u)
 BY DEF Goes, Untold, Users, DropList, Waits, OneDialog
<1>7. Extraction(u) BY DEF Extraction, Asking, Replaces, NoDialog
<1>8. Alone(u) /\ OneThing(u) /\ Converts(u)
 BY DEF Alone, OneThing, Converts, Under, LoadOnly, NoDialog
<1>9. OnShown(u) BY DEF OnShown, Pursued, LoadOnly
<1>10. Noted(u) /\ Supported(u) /\ Asked(u)
 BY DEF Noted, Supported, Asked, AskerIsNoted, Under, LoadOnly
<1>11. UserOn(u) /\ Whole(u) BY <1>6, <1>7, <1>8, <1>9, <1>10 DEF Whole
<1>12. Reaches(Start(u, op), u) BY <1>3, <1>11, StartUser DEF NoDialog
<1> QED BY <1>1, <1>12 DEF Reaches, KeepsAsker

\* Another extraction is noted, and nothing else is under way.
LEMMA NoteUser ==
    ASSUME NEW s, UserOn(s), Whole(s), s.todo = "nothing", s.op = None,
           NoDialog(s), ~s.installing, NEW act \in Acts, act.type = "EXTRACT", Agreed(act),
           Kind[s.uri] # "unsupported"
    PROVE  LET u == [s EXCEPT !.current = act]
           IN  UserOn(u) /\ Whole(u) /\ Same(u, s, {"current"}) /\ u.current = act
<1> DEFINE u == [s EXCEPT !.current = act]
<1>1. TypeOK(u) BY DEF UserOn, TypeOK, Fields
<1>2. Same(u, s, {"current"}) /\ u.current = act BY DEF UserOn, TypeOK, Same, Fields
<1> HIDE DEF u
<1> USE <1>1, <1>2 DEF UserOn, UserBase, Same, Fields
<1>3. Goes(u) /\ Untold(u) /\ Users(u) /\ DropList(u) /\ Waits(u) /\ OneDialog(u)
 BY DEF Goes, Untold, Users, DropList, Waits, OneDialog
<1>4. Extraction(u) BY DEF Extraction, Asking, Replaces, NoDialog
<1>5. Alone(u) /\ OneThing(u) /\ Converts(u)
 BY DEF Alone, OneThing, Converts, Under, LoadOnly, NoDialog
<1>6. OnShown(u) BY DEF OnShown, Pursued, LoadOnly, NoDialog
<1>7. Noted(u) /\ Supported(u) BY DEF Noted, Supported, Under, LoadOnly
<1>8. Asked(u) BY DEF Asked, AskerIsNoted, Waits, NoDialog
<1> QED BY <1>3, <1>4, <1>5, <1>6, <1>7, <1>8 DEF Whole, u

\* All that are there were agreed to, one by one.
LEMMA AllAgreed ==
    ASSUME NEW act \in Acts, NEW from \in Nat \ {0}, AgreedBefore(act, from),
           \A i \in from .. Len(act.files) : There[act.files[i]] = "nothing"
    PROVE  LET yes == [act EXCEPT !.overwrite = "YES"]
           IN  yes \in Acts /\ yes.type = act.type /\ yes.dir = act.dir /\ Agreed(yes)
<1> DEFINE yes == [act EXCEPT !.overwrite = "YES"]
<1>1. yes \in Acts /\ yes.type = act.type /\ yes.files = act.files /\ yes.dir = act.dir
      /\ yes.allowed = act.allowed
 BY DEF Acts
<1>2. act.files \in Seq(Files) BY DEF Acts
<1>3. ASSUME NEW i \in DOMAIN act.files, There[act.files[i]] = "file"
      PROVE  act.files[i] \in act.allowed
 <2>1. i \in Nat /\ 1 <= i /\ i <= Len(act.files) BY <1>2
 <2>2. ~(from <= i) BY <1>3, <2>1
 <2>3. i \in 1 .. from - 1 BY <2>1, <2>2
 <2> QED BY <1>3, <2>3 DEF AgreedBefore
<1>4. Agreed(yes) BY <1>1, <1>2, <1>3, InRange DEF Agreed
<1> QED BY <1>1, <1>4

LEMMA SmallestOf ==
    ASSUME NEW T \in SUBSET Nat, T # {}
    PROVE  \E x \in T : \A y \in T : ~(y < x)
<1>1. PICK x \in T : \A y \in T : ~(<<y, x>> \in OpToRel(<, Nat)) BY NatLessThanWellFounded, WFMin
<1>2. \A y \in T : y < x => <<y, x>> \in OpToRel(<, Nat) BY DEF OpToRel
<1> QED BY <1>1, <1>2

\* The overwrite dialog comes to the next file that is there, and past none of them.
LEMMA AskOverwriteIs ==
    ASSUME NEW s, TypeOK(s), NEW from \in Nat \ {0}, AgreedBefore(s.current, from)
    PROVE  \/ \E yes \in Acts :
                /\ Agreed(yes) /\ yes.type = s.current.type /\ yes.dir = s.current.dir
                /\ AskOverwrite(s, from) = StartExtract([s EXCEPT !.current = yes])
           \/ AskOverwrite(s, from) = [s EXCEPT !.hung = TRUE]
           \/ \E next \in DOMAIN s.current.files :
                /\ AgreedBefore(s.current, next)
                /\ AskOverwrite(s, from) = [Show(s, "overwrite") EXCEPT !.ask = next]
<1> DEFINE act == s.current
           files == act.files
           taken == {i \in from .. Len(files) : There[files[i]] # "nothing"}
           next == CHOOSE i \in taken : \A j \in taken : i <= j
<1>1. act \in Acts /\ files \in Seq(Files) BY DEF TypeOK, Acts
<1>2. AskOverwrite(s, from) =
        IF taken = {} THEN StartExtract([s EXCEPT !.current.overwrite = "YES"])
        ELSE IF There[files[next]] = "folder" THEN [s EXCEPT !.hung = TRUE]
        ELSE [Show(s, "overwrite") EXCEPT !.ask = next]
 BY DEF AskOverwrite
<1>3. CASE taken = {}
 <2> DEFINE yes == [act EXCEPT !.overwrite = "YES"]
 <2>1. \A i \in from .. Len(files) : There[files[i]] = "nothing" BY <1>3
 <2>2. yes \in Acts /\ yes.type = act.type /\ yes.dir = act.dir /\ Agreed(yes)
  BY <1>1, <2>1, AllAgreed
 <2>3. AskOverwrite(s, from) = StartExtract([s EXCEPT !.current = yes]) BY <1>2, <1>3
 <2> QED BY <2>2, <2>3
<1>4. CASE taken # {}
 <2>1. taken \in SUBSET Nat OBVIOUS
 <2>2. PICK x \in taken : \A y \in taken : ~(y < x) BY <1>4, <2>1, SmallestOf
 <2>3. \A y \in taken : x <= y BY <2>1, <2>2
 <2>4. next \in taken /\ \A j \in taken : next <= j BY <2>2, <2>3
 <2> HIDE DEF next
 <2>5. next \in DOMAIN files BY <1>1, <2>4
 <2>6. ASSUME NEW j \in 1 .. next - 1, There[files[j]] = "file"
       PROVE  files[j] \in act.allowed
  <3>1. CASE j < from
   <4>1. j \in 1 .. from - 1 BY <3>1
   <4> QED BY <2>6, <4>1 DEF AgreedBefore
  <3>2. CASE ~(j < from)
   <4>1. j \in from .. Len(files) BY <1>1, <2>4, <3>2
   <4>2. j \in taken BY <2>6, <4>1
   <4>3. next <= j BY <2>4, <4>2
   <4> QED BY <2>1, <2>4, <4>3
  <3> QED BY <3>1, <3>2
 <2>7. AgreedBefore(act, next) BY <2>6 DEF AgreedBefore
 <2> QED BY <1>2, <1>4, <2>5, <2>7
<1> QED BY <1>3, <1>4

\* A folder is looked at for ever.
LEMMA HungUser ==
    ASSUME NEW s, UserOn(s), s.op = None
    PROVE  Reaches([s EXCEPT !.hung = TRUE], s)
<1> DEFINE t == [s EXCEPT !.hung = TRUE]
<1>1. TypeOK(t) BY DEF UserOn, TypeOK, Fields
<1>2. Same(t, s, {"hung"}) /\ t.hung BY DEF UserOn, TypeOK, Same, Fields
<1> HIDE DEF t
<1> USE <1>1, <1>2 DEF UserOn, UserBase, Same, Fields
<1> QED BY EmptySeq DEF Goes, Untold, Users, Proper, DropsFiles, Inv, Reaches, KeepsAsker, t

LEMMA AskOverwriteUser ==
    ASSUME NEW s, UserOn(s), Whole(s), NEW from \in Nat \ {0}, AgreedBefore(s.current, from),
           s.todo = "nothing", s.op = None, NoDialog(s), ~s.installing,
           s.present \/ s.meanwhile, s.current.type = "EXTRACT",
           ~s.meanwhile /\ s.list = <<>> => s.converted = None
    PROVE  Reaches(AskOverwrite(s, from), s)
<1>1. TypeOK(s) BY DEF UserOn
<1>2. CASE \E yes \in Acts :
             /\ Agreed(yes) /\ yes.type = s.current.type /\ yes.dir = s.current.dir
             /\ AskOverwrite(s, from) = StartExtract([s EXCEPT !.current = yes])
 <2>1. PICK yes \in Acts :
         /\ Agreed(yes) /\ yes.type = s.current.type /\ yes.dir = s.current.dir
         /\ AskOverwrite(s, from) = StartExtract([s EXCEPT !.current = yes])
  BY <1>2
 <2>2. Kind[s.uri] # "unsupported" BY DEF UserOn, UserBase, Supported, LoadOnly
 <2> DEFINE u == [s EXCEPT !.current = yes]
 <2>3. UserOn(u) /\ Whole(u) /\ Same(u, s, {"current"}) /\ u.current = yes BY <2>1, <2>2, NoteUser
 <2> HIDE DEF u
 <2>4. Reaches(StartExtract(u), u) BY <2>1, <2>3, StartExtractUser DEF Same, Fields, NoDialog
 <2> QED BY <2>1, <2>3, <2>4 DEF Reaches, KeepsAsker, Same, Fields, u
<1>3. CASE AskOverwrite(s, from) = [s EXCEPT !.hung = TRUE] BY <1>3, HungUser
<1>4. CASE \E next \in DOMAIN s.current.files :
             /\ AgreedBefore(s.current, next)
             /\ AskOverwrite(s, from) = [Show(s, "overwrite") EXCEPT !.ask = next]
 <2>1. PICK next \in DOMAIN s.current.files :
         /\ AgreedBefore(s.current, next)
         /\ AskOverwrite(s, from) = [Show(s, "overwrite") EXCEPT !.ask = next]
  BY <1>4
 <2> DEFINE u == Show(s, "overwrite")
            t == [u EXCEPT !.ask = next]
 <2>2. next \in Nat
  <3> QED BY <1>1 DEF TypeOK, Acts
 <2>3. TypeOK(u) /\ Same(u, s, {"dialogs"}) /\ u.dialogs = s.dialogs \cup {"overwrite"}
  BY <1>1, ShowTyped DEF Dialogs
 <2> HIDE DEF u
 <2>4. TypeOK(t) BY <2>2, <2>3 DEF TypeOK, Fields
 <2>5. Same(t, u, {"ask"}) /\ t.ask = next BY <2>3 DEF TypeOK, Same, Fields
 <2>6. Same(t, s, {"dialogs", "ask"}) /\ t.dialogs = s.dialogs \cup {"overwrite"}
  BY <2>3, <2>5 DEF Same, Fields
 <2> HIDE DEF t
 <2> USE <2>4, <2>5, <2>6 DEF UserOn, UserBase, Same, Fields
 <2>7. t.dialogs \subseteq {"overwrite", "error"} BY DEF NoDialog
 <2>8. Goes(t) /\ Untold(t) /\ Users(t) /\ DropList(t) BY DEF Goes, Untold, Users, DropList
 <2>9. Waits(t) /\ OneDialog(t) BY <2>7 DEF Waits, OneDialog, Dialogs
 <2>10. Extraction(t) BY <2>1 DEF Extraction, Asking, Replaces
 <2>11. Alone(t) BY <2>7 DEF Alone, Under, LoadOnly
 <2>12. OneThing(t) BY DEF OneThing
 <2>13. Converts(t) BY DEF Converts
 <2>14. OnShown(t) BY <2>7 DEF OnShown, Pursued, LoadOnly, NoDialog
 <2>15. Noted(t) /\ Supported(t) /\ Asked(t)
  BY <2>7 DEF Noted, Supported, Asked, AskerIsNoted, Under, LoadOnly
 <2>16. UserOn(t) /\ WillBeWhole(t)
  BY <2>8, <2>9, <2>10, <2>11, <2>12, <2>13, <2>14, <2>15 DEF WillBeWhole, Whole
 <2> QED BY <2>1, <2>16, UserIsInv DEF Reaches, KeepsAsker, t, u
<1> QED BY <1>1, <1>2, <1>3, <1>4, AskOverwriteIs

\* Where it goes is known when it begins.
LEMMA ArchiveExtractUser ==
    ASSUME NEW s, UserOn(s), Whole(s), s.todo = "nothing", s.op = None, NoDialog(s),
           ~s.installing, s.present \/ s.meanwhile, Kind[s.uri] # "unsupported",
           ~s.meanwhile /\ s.list = <<>> => s.converted = None,
           NEW act \in Acts, Agreed(act), NEW dir \in {"there", "made", "refused"},
           act.dir \in {"unknown", dir}
    PROVE  Reaches(ArchiveExtract(s, act, dir), s)
<1> DEFINE plain == [act EXCEPT !.type = "EXTRACT"]
           noted == [act EXCEPT !.type = "EXTRACT", !.dir = dir]
           p == [s EXCEPT !.current = plain]
           t == [s EXCEPT !.current = noted]
           e == ShowError(t)
<1>1. /\ plain \in Acts /\ plain.type = "EXTRACT" /\ Agreed(plain)
      /\ plain.overwrite = act.overwrite
 BY DEF Acts, ActTypes, Working, Agreed
<1>2. noted \in Acts /\ noted.type = "EXTRACT" /\ noted.files = act.files
      /\ noted.overwrite = act.overwrite /\ noted.allowed = act.allowed /\ noted.dir = dir
 BY DEF Acts, ActTypes, Working
<1>3. Agreed(noted) BY <1>2 DEF Agreed
<1>4. UserOn(p) /\ Whole(p) /\ Same(p, s, {"current"}) /\ p.current = plain BY <1>1, NoteUser
<1>5. UserOn(t) /\ Whole(t) /\ Same(t, s, {"current"}) /\ t.current = noted BY <1>2, <1>3, NoteUser
<1>6. ArchiveExtract(s, act, dir) =
        IF NeedsPassword(s) THEN AskPassword(p, "EXTRACT")
        ELSE IF dir = "refused" THEN StopBatch(Use(e))
        ELSE IF act.overwrite # "ASK" THEN StartExtract(t)
        ELSE IF dir = "made" THEN StartExtract([t EXCEPT !.current.overwrite = "YES"])
        ELSE AskOverwrite(t, 1)
 BY DEF ArchiveExtract
<1> HIDE DEF plain, noted, p, t
<1>7. CASE NeedsPassword(s)
 <2>1. AskerIsNoted(p, "EXTRACT") BY <1>1, <1>4 DEF AskerIsNoted, AskedBy
 <2>2. Kind[p.uri] = "encrypted" BY <1>4, <1>7 DEF NeedsPassword, Same, Fields
 <2>3. Reaches(AskPassword(p, "EXTRACT"), p)
  BY <1>4, <2>1, <2>2, AskPasswordUser DEF Same, Fields, NoDialog, Askers
 <2> QED BY <1>4, <1>6, <1>7, <2>3 DEF Reaches, KeepsAsker, Same, Fields
<1>8. CASE ~NeedsPassword(s) /\ dir = "refused"
 <2>1. UserOn(e) /\ Same(e, t, {"dialogs", "showing_error_dialog"}) BY <1>5, ShowErrorUser
 <2> HIDE DEF e
 <2> DEFINE v == Use(e)
 <2>2. UserOn(v) /\ Same(v, e, {}) BY <2>1, UseUser
 <2> HIDE DEF v
 <2>3. StopBatch(v) = v BY <2>2 DEF StopBatch, UserOn, UserBase, Users
 <2>4. WillBeWhole(v) /\ v.asker = s.asker BY <1>5, <2>1, <2>2 DEF WillBeWhole, Whole, Same, Fields
 <2> QED BY <1>6, <1>8, <2>2, <2>3, <2>4, UserIsInv DEF Reaches, KeepsAsker, v
<1>9. CASE ~NeedsPassword(s) /\ dir # "refused" /\ act.overwrite # "ASK"
 <2>1. Reaches(StartExtract(t), t) BY <1>2, <1>5, StartExtractUser DEF Same, Fields, NoDialog
 <2> QED BY <1>5, <1>6, <1>9, <2>1 DEF Reaches, KeepsAsker, Same, Fields
<1>10. CASE ~NeedsPassword(s) /\ dir = "made" /\ act.overwrite = "ASK"
 <2> DEFINE yes == [noted EXCEPT !.overwrite = "YES"]
            u == [t EXCEPT !.current = yes]
 <2>1. yes \in Acts /\ yes.type = "EXTRACT" /\ yes.dir = dir BY <1>2 DEF Acts
 <2>2. Agreed(yes) BY <1>10, <2>1 DEF Agreed
 <2>3. [t EXCEPT !.current.overwrite = "YES"] = u BY <1>5
 <2>4. NoDialog(t) /\ Kind[t.uri] # "unsupported" /\ t.todo = "nothing" /\ t.op = None /\ ~t.installing
  BY <1>5 DEF Same, Fields, NoDialog
 <2>5. UserOn(u) /\ Whole(u) /\ Same(u, t, {"current"}) /\ u.current = yes
  BY <1>5, <2>1, <2>2, <2>4, NoteUser
 <2> HIDE DEF u, yes
 <2>6. Same(u, s, {"current"}) BY <1>5, <2>5 DEF Same
 <2>7. Reaches(StartExtract(u), u) BY <2>1, <2>5, <2>6, StartExtractUser DEF Same, Fields, NoDialog
 <2>8. u.asker = s.asker BY <2>6 DEF Same, Fields
 <2> QED BY <1>6, <1>10, <2>3, <2>7, <2>8 DEF Reaches, KeepsAsker
<1>11. CASE ~NeedsPassword(s) /\ dir = "there" /\ act.overwrite = "ASK"
 <2>1. AgreedBefore(t.current, 1) BY DEF AgreedBefore
 <2>2. Reaches(AskOverwrite(t, 1), t)
  BY <1>2, <1>5, <2>1, AskOverwriteUser DEF Same, Fields, NoDialog
 <2> QED BY <1>5, <1>6, <1>11, <2>2 DEF Reaches, KeepsAsker, Same, Fields
<1> QED BY <1>7, <1>8, <1>9, <1>10, <1>11

----
(* Conversion to another archive. *)

LEMMA ConvertDataFreeTyped ==
    ASSUME NEW s, TypeOK(s)
    PROVE  LET t == ConvertDataFree(s)
           IN  /\ TypeOK(t) /\ Same(t, s, {"converting", "converted", "whole", "left", "orphaned"})
               /\ ~t.converting /\ t.converted = None /\ ~t.whole /\ ~t.left
               /\ t.orphaned = IF s.converted = None THEN s.orphaned ELSE "replaced"
<1> DEFINE orphaned == IF s.converted = None THEN s.orphaned ELSE "replaced"
           t == [s EXCEPT !.converting = FALSE, !.converted = None, !.whole = FALSE,
                          !.left = FALSE, !.orphaned = orphaned]
<1>1. ConvertDataFree(s) = t BY DEF ConvertDataFree, TypeOK, Fields
<1>2. orphaned \in {"no", "replaced", "stopped"} BY DEF TypeOK
<1> HIDE DEF orphaned
<1>3. TypeOK(t) BY <1>2 DEF TypeOK, Fields
<1>4. Same(t, s, {"converting", "converted", "whole", "left", "orphaned"})
 BY DEF TypeOK, Same, Fields
<1>5. t.converted = None /\ t.orphaned = orphaned BY DEF TypeOK, Fields
<1>6. ~t.converting /\ ~t.whole /\ ~t.left BY DEF TypeOK, Fields
<1> QED BY <1>1, <1>3, <1>4, <1>5, <1>6 DEF orphaned

\* The other archive is freed before its files are listed, or after.
LEMMA ConvertDataFreeUser ==
    ASSUME NEW s, UserOn(s), s.converted = None
    PROVE  LET t == ConvertDataFree(s)
           IN  /\ UserOn(t) /\ Whole(t) /\ Same(t, s, {"converting", "whole", "left"})
               /\ ~t.converting
<1> DEFINE t == ConvertDataFree(s)
<1>1. /\ TypeOK(t) /\ Same(t, s, {"converting", "converted", "whole", "left", "orphaned"})
      /\ ~t.converting /\ t.converted = None /\ t.orphaned = s.orphaned
 BY ConvertDataFreeTyped DEF UserOn
<1> HIDE DEF t
<1> USE <1>1 DEF UserOn, UserBase, Same, Fields
<1>2. Goes(t) /\ Untold(t) /\ Users(t) /\ DropList(t) /\ Waits(t) /\ OneDialog(t)
 BY DEF Goes, Untold, Users, DropList, Waits, OneDialog
<1>3. Extraction(t) BY DEF Extraction, Asking, Replaces
<1>4. Alone(t) /\ OneThing(t) /\ Converts(t)
 BY DEF Alone, OneThing, Converts, Under, LoadOnly, NoDialog
<1>5. OnShown(t) BY DEF OnShown, Pursued, LoadOnly
<1>6. Noted(t) /\ Supported(t) /\ Asked(t)
 BY DEF Noted, Supported, Asked, AskerIsNoted, Under, LoadOnly
<1>7. Same(t, s, {"converting", "whole", "left"}) OBVIOUS
<1> QED BY <1>2, <1>3, <1>4, <1>5, <1>6, <1>7 DEF Whole, t

\* It is freed while they are: the program does not survive that.
LEMMA OrphanedUser ==
    ASSUME NEW s, UserOn(s), NEW t, TypeOK(t), t.converted = None, t.orphaned # "no",
           Same(t, s, {"converting", "converted", "whole", "left", "orphaned", "current"}),
           t.orphaned = "replaced" => s.meanwhile \/ s.list # <<>>,
           s.op # None => t.current = s.current
    PROVE  Reaches(t, s)
<1> USE DEF UserOn, UserBase, Same, Fields
<1> QED
 BY EmptySeq DEF Goes, Untold, Users, DropList, Extraction, Replaces, Proper, DropsFiles, Inv,
    Reaches, KeepsAsker

LEMMA SaveAsUser ==
    ASSUME NEW s, UserOn(s), Whole(s), s.todo = "nothing", s.op = None, NoDialog(s),
           ~s.installing, s.present \/ s.meanwhile, Kind[s.uri] # "unsupported",
           ~s.meanwhile /\ s.list = <<>> => s.converted = None, NEW created \in BOOLEAN
    PROVE  Reaches(SaveAs(s, created), s)
<1> DEFINE t == ConvertDataFree(s)
           act == Act("SAVE_AS", None)
           u == [t EXCEPT !.current = act, !.converting = TRUE]
           op == Op("EXTRACTING")
<1>1. SaveAs(s, created) = IF ~created THEN t ELSE Start(u, op) BY DEF SaveAs
<1>2. act \in Acts BY ActTyped DEF ActTypes, Names
<1>3. act.type = "SAVE_AS" /\ act.files = <<>> BY DEF Act
<1>4. op \in Ops BY OpTyped DEF Actions
<1>5. op.action = "EXTRACTING" /\ op.files = <<>> /\ op.unasked = FALSE BY DEF Op
<1> HIDE DEF act, op
<1>6. /\ TypeOK(t) /\ Same(t, s, {"converting", "converted", "whole", "left", "orphaned"})
      /\ ~t.converting /\ t.converted = None /\ ~t.whole /\ ~t.left
      /\ t.orphaned = IF s.converted = None THEN s.orphaned ELSE "replaced"
 BY ConvertDataFreeTyped DEF UserOn
<1>7. CASE s.converted # None
 <2>1. /\ t.converted = None /\ t.orphaned = "replaced" /\ (s.meanwhile \/ s.list # <<>>)
  BY <1>6, <1>7
 <2> HIDE DEF t
 <2>2. CASE ~created
  <3>1. t.op = None BY <1>6 DEF Same, Fields
  <3>2. Same(t, s, {"converting", "converted", "whole", "left", "orphaned", "current"})
   BY <1>6 DEF Same
  <3>3. Reaches(t, s) BY <1>6, <2>1, <3>2, OrphanedUser
  <3> QED BY <1>1, <2>2, <3>3
 <2>3. CASE created
  <3>1. TypeOK(u) BY <1>2, <1>6 DEF TypeOK, Fields
  <3>2. Same(u, t, {"current", "converting"}) BY <1>6 DEF TypeOK, Same, Fields
  <3> HIDE DEF u
  <3>3. Same(u, s, {"converting", "converted", "whole", "left", "orphaned", "current"})
   BY <1>6, <3>2 DEF Same
  <3>4. u.converted = None /\ u.orphaned = "replaced" BY <2>1, <3>2 DEF Same, Fields
  <3> DEFINE v == Start(u, op)
  <3>5. /\ TypeOK(v) /\ Same(v, u, {"overlap", "op"}) /\ v.op = op BY <1>4, <3>1, StartTyped
  <3> HIDE DEF v
  <3> USE DEF UserOn, UserBase, Same, Fields
  <3>6. Proper(v)
   BY <1>5, <2>1, <3>3, <3>4, <3>5, EmptySeq DEF Goes, Untold, Users, Proper, DropsFiles
  <3>7. v.orphaned # "no" /\ v.asker = s.asker BY <3>3, <3>4, <3>5
  <3> QED BY <1>1, <2>3, <3>5, <3>6, <3>7 DEF Inv, Goes, Reaches, KeepsAsker, v
 <2> QED BY <2>2, <2>3
<1>8. CASE s.converted = None
 <2>1. UserOn(t) /\ Whole(t) /\ Same(t, s, {"converting", "whole", "left"})
  BY <1>8, ConvertDataFreeUser
 <2> HIDE DEF t
 <2>2. CASE ~created
  BY <1>1, <2>1, <2>2, UserIsInv DEF Reaches, KeepsAsker, WillBeWhole, Same, Fields
 <2>3. CASE created
  <3>1. TypeOK(u) BY <1>2, <1>6 DEF TypeOK, Fields
  <3>2. Same(u, t, {"current", "converting"}) /\ u.current = act BY <1>6 DEF TypeOK, Same, Fields
  <3> HIDE DEF u
  <3>3. Same(u, s, {"converting", "whole", "left", "current"}) BY <2>1, <3>2 DEF Same
  <3> USE <3>1, <3>2, <3>3 DEF UserOn, UserBase, Same, Fields
  <3>4. Goes(u) /\ Untold(u) /\ Users(u) /\ DropList(u) /\ Waits(u) /\ OneDialog(u)
   BY DEF Goes, Untold, Users, DropList, Waits, OneDialog
  <3>5. Extraction(u) BY <1>2, <1>3 DEF Extraction, Agreed, Asking, Replaces, NoDialog
  <3>6. Alone(u) /\ OneThing(u) /\ Converts(u)
   BY <1>8 DEF Alone, OneThing, Converts, Under, LoadOnly, NoDialog
  <3>7. OnShown(u) BY DEF OnShown, Pursued, LoadOnly, NoDialog
  <3>8. Noted(u) /\ Supported(u) BY DEF Noted, Supported, Under, LoadOnly, NoDialog
  <3>9. Asked(u) BY DEF Asked, AskerIsNoted, Waits, NoDialog
  <3>10. UserOn(u) /\ (u.converted # None => u.whole \/ u.left)
   BY <1>8, <3>4, <3>5, <3>6, <3>7, <3>8, <3>9
  <3>11. Reaches(Start(u, op), u) BY <1>3, <1>4, <1>5, <1>8, <3>10, StartUser DEF NoDialog
  <3> QED BY <1>1, <2>3, <3>11 DEF Reaches, KeepsAsker
 <2> QED BY <2>2, <2>3
<1> QED BY <1>7, <1>8

----
(* The next action of a batch, in a window of the user. *)

\* What is to be done is taken up.
LEMMA TakenUp ==
    ASSUME NEW s, UserOn(s), WillBeWhole(s), s.todo # "nothing"
    PROVE  LET t == [s EXCEPT !.todo = "nothing"]
           IN  /\ UserOn(t) /\ WillBeWhole(t) /\ Same(t, s, {"todo"}) /\ t.todo = "nothing"
               /\ t.dialogs \cap {"extract", "overwrite", "new"} = {}
               /\ ~Under(t, {"EXTRACTING", "TESTING"})
               /\ ("password" \in t.dialogs => LoadOnly(t))
               /\ (~t.meanwhile => t.op = None /\ NoDialog(t) /\ ~t.installing)
               /\ (~t.meanwhile /\ t.list = <<>> => t.converted = None)
<1> USE DEF UserOn, UserBase
<1> DEFINE t == [s EXCEPT !.todo = "nothing"]
<1>1. TypeOK(t) BY DEF TypeOK, Fields
<1>2. Same(t, s, {"todo"}) /\ t.todo = "nothing" BY DEF TypeOK, Same, Fields
<1> HIDE DEF t
<1> USE <1>1, <1>2 DEF Same, Fields
<1>3. Goes(t) /\ Untold(t) /\ Users(t) /\ DropList(t) /\ Waits(t) /\ OneDialog(t)
 BY DEF Goes, Untold, Users, DropList, Waits, OneDialog
<1>4. Extraction(t) BY DEF Extraction, Asking, Replaces
<1>5. Alone(t) /\ OneThing(t) /\ Converts(t)
 BY DEF Alone, OneThing, Converts, Under, LoadOnly, NoDialog
<1>6. OnShown(t) BY DEF OnShown, Pursued, LoadOnly
<1>7. Noted(t) /\ Supported(t) /\ Asked(t)
 BY DEF Noted, Supported, Asked, AskerIsNoted, Under, LoadOnly
<1>8. UserOn(t) /\ WillBeWhole(t) BY <1>3, <1>4, <1>5, <1>6, <1>7 DEF WillBeWhole, Whole, Under
<1>9. /\ t.dialogs \cap {"extract", "overwrite", "new"} = {}
      /\ ~Under(t, {"EXTRACTING", "TESTING"})
      /\ ("password" \in t.dialogs => LoadOnly(t))
 BY DEF Alone, Under, LoadOnly
<1>10. /\ (~t.meanwhile => t.op = None /\ NoDialog(t) /\ ~t.installing)
       /\ (~t.meanwhile /\ t.list = <<>> => t.converted = None)
 BY DEF OneThing, Converts, NoDialog
<1> QED BY <1>8, <1>9, <1>10 DEF t

\* A window of the user that the program is not at the end of.
LEMMA UserGoes ==
    ASSUME Inv(w), UserSound(w), Sound
    PROVE  UserOn(w) /\ WillBeWhole(w)
BY DEF Inv, UserSound, Sound, Goes, UserOn

LEMMA ArchiveNewKind ==
    ASSUME NEW s, NEW archive \in Archives, ~Exists(s, archive)
    PROVE  Kind[archive] \in {"absent", "foreign"}
BY DEF Exists

LEMMA ExecNextActionUser ==
    ASSUME Inv(w), UserSound(w), ExecNextAction
    PROVE  Reaches(w', w)
<1> DEFINE s == [w EXCEPT !.todo = "nothing"]
           act == IF w.todo = "list" THEN w.list[w.batch_action] ELSE w.current
<1>1. w.todo # "nothing" /\ Sound BY DEF ExecNextAction
<1>2. PICK dir \in {"there", "made", "refused"}, ok \in BOOLEAN :
        /\ act.dir # "unknown" => dir = act.dir
        /\ w' = ExecBatchAction(s, act, dir, ok)
 BY DEF ExecNextAction
<1>3. UserOn(w) /\ WillBeWhole(w) BY <1>1, UserGoes
<1>4. /\ UserOn(s) /\ WillBeWhole(s) /\ Same(s, w, {"todo"}) /\ s.todo = "nothing"
      /\ s.dialogs \cap {"extract", "overwrite", "new"} = {}
      /\ ~Under(s, {"EXTRACTING", "TESTING"})
      /\ ("password" \in s.dialogs => LoadOnly(s))
      /\ (~s.meanwhile => s.op = None /\ NoDialog(s) /\ ~s.installing)
      /\ (~s.meanwhile /\ s.list = <<>> => s.converted = None)
 BY <1>1, <1>3, TakenUp
<1>5. s.asker = w.asker /\ s.current = w.current /\ s.list = w.list BY <1>4 DEF Same, Fields
<1>6. OnShown(w) /\ Alone(w) /\ DropList(w) /\ TypeOK(w) /\ Supported(w)
 BY <1>3 DEF UserOn, UserBase
<1> HIDE DEF s, act
<1>7. CASE w.todo = "list"
 <2>1. w.batch_action \in DOMAIN w.list /\ w.list # <<>> BY <1>6, <1>7 DEF DropList, TypeOK
 <2>2. w.list[w.batch_action] = Act("ADD", None) BY <1>6, <2>1 DEF DropList
 <2>3. act.type = "ADD" BY <1>7, <2>2 DEF act, Act
 <2>4. w' = AddDropped(s, ~ok, s.meant # s.uri) BY <1>2, <2>3 DEF ExecBatchAction
 <2>5. w.present \/ w.meanwhile BY <1>6, <1>7 DEF OnShown, Pursued
 <2>6. s.present \/ s.meanwhile BY <1>4, <2>5 DEF Same, Fields
 <2>7. (~ok) \in BOOLEAN /\ (s.meant # s.uri) \in BOOLEAN OBVIOUS
 <2>8. (s.meant # s.uri) => s.list # <<>> BY <1>5, <2>1
 <2>9. Reaches(AddDropped(s, ~ok, s.meant # s.uri), s) BY <1>4, <2>6, <2>7, <2>8, AddDroppedUser
 <2> QED BY <1>5, <2>4, <2>9 DEF Reaches, KeepsAsker
<1>8. CASE w.todo = "current"
 <2>1. act = w.current /\ act = s.current BY <1>5, <1>8 DEF act
 <2>2. act \in Acts /\ Agreed(act) BY <2>1, <1>4 DEF UserOn, TypeOK, Extraction
 <2>3. act.type \in {"NONE", "LOAD", "EXTRACT", "SAVE_AS", "TEST"}
  BY <2>1, <1>4 DEF UserOn, Extraction
 <2>4. CASE act.type = "NONE"
  <3>1. w' = s BY <1>2, <2>4 DEF ExecBatchAction
  <3> QED BY <1>4, <1>5, <3>1, UserIsInv DEF Reaches, KeepsAsker
 <2>5. CASE act.type = "LOAD"
  <3>1. act.archive \in Archives BY <1>4, <2>1, <2>5 DEF UserOn, Extraction
  <3>4. act.archive = s.uri \/ NoDialog(s)
   <4>1. act.archive = s.uri \/ Kind[s.uri] = "absent" BY <1>4, <2>1, <2>5 DEF UserOn, Extraction
   <4>2. s.dialogs \cap {"install", "password"} # {} => Kind[s.uri] # "absent"
    BY <1>4 DEF UserOn, UserBase, Supported
   <4>3. s.dialogs \subseteq Dialogs /\ OneDialog(s) BY <1>4 DEF UserOn, TypeOK, UserBase
   <4> QED BY <1>4, <4>1, <4>2, <4>3 DEF NoDialog, OneDialog, Dialogs
  <3>2. CASE Exists(s, act.archive)
   <4> DEFINE u == [s EXCEPT !.meant = act.archive]
   <4>1. w' = ArchiveOpen(u, act.archive) BY <1>2, <2>5, <3>2 DEF ExecBatchAction
   <4>2. TypeOK(s) BY <1>4 DEF UserOn
   <4>3. TypeOK(u) BY <3>1, <4>2 DEF TypeOK, Fields, Names
   <4>4. Same(u, s, {"meant"}) BY <4>2 DEF TypeOK, Same, Fields
   <4> HIDE DEF u
   <4>5. Same(u, s, Aside) BY <4>4 DEF Same, Aside
   <4>6. UserOn(u) /\ WillBeWhole(u) BY <1>4, <4>3, <4>5, AsideUser
   <4>7. Reaches(ArchiveOpen(u, act.archive), u)
    BY <1>4, <3>1, <3>4, <4>4, <4>6, ArchiveOpenUser DEF Same, Fields, Under, NoDialog
   <4>8. u.asker = s.asker BY <4>4 DEF Same, Fields
   <4> QED BY <1>5, <4>1, <4>7, <4>8 DEF Reaches, KeepsAsker
  <3>3. CASE ~Exists(s, act.archive)
   <4>1. w' = ArchiveNew(s, act.archive) BY <1>2, <2>5, <3>3 DEF ExecBatchAction
   <4>2. Kind[act.archive] \in {"absent", "foreign"} BY <3>1, <3>3, ArchiveNewKind
   <4>3. Reaches(ArchiveNew(s, act.archive), s) BY <1>4, <3>1, <3>4, <4>2, ArchiveNewUser
   <4> QED BY <1>5, <4>1, <4>3 DEF Reaches, KeepsAsker
  <3> QED BY <3>2, <3>3
 <2>6. ASSUME act.type \in {"EXTRACT", "SAVE_AS", "TEST"}
       PROVE  /\ s.op = None /\ NoDialog(s) /\ ~s.installing /\ (s.present \/ s.meanwhile)
              /\ Kind[s.uri] # "unsupported" /\ Whole(s) /\ ~LoadOnly(s)
  <3>1. ~LoadOnly(w) BY <2>1, <2>6 DEF LoadOnly
  <3>2. w.op = None /\ NoDialog(w) /\ ~w.installing BY <1>6, <1>8, <3>1 DEF Alone
  <3>3. w.present \/ w.meanwhile BY <1>6, <1>8, <3>1 DEF OnShown, Pursued
  <3>4. Kind[w.uri] # "unsupported" BY <1>6, <3>1 DEF Supported
  <3>5. s.op = None /\ NoDialog(s) /\ ~s.installing /\ (s.present \/ s.meanwhile)
        /\ Kind[s.uri] # "unsupported" /\ ~LoadOnly(s)
   BY <1>4, <3>1, <3>2, <3>3, <3>4 DEF Same, Fields, NoDialog, LoadOnly
  <3> QED BY <1>4, <3>5 DEF WillBeWhole, Under
 <2>7. CASE act.type = "EXTRACT"
  <3>1. w' = ArchiveExtract(s, act, dir) BY <1>2, <2>7 DEF ExecBatchAction
  <3>2. act.dir \in {"unknown", dir} BY <1>2
  <3>3. Reaches(ArchiveExtract(s, act, dir), s)
   BY <1>4, <2>2, <2>6, <2>7, <3>2, ArchiveExtractUser
  <3> QED BY <1>5, <3>1, <3>3 DEF Reaches, KeepsAsker
 <2>8. CASE act.type = "SAVE_AS"
  <3>1. w' = SaveAs(s, ok) BY <1>2, <2>8 DEF ExecBatchAction
  <3>2. Reaches(SaveAs(s, ok), s) BY <1>4, <2>6, <2>8, SaveAsUser
  <3> QED BY <1>5, <3>1, <3>2 DEF Reaches, KeepsAsker
 <2>9. CASE act.type = "TEST"
  <3>1. w' = ArchiveTest(s) BY <1>2, <2>9 DEF ExecBatchAction
  <3>2. Reaches(ArchiveTest(s), s) BY <1>4, <2>6, <2>9, ArchiveTestUser
  <3> QED BY <1>5, <3>1, <3>2 DEF Reaches, KeepsAsker
 <2> QED BY <2>3, <2>4, <2>5, <2>7, <2>8, <2>9
<1> QED BY <1>1, <1>6, <1>7, <1>8 DEF TypeOK

----
(* What is under way ends, in a window of the user. *)

\* A window where an operation has ended, and nothing was done about it yet.
EndedOn(s) ==
    /\ UserOn(s) /\ s.op = None /\ s.todo = "nothing"
    /\ s.dialogs \cap {"extract", "overwrite", "new"} = {}
    /\ "password" \in s.dialogs => LoadOnly(s)
    /\ ~s.meanwhile => NoDialog(s) /\ ~s.installing
    /\ ~s.meanwhile /\ s.list = <<>> => s.converted = None

\* It has ended; what is known of what is shown is known of that operation.
LEMMA EndedUser ==
    ASSUME NEW s, UserOn(s), WillBeWhole(s), s.op # None, s.todo = "nothing"
    PROVE  LET t == [s EXCEPT !.op = None]
           IN  /\ EndedOn(t) /\ Same(t, s, {"op"})
               /\ Whole(t) \/ (s.op.action = "EXTRACTING" /\ t.current.type = "SAVE_AS")
               /\ (s.op.action \in {"LOADING", "LISTING"} /\ t.current.type = "LOAD")
                    \/ t.present \/ t.meanwhile
               /\ s.op.action \in {"EXTRACTING", "TESTING"} => NoDialog(t) /\ ~t.installing
               /\ s.op.action = "LISTING" => Kind[t.uri] # "unsupported"
               /\ s.op.action = "EXTRACTING" => t.current.type \in {"EXTRACT", "SAVE_AS"}
               /\ s.op.action = "TESTING" => t.current.type = "TEST"
<1> USE DEF UserOn, UserBase
<1> DEFINE t == [s EXCEPT !.op = None]
<1>1. TypeOK(t) BY DEF TypeOK, Fields
<1>2. Same(t, s, {"op"}) /\ t.op = None BY DEF TypeOK, Same, Fields
<1> HIDE DEF t
<1> USE <1>1, <1>2 DEF Same, Fields
<1>3. Goes(t) /\ Untold(t) /\ Users(t) /\ DropList(t) /\ Waits(t) /\ OneDialog(t)
 BY DEF Goes, Untold, Users, DropList, Waits, OneDialog
<1>4. Extraction(t) BY DEF Extraction, Asking, Replaces
<1>5. Alone(t) /\ OneThing(t) /\ Converts(t)
 BY DEF Alone, OneThing, Converts, Under, LoadOnly, NoDialog
<1>6. OnShown(t) BY DEF OnShown, Pursued, LoadOnly
<1>7. Noted(t) /\ Supported(t) /\ Asked(t)
 BY DEF Noted, Supported, Asked, AskerIsNoted, Under, LoadOnly
<1>8. UserOn(t) BY <1>3, <1>4, <1>5, <1>6, <1>7
<1>9. Whole(t) \/ (s.op.action = "EXTRACTING" /\ t.current.type = "SAVE_AS")
 BY DEF WillBeWhole, Whole, Under
<1>10. (s.op.action \in {"LOADING", "LISTING"} /\ t.current.type = "LOAD")
         \/ t.present \/ t.meanwhile
 BY DEF OnShown, Pursued
<1>11. /\ t.dialogs \cap {"extract", "overwrite", "new"} = {}
       /\ "password" \in t.dialogs => LoadOnly(t)
       /\ s.op.action \in {"EXTRACTING", "TESTING"} => NoDialog(t) /\ ~t.installing
 BY DEF Alone, LoadOnly, Under, NoDialog
<1>12. /\ ~t.meanwhile => NoDialog(t) /\ ~t.installing
       /\ ~t.meanwhile /\ t.list = <<>> => t.converted = None
 BY DEF OneThing, Converts, NoDialog
<1>13. /\ s.op.action = "LISTING" => Kind[t.uri] # "unsupported"
       /\ s.op.action = "EXTRACTING" => t.current.type \in {"EXTRACT", "SAVE_AS"}
       /\ s.op.action = "TESTING" => t.current.type = "TEST"
 BY DEF Supported, Noted, Under
<1> QED BY <1>8, <1>9, <1>10, <1>11, <1>12, <1>13 DEF EndedOn, t

LEMMA RecordUser ==
    ASSUME NEW s, UserOn(s), NEW action, NEW error
    PROVE  LET r == Record(s, action, error)
           IN  /\ UserOn(r) /\ Same(r, s, {"whole"}) /\ (Whole(s) => Whole(r))
               /\ action = "EXTRACTING" /\ error = "NONE" /\ s.current.type = "SAVE_AS" => Whole(r)
<1> USE DEF UserOn, UserBase
<1>1. CASE error # "NONE" \/ action \notin {"ADDING", "EXTRACTING"}
 <2>1. Record(s, action, error) = s BY <1>1 DEF Record
 <2> QED BY <1>1, <2>1 DEF Same
<1>2. CASE ~(error # "NONE" \/ action \notin {"ADDING", "EXTRACTING"})
 <2> DEFINE r == [s EXCEPT !.effects = IF s.batch_mode THEN @ \cup {<<s.batch_action, s.uri>>} ELSE @,
                           !.whole = @ \/ s.current.type = "SAVE_AS"]
 <2>1. Record(s, action, error) = r BY <1>2 DEF Record
 <2>2. ~s.batch_mode BY DEF Users
 <2>3. TypeOK(r) BY <2>2 DEF TypeOK, Fields
 <2>4. Same(r, s, {"whole"}) BY <2>2 DEF TypeOK, Same, Fields
 <2>5. r.whole = (s.whole \/ s.current.type = "SAVE_AS") BY DEF TypeOK, Fields
 <2> HIDE DEF r
 <2> USE <2>3, <2>4 DEF Same, Fields
 <2>6. Goes(r) /\ Untold(r) /\ Users(r) /\ DropList(r) /\ Waits(r) /\ OneDialog(r)
  BY DEF Goes, Untold, Users, DropList, Waits, OneDialog
 <2>7. Extraction(r) BY DEF Extraction, Asking, Replaces
 <2>8. Alone(r) /\ OneThing(r) /\ Converts(r)
  BY DEF Alone, OneThing, Converts, Under, LoadOnly, NoDialog
 <2>9. OnShown(r) BY DEF OnShown, Pursued, LoadOnly
 <2>10. Noted(r) /\ Supported(r) /\ Asked(r)
  BY DEF Noted, Supported, Asked, AskerIsNoted, Under, LoadOnly
 <2>11. s.whole \/ s.current.type = "SAVE_AS" => r.whole BY <2>5
 <2>12. r.converted # None => r.whole \/ r.left BY <2>11
 <2>13. (Whole(s) => Whole(r)) /\ (s.current.type = "SAVE_AS" => Whole(r)) BY <2>11 DEF Whole
 <2> QED BY <2>1, <2>4, <2>6, <2>7, <2>8, <2>9, <2>10, <2>12, <2>13
<1> QED BY <1>1, <1>2

\* Closing the archive and telling of it leaves nothing that was begun.
LEMMA EndedKept ==
    ASSUME NEW s, EndedOn(s), NEW t, UserOn(t),
           Same(t, s, Aside \cup {"dialogs", "whole", "present"}),
           t.dialogs \in {s.dialogs, s.dialogs \cup {"error"}}
    PROVE  EndedOn(t) /\ t.asker = s.asker
<1> USE DEF EndedOn, Same, Fields, Aside
<1>1. NoDialog(s) => NoDialog(t) BY DEF NoDialog
<1>2. LoadOnly(s) => LoadOnly(t) BY DEF LoadOnly
<1> QED BY <1>1, <1>2

LEMMA EndedClose ==
    ASSUME NEW s, EndedOn(s)
    PROVE  EndedOn(Close(s)) /\ Same(Close(s), s, {"present", "new", "password"})
<1>1. ~s.meanwhile => ~Pursued(s) /\ s.asker = "nothing"
 BY DEF EndedOn, UserOn, UserBase, Waits, Pursued, NoDialog
<1>2. LET t == Close(s) IN UserOn(t) /\ Same(t, s, {"present", "new", "password"}) /\ ~t.present
 BY <1>1, CloseUser DEF EndedOn
<1>3. Same(Close(s), s, Aside \cup {"dialogs", "whole", "present"})
      /\ Close(s).dialogs = s.dialogs
 BY <1>2 DEF Same, Aside, Fields
<1> QED BY <1>2, <1>3, EndedKept

LEMMA EndedError ==
    ASSUME NEW s, EndedOn(s)
    PROVE  LET t == ShowError(s)
           IN  /\ EndedOn(t) /\ Same(t, s, {"dialogs", "showing_error_dialog"})
               /\ (NoDialog(s) => NoDialog(t))
<1> DEFINE t == ShowError(s)
<1>1. /\ UserOn(t) /\ Same(t, s, {"dialogs", "showing_error_dialog"})
      /\ t.dialogs = s.dialogs \cup {"error"}
 BY ShowErrorUser DEF EndedOn
<1> HIDE DEF t
<1>2. Same(t, s, Aside \cup {"dialogs", "whole", "present"}) BY <1>1 DEF Same, Aside, Fields
<1> QED BY <1>1, <1>2, EndedKept DEF NoDialog, t

LEMMA HandledIs ==
    ASSUME NEW s, NEW action, NEW error \in {"NONE", "GENERIC", "STOPPED"}
    PROVE  HandleErrors(s, action, error) =
             IF error # "GENERIC" THEN s
             ELSE ShowError(IF action \in {"LISTING", "LOADING"} THEN Close(s) ELSE s)
BY DEF HandleErrors

\* The error is shown, of an archive that is then closed if it could not be listed.
LEMMA HandledUser ==
    ASSUME NEW s, EndedOn(s), NEW action, NEW error \in {"NONE", "GENERIC", "STOPPED"}
    PROVE  LET h == HandleErrors(s, action, error)
           IN  /\ EndedOn(h) /\ h.alive /\ ~h.batch_mode /\ ~h.non_interactive
               /\ Same(h, s, {"dialogs", "showing_error_dialog", "present", "new", "password"})
               /\ action \notin {"LISTING", "LOADING"} => h.present = s.present
               /\ NoDialog(s) => NoDialog(h)
               /\ error # "GENERIC" => h = s
<1> DEFINE h == HandleErrors(s, action, error)
           c == IF action \in {"LISTING", "LOADING"} THEN Close(s) ELSE s
           e == ShowError(c)
<1>1. h = IF error # "GENERIC" THEN s ELSE e BY HandledIs
<1>2. EndedOn(c) /\ Same(c, s, {"present", "new", "password"}) BY EndedClose DEF Same
<1>3. action \notin {"LISTING", "LOADING"} => c = s OBVIOUS
<1> HIDE DEF c
<1>4. EndedOn(e) /\ Same(e, c, {"dialogs", "showing_error_dialog"}) /\ (NoDialog(c) => NoDialog(e))
 BY <1>2, EndedError
<1> HIDE DEF e, h
<1>5. EndedOn(h) BY <1>1, <1>4
<1>6. h.alive /\ ~h.batch_mode /\ ~h.non_interactive
 BY <1>5 DEF EndedOn, UserOn, Goes, UserBase, Users
<1>7. Same(h, s, {"dialogs", "showing_error_dialog", "present", "new", "password"})
 BY <1>1, <1>2, <1>4 DEF Same
<1>8. /\ action \notin {"LISTING", "LOADING"} => h.present = s.present
      /\ NoDialog(s) => NoDialog(h)
 BY <1>1, <1>2, <1>3, <1>4 DEF Same, Fields, NoDialog
<1> QED BY <1>1, <1>5, <1>6, <1>7, <1>8 DEF h

LEMMA EndedReaches ==
    ASSUME NEW s, NEW t, EndedOn(t), Whole(t), t.asker = s.asker
    PROVE  Reaches(t, s)
BY UserIsInv DEF EndedOn, WillBeWhole, Reaches, KeepsAsker

LEMMA EndedNext ==
    ASSUME NEW s, NEW t, EndedOn(t), Whole(t), t.asker = s.asker, ~t.meanwhile => t.present
    PROVE  Reaches(ExecNext(t), s)
<1> DEFINE n == ExecNext(t)
<1>1. UserOn(n) /\ Same(n, t, {"batch_action", "todo", "batch_mode"})
 BY ExecNextUser DEF EndedOn, Under
<1> HIDE DEF n
<1>2. WillBeWhole(n) /\ n.asker = s.asker BY <1>1 DEF WillBeWhole, Whole, Same, Fields
<1> QED BY <1>1, <1>2, UserIsInv DEF Reaches, KeepsAsker, n

LEMMA EndedReload ==
    ASSUME NEW s, NEW t, EndedOn(t), Whole(t), t.asker = s.asker, t.present \/ t.meanwhile
    PROVE  Reaches(Reload(t), s)
<1> QED BY ReloadUser DEF EndedOn, WillBeWhole, Reaches, KeepsAsker

LEMMA DoneListingUser ==
    ASSUME NEW s, EndedOn(s), Whole(s), NEW error \in {"NONE", "GENERIC", "STOPPED"},
           Kind[s.uri] # "unsupported"
    PROVE  Reaches(Done(s, "LISTING", error), s)
<1> DEFINE h == HandleErrors(s, "LISTING", error)
<1>1. /\ EndedOn(h) /\ h.alive /\ ~h.batch_mode /\ ~h.non_interactive
      /\ Same(h, s, {"dialogs", "showing_error_dialog", "present", "new", "password"})
 BY HandledUser
<1>2. Done(s, "LISTING", error) = ListingDone(h, error) BY <1>1 DEF Done
<1>3. Whole(h) BY <1>1 DEF Whole, Same, Fields
<1> HIDE DEF h
<1>4. CASE error = "NONE"
 <2> DEFINE new == h.new /\ h.present
            shown == h.shown \/ (h.non_interactive /\ ~h.batch_mode)
            u == [h EXCEPT !.new = new, !.present = TRUE, !.shown = shown]
 <2>1. TypeOK(h) /\ h.shown BY <1>1 DEF EndedOn, UserOn, UserBase, Users
 <2>2. new \in BOOLEAN /\ shown = TRUE BY <2>1 DEF TypeOK
 <2>3. Done(s, "LISTING", error) = ExecNext(u) BY <1>2, <1>4 DEF ListingDone, Continue
 <2> HIDE DEF new, shown
 <2>4. TypeOK(u) BY <2>1, <2>2 DEF TypeOK, Fields
 <2>5. Same(u, h, {"new", "present"}) /\ u.present BY <2>1, <2>2 DEF TypeOK, Same, Fields
 <2> HIDE DEF u
 <2>6. UserOn(u)
  <3> USE <1>1, <2>4, <2>5 DEF EndedOn, UserOn, UserBase, Same, Fields
  <3>1. Goes(u) /\ Untold(u) /\ Users(u) /\ DropList(u) /\ Waits(u) /\ OneDialog(u)
   BY DEF Goes, Untold, Users, DropList, Waits, OneDialog
  <3>2. Extraction(u) BY DEF Extraction, Asking, Replaces
  <3>3. Alone(u) /\ OneThing(u) /\ Converts(u)
   BY DEF Alone, OneThing, Converts, Under, LoadOnly, NoDialog
  <3>4. OnShown(u) BY DEF OnShown
  <3>5. Noted(u) /\ Supported(u) /\ Asked(u)
   BY DEF Noted, Supported, Asked, AskerIsNoted, Under, LoadOnly
  <3> QED BY <3>1, <3>2, <3>3, <3>4, <3>5
 <2>7. Same(u, h, Aside \cup {"dialogs", "whole", "present"}) /\ u.dialogs = h.dialogs
  BY <2>5 DEF Same, Fields, Aside
 <2>8. EndedOn(u) /\ u.asker = h.asker BY <1>1, <2>6, <2>7, EndedKept
 <2>9. Whole(u) /\ u.asker = s.asker BY <1>1, <1>3, <2>5 DEF Whole, Same, Fields
 <2> QED BY <2>3, <2>5, <2>8, <2>9, EndedNext
<1>5. CASE error # "NONE"
 <2> DEFINE c == Close(h)
            u == [c EXCEPT !.password = FALSE]
 <2>1. EndedOn(c) /\ Same(c, h, {"present", "new", "password"}) BY <1>1, EndedClose
 <2>2. Done(s, "LISTING", error) = Continue(u, error) BY <1>2, <1>5 DEF ListingDone
 <2> HIDE DEF c
 <2>3. TypeOK(c) BY <2>1 DEF EndedOn, UserOn
 <2>4. TypeOK(u) BY <2>3 DEF TypeOK, Fields
 <2>5. Same(u, c, {"password"}) BY <2>3 DEF TypeOK, Same, Fields
 <2> HIDE DEF u
 <2>6. Same(u, c, Aside) BY <2>5 DEF Same, Aside
 <2>7. UserOn(u) BY <2>1, <2>4, <2>6, AsideUser DEF EndedOn
 <2>8. Same(u, c, Aside \cup {"dialogs", "whole", "present"}) /\ u.dialogs = c.dialogs
  BY <2>5 DEF Same, Fields, Aside
 <2>9. EndedOn(u) BY <2>1, <2>7, <2>8, EndedKept
 <2>10. Whole(u) /\ u.asker = s.asker BY <1>1, <1>3, <2>1, <2>5 DEF Whole, Same, Fields
 <2>11. Continue(u, error) = u BY <1>5, <2>7 DEF Continue, StopBatch, UserOn, UserBase, Users
 <2>12. Continue(u, error) = u BY <1>5, <2>11
 <2> QED BY <2>2, <2>9, <2>10, <2>12, EndedReaches
<1> QED BY <1>4, <1>5

\* How an archive that was added to is known.
LEMMA DoneAddingUser ==
    ASSUME NEW s, EndedOn(s), Whole(s), NEW error \in {"NONE", "GENERIC", "STOPPED"},
           s.present \/ s.meanwhile
    PROVE  Reaches(Done(s, "ADDING", error), s)
<1> DEFINE h == HandleErrors(s, "ADDING", error)
           u == IF error = "NONE"
                THEN [h EXCEPT !.new = FALSE, !.meant = None,
                               !.saved = IF h.new THEN @ \cup {h.uri} ELSE @] ELSE h
<1>1. /\ EndedOn(h) /\ h.alive /\ ~h.batch_mode /\ ~h.non_interactive
      /\ Same(h, s, {"dialogs", "showing_error_dialog", "present", "new", "password"})
      /\ h.present = s.present /\ (error # "GENERIC" => h = s)
 BY HandledUser
<1>2. Done(s, "ADDING", error) = AddingDone(h, error) BY <1>1 DEF Done
<1>3. AddingDone(h, error) = Reload(u) BY <1>1 DEF AddingDone, EndedOn, UserOn, TypeOK, Fields
<1>4. TypeOK(h) BY <1>1 DEF EndedOn, UserOn
<1>5. Whole(h) /\ h.asker = s.asker /\ (h.present \/ h.meanwhile) BY <1>1 DEF Whole, Same, Fields
<1> HIDE DEF h
<1>6. TypeOK(u)
 <2>1. CASE error = "NONE"
  <3>1. (IF h.new THEN h.saved \cup {h.uri} ELSE h.saved) \in SUBSET Names BY <1>4 DEF TypeOK
  <3> QED BY <1>4, <2>1, <3>1 DEF TypeOK, Fields, Names
 <2>2. CASE error # "NONE" BY <1>4, <2>2
 <2> QED BY <2>1, <2>2
<1>7. Same(u, h, {"new", "meant", "saved"}) BY <1>4 DEF TypeOK, Same, Fields
<1> HIDE DEF u
<1>8. Same(u, h, Aside) /\ Same(u, h, Aside \cup {"dialogs", "whole", "present"})
      /\ u.dialogs = h.dialogs
 BY <1>7 DEF Same, Fields, Aside
<1>9. UserOn(u) /\ Whole(u) BY <1>1, <1>5, <1>6, <1>8, AsideUser DEF EndedOn
<1>10. EndedOn(u) /\ u.asker = s.asker BY <1>1, <1>5, <1>8, <1>9, EndedKept
<1>11. u.present \/ u.meanwhile BY <1>5, <1>7 DEF Same, Fields
<1> QED BY <1>2, <1>3, <1>9, <1>10, <1>11, EndedReload

LEMMA DoneDeletingUser ==
    ASSUME NEW s, EndedOn(s), Whole(s), NEW error \in {"NONE", "GENERIC", "STOPPED"},
           s.present \/ s.meanwhile
    PROVE  Reaches(Done(s, "DELETING", error), s)
<1> DEFINE h == HandleErrors(s, "DELETING", error)
<1>1. /\ EndedOn(h) /\ h.alive
      /\ Same(h, s, {"dialogs", "showing_error_dialog", "present", "new", "password"})
      /\ h.present = s.present
 BY HandledUser
<1>2. Done(s, "DELETING", error) = Reload(h) BY <1>1 DEF Done
<1>3. Whole(h) /\ h.asker = s.asker /\ (h.present \/ h.meanwhile) BY <1>1 DEF Whole, Same, Fields
<1> HIDE DEF h
<1> QED BY <1>1, <1>2, <1>3, EndedReload

LEMMA DoneTestingUser ==
    ASSUME NEW s, EndedOn(s), Whole(s), NEW error \in {"NONE", "GENERIC", "STOPPED"},
           NEW action \in {"TESTING", "GETTING_FILE_LIST"}
    PROVE  LET t == Done(s, action, error)
           IN  /\ EndedOn(t) /\ Whole(t)
               /\ Same(t, s, {"dialogs", "showing_error_dialog", "present", "new", "password"})
               /\ (error # "GENERIC" => t = s)
<1> DEFINE h == HandleErrors(s, action, error)
<1>1. /\ EndedOn(h) /\ h.alive /\ (error # "GENERIC" => h = s)
      /\ Same(h, s, {"dialogs", "showing_error_dialog", "present", "new", "password"})
 BY HandledUser
<1>2. Done(s, action, error) = h BY <1>1 DEF Done
<1>3. Whole(h) BY <1>1 DEF Whole, Same, Fields
<1> HIDE DEF h
<1> QED BY <1>1, <1>2, <1>3

LEMMA DoneExtractingUser ==
    ASSUME NEW s, EndedOn(s), NEW error \in {"NONE", "GENERIC", "STOPPED"},
           error = "NONE" => Whole(s), Whole(s) \/ s.converting, s.present \/ s.meanwhile,
           NoDialog(s), ~s.installing
    PROVE  Reaches(Done(s, "EXTRACTING", error), s)
<1> DEFINE h == HandleErrors(s, "EXTRACTING", error)
<1>1. /\ EndedOn(h) /\ h.alive /\ ~h.non_interactive
      /\ Same(h, s, {"dialogs", "showing_error_dialog", "present", "new", "password"})
      /\ h.present = s.present /\ (error # "GENERIC" => h = s)
 BY HandledUser
<1>2. Done(s, "EXTRACTING", error) = ExtractingDone(h, error) BY <1>1 DEF Done
<1>3. /\ (Whole(s) => Whole(h)) /\ h.asker = s.asker /\ (h.present \/ h.meanwhile)
      /\ h.converting = s.converting
 BY <1>1 DEF Whole, Same, Fields
<1> HIDE DEF h
<1>4. CASE error = "NONE"
 <2> DEFINE u == IF h.converting THEN [h EXCEPT !.converted = "GETTING_FILE_LIST"] ELSE h
 <2>1. Done(s, "EXTRACTING", error) = ExecNext(u) BY <1>2, <1>4 DEF ExtractingDone, Continue
 <2>2. TypeOK(h) BY <1>1 DEF EndedOn, UserOn
 <2>3. TypeOK(u) BY <2>2 DEF TypeOK, Fields
 <2>4. Same(u, h, {"converted"}) /\ (u.converted = h.converted \/ u.converting)
  BY <2>2 DEF TypeOK, Same, Fields
 <2>5. Whole(u) BY <1>3, <1>4, <2>4 DEF Whole, Same, Fields
 <2> HIDE DEF u
 <2> USE <1>1, <2>3, <2>4 DEF EndedOn, UserOn, UserBase, Same, Fields
 <2>6. Goes(u) /\ Untold(u) /\ Users(u) /\ DropList(u) /\ Waits(u) /\ OneDialog(u)
  BY DEF Goes, Untold, Users, DropList, Waits, OneDialog
 <2>7. Extraction(u) BY DEF Extraction, Asking, Replaces
 <2>8. Alone(u) /\ OneThing(u) BY DEF Alone, OneThing, Under, LoadOnly, NoDialog
 <2>9. Converts(u) BY DEF Converts, NoDialog
 <2>10. OnShown(u) BY DEF OnShown, Pursued, LoadOnly
 <2>11. Noted(u) /\ Supported(u) /\ Asked(u)
  BY DEF Noted, Supported, Asked, AskerIsNoted, Under, LoadOnly
 <2>12. u.converted # None => u.whole \/ u.left BY <2>5 DEF Whole
 <2>13. UserOn(u) BY <2>6, <2>7, <2>8, <2>9, <2>10, <2>11, <2>12
 <2>14. /\ u.todo = "nothing" /\ ~Under(u, {"EXTRACTING", "TESTING"})
        /\ u.dialogs \cap {"extract", "overwrite", "new"} = {}
        /\ ("password" \in u.dialogs => LoadOnly(u))
        /\ (~u.meanwhile => u.op = None /\ NoDialog(u) /\ ~u.installing /\ u.present)
  BY <1>3 DEF Under, LoadOnly, NoDialog
 <2> DEFINE n == ExecNext(u)
 <2>15. UserOn(n) /\ Same(n, u, {"batch_action", "todo", "batch_mode"})
  BY <2>13, <2>14, ExecNextUser
 <2> HIDE DEF n
 <2>16. WillBeWhole(n) /\ n.asker = s.asker BY <1>3, <2>5, <2>15 DEF WillBeWhole, Whole
 <2> QED BY <2>1, <2>15, <2>16, UserIsInv DEF Reaches, KeepsAsker, n
<1>5. CASE error # "NONE"
 <2> DEFINE u == IF h.converting THEN ConvertDataFree(h) ELSE h
 <2>1. Done(s, "EXTRACTING", error) = Continue(u, error) BY <1>2, <1>5 DEF ExtractingDone
 <2>2. Users(h) /\ UserOn(h) /\ TypeOK(h) BY <1>1 DEF EndedOn, UserOn, UserBase
 <2>3. CASE ~h.converting
  <3>1. u = h BY <2>3
  <3>2. Continue(h, error) = h BY <1>5, <2>2 DEF Continue, StopBatch, Users
  <3>3. Whole(h) BY <2>3 DEF Whole
  <3> QED BY <1>1, <1>3, <2>1, <3>1, <3>2, <3>3, EndedReaches
 <2>4. CASE h.converting
  <3> DEFINE t == ConvertDataFree(h)
  <3>1. u = t BY <2>4
  <3>2. /\ TypeOK(t) /\ Same(t, h, {"converting", "converted", "whole", "left", "orphaned"})
        /\ t.converted = None /\ t.orphaned = IF h.converted = None THEN h.orphaned ELSE "replaced"
   BY <2>2, ConvertDataFreeTyped
  <3>3. CASE h.converted = None
   <4>1. UserOn(t) /\ Whole(t) BY <2>2, <3>3, ConvertDataFreeUser
   <4> HIDE DEF t, u
   <4>2. ~t.non_interactive /\ ~t.use_default_dir /\ TypeOK(t)
    BY <4>1 DEF UserOn, UserBase, Users
   <4>4. WillBeWhole(t) /\ t.asker = s.asker BY <1>3, <3>2, <4>1 DEF WillBeWhole, Same, Fields
   <4>5. Continue(t, error) = t BY <1>5, <4>2 DEF Continue, StopBatch
   <4> QED BY <2>1, <3>1, <4>1, <4>4, <4>5, UserIsInv DEF Reaches, KeepsAsker
  <3>4. CASE h.converted # None
   <4> HIDE DEF t, u
   <4>1. t.orphaned = "replaced" /\ (h.meanwhile \/ h.list # <<>>)
    BY <1>1, <3>2, <3>4 DEF EndedOn
   <4>2. ~t.non_interactive BY <2>2, <3>2 DEF Users, Same, Fields
   <4>3. Continue(t, error) = t BY <1>5, <4>2 DEF Continue, StopBatch
   <4>4. Same(t, h, {"converting", "converted", "whole", "left", "orphaned", "current"})
    BY <3>2 DEF Same
   <4>5. h.op = None BY <1>1 DEF EndedOn
   <4>6. Reaches(t, h) BY <2>2, <3>2, <4>1, <4>4, <4>5, OrphanedUser
   <4> QED BY <1>3, <2>1, <3>1, <4>3, <4>6 DEF Reaches, KeepsAsker
  <3> QED BY <3>3, <3>4
 <2> QED BY <2>3, <2>4
<1> QED BY <1>4, <1>5

\* A password is asked for, and whatever asked for it is known.
LEMMA DoneAskingUser ==
    ASSUME NEW s, EndedOn(s), NEW action \in Actions, Kind[s.uri] = "encrypted",
           (action = "LISTING" /\ s.current.type = "LOAD") \/ s.present \/ s.meanwhile,
           AskerIsNoted(s, action)
    PROVE  Reaches(Done(s, action, "ASK_PASSWORD"), s)
<1> DEFINE t == AskPassword(s, action)
<1>1. HandleErrors(s, action, "ASK_PASSWORD") = t BY DEF HandleErrors
<1>2. action \in Askers /\ action # "nothing" BY DEF Actions, Askers
<1>3. s.dialogs \subseteq {"password", "error"}
 <2>1. "install" \notin s.dialogs BY DEF EndedOn, UserOn, UserBase, Supported
 <2>2. s.dialogs \subseteq Dialogs /\ OneDialog(s) BY DEF EndedOn, UserOn, TypeOK, UserBase
 <2> QED BY <2>1, <2>2 DEF EndedOn, OneDialog, Dialogs
<1>4. Reaches(t, s) BY <1>2, <1>3, AskPasswordUser DEF EndedOn, LoadOnly
<1>5. s.alive /\ TypeOK(s) BY DEF EndedOn, UserOn, Goes
<1>6. t.alive BY <1>2, <1>5, AskPasswordTyped DEF Same, Fields
<1> HIDE DEF t
<1>7. Done(s, action, "ASK_PASSWORD") = t BY <1>1, <1>6 DEF Done
<1> QED BY <1>4, <1>7

LEMMA OperationEndsUser ==
    ASSUME Inv(w), UserSound(w), OperationEnds
    PROVE  Reaches(w', w)
<1> DEFINE action == w.op.action
           s == [w EXCEPT !.op = None]
<1>1. Sound /\ w.todo = "nothing" /\ w.op # None /\ action \notin {"LOADING", "GETTING_FILE_LIST"}
 BY DEF OperationEnds, Idle
<1>2. UserOn(w) /\ WillBeWhole(w) BY <1>1, UserGoes
<1>3. PICK error \in Errors(w.op) : w' = Done(Record(s, action, error), action, error)
 BY DEF OperationEnds
<1>4. /\ EndedOn(s) /\ Same(s, w, {"op"})
      /\ Whole(s) \/ (action = "EXTRACTING" /\ s.current.type = "SAVE_AS")
      /\ (action \in {"LOADING", "LISTING"} /\ s.current.type = "LOAD") \/ s.present \/ s.meanwhile
      /\ action \in {"EXTRACTING", "TESTING"} => NoDialog(s) /\ ~s.installing
      /\ action = "LISTING" => Kind[s.uri] # "unsupported"
      /\ action = "EXTRACTING" => s.current.type \in {"EXTRACT", "SAVE_AS"}
      /\ action = "TESTING" => s.current.type = "TEST"
 BY <1>1, <1>2, EndedUser
<1>5. action \in Actions BY <1>1, <1>2 DEF UserOn, TypeOK, Ops
<1>6. /\ error \in {"NONE", "GENERIC", "STOPPED", "ASK_PASSWORD"}
      /\ error = "ASK_PASSWORD" => Kind[s.uri] = "encrypted"
 <2> QED BY <1>4 DEF Same, Fields, Errors
<1> HIDE DEF s, action
<1> DEFINE r == Record(s, action, error)
<1>7. /\ UserOn(r) /\ Same(r, s, {"whole"}) /\ (Whole(s) => Whole(r))
      /\ action = "EXTRACTING" /\ error = "NONE" /\ s.current.type = "SAVE_AS" => Whole(r)
 BY <1>4, RecordUser DEF EndedOn
<1>8. EndedOn(r) /\ r.asker = s.asker
 <2>1. Same(r, s, Aside \cup {"dialogs", "whole", "present"}) /\ r.dialogs = s.dialogs
  BY <1>7 DEF Same, Fields
 <2> QED BY <1>4, <1>7, <2>1, EndedKept
<1> HIDE DEF r
<1>9. /\ (action \in {"LOADING", "LISTING"} /\ r.current.type = "LOAD") \/ r.present \/ r.meanwhile
      /\ action \in {"EXTRACTING", "TESTING"} => NoDialog(r) /\ ~r.installing
      /\ r.uri = s.uri /\ r.current = s.current /\ r.asker = w.asker
 BY <1>4, <1>7 DEF Same, Fields, NoDialog
<1>10. action # "EXTRACTING" => Whole(r) BY <1>4, <1>7
<1>11. Reaches(Done(r, action, error), r)
 <2>1. CASE error = "ASK_PASSWORD"
  <3>1. AskerIsNoted(r, action)
   BY <1>1, <1>4, <1>5, <1>9 DEF action, AskerIsNoted, AskedBy, Actions
  <3>2. (action = "LISTING" /\ r.current.type = "LOAD") \/ r.present \/ r.meanwhile
   BY <1>1, <1>9 DEF action
  <3> QED BY <1>5, <1>6, <1>8, <1>9, <2>1, <3>1, <3>2, DoneAskingUser
 <2>2. CASE error # "ASK_PASSWORD"
  <3>1. error \in {"NONE", "GENERIC", "STOPPED"} BY <1>6, <2>2
  <3>2. CASE action = "LISTING" BY <1>4, <1>8, <1>9, <1>10, <3>1, <3>2, DoneListingUser
  <3>3. CASE action = "ADDING" BY <1>8, <1>9, <1>10, <3>1, <3>3, DoneAddingUser
  <3>4. CASE action = "DELETING" BY <1>8, <1>9, <1>10, <3>1, <3>4, DoneDeletingUser
  <3>5. CASE action = "TESTING"
   <4> DEFINE t == Done(r, action, error)
   <4> QED BY <1>8, <1>10, <3>1, <3>5, DoneTestingUser, EndedReaches DEF Same, Fields
  <3>6. CASE action = "EXTRACTING"
   <4>1. error = "NONE" => Whole(r) BY <1>4, <1>7, <3>6
   <4>2. Whole(r) \/ r.converting BY DEF Whole
   <4>3. r.present \/ r.meanwhile BY <1>9, <3>6
   <4> QED BY <1>8, <1>9, <3>1, <3>6, <4>1, <4>2, <4>3, DoneExtractingUser
  <3> QED BY <1>1, <1>5, <3>2, <3>3, <3>4, <3>5, <3>6 DEF action, Actions
 <2> QED BY <2>1, <2>2
<1> QED BY <1>3, <1>9, <1>11 DEF Reaches, KeepsAsker, r

\* A package is searched for.
LEMMA InstallUser ==
    ASSUME NEW s, EndedOn(s), Whole(s), Kind[s.uri] = "unsupported",
           s.current.type = "LOAD" \/ s.meanwhile
    PROVE  Reaches([Show(s, "install") EXCEPT !.asker = "LOADING"], s)
<1> DEFINE u == Show(s, "install")
           t == [u EXCEPT !.asker = "LOADING"]
<1>1. LoadOnly(s) /\ "password" \notin s.dialogs BY DEF EndedOn, UserOn, UserBase, Supported
<1>2. s.dialogs \subseteq {"install", "error"}
 <2>1. s.dialogs \subseteq Dialogs /\ OneDialog(s) BY DEF EndedOn, UserOn, TypeOK, UserBase
 <2> QED BY <1>1, <2>1 DEF EndedOn, OneDialog, Dialogs
<1>3. UserOn(u) /\ Same(u, s, {"dialogs"}) BY <1>1, <1>2, ShowUser DEF EndedOn
<1>4. u.dialogs = s.dialogs \cup {"install"} BY ShowTyped DEF EndedOn, UserOn, Dialogs
<1> HIDE DEF u
<1>5. TypeOK(u) BY <1>3 DEF UserOn
<1>6. TypeOK(t) BY <1>5 DEF TypeOK, Fields, Askers, Actions
<1>7. Same(t, u, {"asker"}) /\ t.asker = "LOADING" BY <1>5 DEF TypeOK, Same, Fields
<1> HIDE DEF t
<1> USE <1>3, <1>4, <1>6, <1>7 DEF UserOn, UserBase, Same, Fields
<1>8. Goes(t) /\ Untold(t) /\ Users(t) /\ DropList(t) /\ Waits(t) /\ OneDialog(t)
 BY DEF Goes, Untold, Users, DropList, Waits, OneDialog
<1>9. Extraction(t) BY DEF Extraction, Asking, Replaces
<1>10. Alone(t) /\ OneThing(t) /\ Converts(t)
 BY DEF Alone, OneThing, Converts, Under, LoadOnly, NoDialog
<1>11. OnShown(t) BY DEF OnShown, Pursued, LoadOnly
<1>12. Noted(t) /\ Supported(t) BY DEF Noted, Supported, Under, LoadOnly
<1>13. Asked(t) BY DEF Asked, AskerIsNoted, AskedBy
<1> QED
 BY <1>8, <1>9, <1>10, <1>11, <1>12, <1>13, UserIsInv DEF WillBeWhole, Whole, Reaches, KeepsAsker,
    t, u

LEMMA DoneLoadingUser ==
    ASSUME NEW s, EndedOn(s), Whole(s), NEW error \in {"NONE", "GENERIC", "STOPPED"}
    PROVE  LET t == Done(s, "LOADING", error)
           IN  EndedOn(t) /\ Whole(t) /\ t.asker = s.asker /\ (error = "NONE" => t = s)
<1> DEFINE h == HandleErrors(s, "LOADING", error)
<1>1. /\ EndedOn(h) /\ h.alive /\ (error # "GENERIC" => h = s) /\ ~h.non_interactive
      /\ Same(h, s, {"dialogs", "showing_error_dialog", "present", "new", "password"})
 BY HandledUser
<1>2. Done(s, "LOADING", error) = h BY <1>1 DEF Done, LoadingDone
<1>3. Whole(h) /\ h.asker = s.asker BY <1>1 DEF Whole, Same, Fields
<1> HIDE DEF h
<1> QED BY <1>1, <1>2, <1>3

LEMMA LoadEndsUser ==
    ASSUME Inv(w), UserSound(w), LoadEnds
    PROVE  Reaches(w', w)
<1> DEFINE s == [w EXCEPT !.op = None]
           op == Op("LISTING")
<1>1. Sound /\ w.todo = "nothing" /\ w.op # None /\ w.op.action = "LOADING" BY DEF LoadEnds, Idle
<1>2. UserOn(w) /\ WillBeWhole(w) BY <1>1, UserGoes
<1>3. /\ EndedOn(s) /\ Same(s, w, {"op"}) /\ Whole(s)
      /\ s.current.type = "LOAD" \/ s.present \/ s.meanwhile
 BY <1>1, <1>2, EndedUser
<1>4. s.asker = w.asker /\ s.uri = w.uri BY <1>3 DEF Same, Fields
<1>5. \/ Kind[w.uri] # "unsupported" /\ w' = Start(Done(s, "LOADING", "NONE"), op)
      \/ w' = Done(s, "LOADING", "GENERIC")
      \/ Kind[w.uri] = "unsupported"
         /\ w' \in {UnsupportedDone(s), [Show(s, "install") EXCEPT !.asker = "LOADING"]}
 BY DEF LoadEnds
<1> HIDE DEF s, op
<1>6. CASE Kind[w.uri] # "unsupported" /\ w' = Start(Done(s, "LOADING", "NONE"), op)
 <2>1. Done(s, "LOADING", "NONE") = s BY <1>3, DoneLoadingUser
 <2>2. op \in Ops /\ op.action = "LISTING" BY OpTyped DEF op, Op, Actions
 <2>3. op.files = <<>> /\ op.unasked = FALSE BY DEF op, Op
 <2>4. Reaches(Start(s, op), s) BY <1>3, <1>4, <1>6, <2>2, <2>3, StartUser DEF EndedOn
 <2> QED BY <1>4, <1>6, <2>1, <2>4 DEF Reaches, KeepsAsker
<1>7. ASSUME NEW t, t = Done(s, "LOADING", "GENERIC") PROVE Reaches(t, w)
 <2>1. EndedOn(t) /\ Whole(t) /\ t.asker = s.asker BY <1>3, <1>7, DoneLoadingUser
 <2> QED BY <1>4, <2>1, EndedReaches
<1>8. CASE w' = Done(s, "LOADING", "GENERIC") BY <1>7, <1>8
<1>9. CASE Kind[w.uri] = "unsupported" /\ w' = UnsupportedDone(s)
 <2> DEFINE t == Done(s, "LOADING", "GENERIC")
 <2>1. EndedOn(t) BY <1>3, DoneLoadingUser
 <2>2. ~t.non_interactive BY <2>1 DEF EndedOn, UserOn, UserBase, Users
 <2>3. LoadingDone(t, "GENERIC") = t BY <2>2 DEF LoadingDone
 <2> QED BY <1>7, <1>9, <2>3 DEF UnsupportedDone
<1>10. CASE Kind[w.uri] = "unsupported" /\ w' = [Show(s, "install") EXCEPT !.asker = "LOADING"]
 <2>1. ~s.present BY <1>3, <1>4, <1>10 DEF EndedOn, UserOn, UserBase, Supported
 <2>2. Reaches(w', s) BY <1>3, <1>4, <1>10, <2>1, InstallUser
 <2> QED BY <1>4, <2>2 DEF Reaches, KeepsAsker
<1> QED BY <1>5, <1>6, <1>8, <1>9, <1>10

LEMMA FileListEndsUser ==
    ASSUME Inv(w), UserSound(w), FileListEnds
    PROVE  Reaches(w', w)
<1> DEFINE s == [w EXCEPT !.op = None]
           op == [w.op EXCEPT !.action = "ADDING"]
           none == Done(s, "GETTING_FILE_LIST", "NONE")
           failed == Done(s, "GETTING_FILE_LIST", "GENERIC")
<1>1. Sound /\ w.todo = "nothing" /\ w.op # None /\ w.op.action = "GETTING_FILE_LIST"
 BY DEF FileListEnds, Idle
<1>2. UserOn(w) /\ WillBeWhole(w) BY <1>1, UserGoes
<1>3. /\ EndedOn(s) /\ Same(s, w, {"op"}) /\ Whole(s) /\ (s.present \/ s.meanwhile)
 BY <1>1, <1>2, EndedUser
<1>4. s.asker = w.asker /\ s.list = w.list /\ s.shown = w.shown BY <1>3 DEF Same, Fields
<1>5. w' \in {Start(none, op), Abandon(none), failed} BY DEF FileListEnds
<1>6. /\ w.op \in Ops /\ (w.op.unasked => w.list # <<>>) /\ w.shown
      /\ w.op.files = <<>>
 BY <1>1, <1>2 DEF UserOn, TypeOK, UserBase, DropList, Users, Extraction, Replaces
<1>7. /\ op \in Ops /\ op.action = "ADDING" /\ op.files = <<>>
      /\ (op.unasked => w.list # <<>>)
 BY <1>6 DEF Ops, Actions
<1> HIDE DEF s, op
<1>8. none = s /\ EndedOn(failed) /\ Whole(failed) /\ failed.asker = s.asker
 <2>1. Same(failed, s, {"dialogs", "showing_error_dialog", "present", "new", "password"})
       /\ EndedOn(failed) /\ Whole(failed)
  BY <1>3, DoneTestingUser
 <2>2. none = s BY <1>3, DoneTestingUser
 <2> HIDE DEF none, failed
 <2> QED BY <2>1, <2>2 DEF Same, Fields
<1> HIDE DEF none, failed
<1>9. CASE w' = Start(none, op)
 <2>1. Reaches(Start(s, op), s) BY <1>3, <1>4, <1>7, StartUser DEF EndedOn
 <2> QED BY <1>4, <1>8, <1>9, <2>1 DEF Reaches, KeepsAsker
<1>10. CASE w' = Abandon(none)
 <2> DEFINE t == Abandon(s)
 <2>1. s.shown /\ TypeOK(s) BY <1>3 DEF EndedOn, UserOn, UserBase, Users
 <2>2. TypeOK(t) BY <2>1, AbandonTyped
 <2>3. Same(t, s, {"abandoned"}) BY <2>1, AbandonTyped
 <2> HIDE DEF t
 <2>4. Same(t, s, Aside) /\ t.asker = w.asker BY <1>4, <2>3 DEF Same, Fields, Aside
 <2>5. UserOn(t) /\ Whole(t) BY <1>3, <2>2, <2>4, AsideUser DEF EndedOn
 <2> QED BY <1>8, <1>10, <2>4, <2>5, UserIsInv DEF Reaches, KeepsAsker, WillBeWhole, t
<1>11. CASE w' = failed BY <1>4, <1>8, <1>11, EndedReaches
<1> QED BY <1>5, <1>9, <1>10, <1>11

\* How far the other archive is.
LEMMA ConvertedUser ==
    ASSUME NEW s, UserOn(s), s.converted # None, NEW to \in {None, "GETTING_FILE_LIST", "ADDING"}
    PROVE  LET t == [s EXCEPT !.converted = to]
           IN  /\ UserOn(t) /\ Same(t, s, {"converted"}) /\ t.converted = to
               /\ (WillBeWhole(s) => WillBeWhole(t))
<1> DEFINE t == [s EXCEPT !.converted = to]
<1> USE DEF UserOn, UserBase
<1>1. TypeOK(t) BY DEF TypeOK, Fields
<1>2. Same(t, s, {"converted"}) /\ t.converted = to BY DEF TypeOK, Same, Fields
<1> HIDE DEF t
<1> USE <1>1, <1>2 DEF Same, Fields
<1>3. Goes(t) /\ Untold(t) /\ Users(t) /\ DropList(t) /\ Waits(t) /\ OneDialog(t)
 BY DEF Goes, Untold, Users, DropList, Waits, OneDialog
<1>4. Extraction(t) BY DEF Extraction, Asking, Replaces
<1>5. Alone(t) /\ OneThing(t) /\ Converts(t)
 BY DEF Alone, OneThing, Converts, Under, LoadOnly, NoDialog
<1>6. OnShown(t) BY DEF OnShown, Pursued, LoadOnly
<1>7. Noted(t) /\ Supported(t) /\ Asked(t)
 BY DEF Noted, Supported, Asked, AskerIsNoted, Under, LoadOnly
<1>8. WillBeWhole(s) => WillBeWhole(t) BY DEF WillBeWhole, Whole, Under
<1> QED BY <1>3, <1>4, <1>5, <1>6, <1>7, <1>8 DEF t

LEMMA ConversionEndsUser ==
    ASSUME Inv(w), UserSound(w), ConversionEnds
    PROVE  Reaches(w', w)
<1>1. Sound /\ w.todo = "nothing" /\ w.converted # None BY DEF ConversionEnds, Idle
<1>2. UserOn(w) /\ WillBeWhole(w) BY <1>1, UserGoes
<1>3. ASSUME NEW to \in {None, "ADDING"}, w' = [w EXCEPT !.converted = to]
      PROVE  Reaches(w', w)
 <2>1. UserOn(w') /\ Same(w', w, {"converted"}) /\ WillBeWhole(w')
  BY <1>1, <1>2, <1>3, ConvertedUser
 <2> QED BY <2>1, UserIsInv DEF Reaches, KeepsAsker, Same, Fields
<1>4. ASSUME NEW failed \in BOOLEAN,
             w' = LET s == [w EXCEPT !.converted = None]
                  IN ConvertDataFree(IF failed THEN ShowError(s) ELSE s)
      PROVE  Reaches(w', w)
 <2> DEFINE s == [w EXCEPT !.converted = None]
            e == ShowError(s)
            u == IF failed THEN e ELSE s
            t == ConvertDataFree(u)
 <2>1. UserOn(s) /\ Same(s, w, {"converted"}) /\ s.converted = None BY <1>1, <1>2, ConvertedUser
 <2>2. w' = t BY <1>4
 <2> HIDE DEF s
 <2>3. UserOn(e) /\ Same(e, s, {"dialogs", "showing_error_dialog"}) BY <2>1, ShowErrorUser
 <2> HIDE DEF e
 <2>4. UserOn(u) /\ u.converted = None /\ u.asker = w.asker BY <2>1, <2>3 DEF Same, Fields
 <2> HIDE DEF u
 <2>5. UserOn(t) /\ Whole(t) /\ Same(t, u, {"converting", "whole", "left"})
  BY <2>4, ConvertDataFreeUser
 <2> HIDE DEF t
 <2> QED BY <2>2, <2>4, <2>5, UserIsInv DEF Reaches, KeepsAsker, WillBeWhole, Same, Fields
<1> QED BY <1>3, <1>4 DEF ConversionEnds

LEMMA RequestStopUser ==
    ASSUME Inv(w), UserSound(w), RequestStop
    PROVE  Reaches(w', w)
<1> DEFINE s == IF w.op = None \/ w.op.action \in {"LOADING", "GETTING_FILE_LIST"} THEN w
                ELSE [w EXCEPT !.op.stopped = TRUE]
<1>1. Sound /\ w.todo = "nothing"
      /\ w' = IF w.converting
              THEN [ConvertDataFree(s) EXCEPT !.orphaned = IF w.converted = None THEN @ ELSE "stopped"]
              ELSE s
 BY DEF RequestStop, Idle
<1>2. UserOn(w) /\ WillBeWhole(w) BY <1>1, UserGoes
<1>3. UserOn(s) /\ WillBeWhole(s) /\ Same(s, w, {"op"}) /\ (s.op # None => w.op # None)
 <2>1. CASE w.op = None \/ w.op.action \in {"LOADING", "GETTING_FILE_LIST"}
  <3>1. s = w BY <2>1
  <3> QED BY <1>2, <3>1 DEF Same
 <2>2. CASE ~(w.op = None \/ w.op.action \in {"LOADING", "GETTING_FILE_LIST"})
  <3> DEFINE op == [w.op EXCEPT !.stopped = TRUE]
             t == [w EXCEPT !.op = op]
  <3>1. s = t BY <2>2
  <3>2. w.op \in Ops BY <1>2, <2>2 DEF UserOn, TypeOK
  <3>3. /\ op \in Ops /\ op.action = w.op.action /\ op.files = w.op.files
        /\ op.replaced = w.op.replaced /\ op.unasked = w.op.unasked
   BY <3>2 DEF Ops
  <3>4. op # None /\ w.op # None BY <2>2, <3>3, OpsAreSome
  <3> HIDE DEF op
  <3>5. TypeOK(t) BY <1>2, <3>3 DEF UserOn, TypeOK, Fields
  <3>6. Same(t, w, {"op"}) /\ t.op = op BY <1>2 DEF UserOn, TypeOK, Same, Fields
  <3> HIDE DEF s, t
  <3> USE <1>2, <3>3, <3>4, <3>5, <3>6 DEF UserOn, UserBase, Same, Fields
  <3>7. Goes(t) /\ Untold(t) /\ Users(t) /\ DropList(t) /\ Waits(t) /\ OneDialog(t)
   BY DEF Goes, Untold, Users, DropList, Waits, OneDialog
  <3>8. Extraction(t) BY DEF Extraction, Asking, Replaces
  <3>9. Alone(t) /\ OneThing(t) /\ Converts(t)
   BY DEF Alone, OneThing, Converts, Under, LoadOnly, NoDialog
  <3>10. OnShown(t) BY DEF OnShown, Pursued, LoadOnly
  <3>11. Noted(t) /\ Supported(t) /\ Asked(t)
   BY DEF Noted, Supported, Asked, AskerIsNoted, Under, LoadOnly
  <3>12. WillBeWhole(t) BY DEF WillBeWhole, Whole, Under
  <3> QED BY <3>1, <3>7, <3>8, <3>9, <3>10, <3>11, <3>12
 <2> QED BY <2>1, <2>2
<1> HIDE DEF s
<1>4. s.asker = w.asker /\ s.converted = w.converted /\ s.converting = w.converting
      /\ s.list = w.list /\ s.current = w.current
 BY <1>3 DEF Same, Fields
<1>5. CASE ~w.converting BY <1>1, <1>3, <1>4, <1>5, UserIsInv DEF Reaches, KeepsAsker
<1>6. CASE w.converting
 <2> DEFINE u == ConvertDataFree(s)
            t == [u EXCEPT !.orphaned = IF w.converted = None THEN @ ELSE "stopped"]
 <2>1. w' = t BY <1>1, <1>6
 <2>2. /\ TypeOK(u) /\ Same(u, s, {"converting", "converted", "whole", "left", "orphaned"})
       /\ u.converted = None /\ u.orphaned = IF s.converted = None THEN s.orphaned ELSE "replaced"
  BY <1>3, ConvertDataFreeTyped DEF UserOn
 <2>3. CASE w.converted = None
  <3>1. UserOn(u) /\ Whole(u) /\ Same(u, s, {"converting", "whole", "left"})
   BY <1>3, <1>4, <2>3, ConvertDataFreeUser
  <3> HIDE DEF u
  <3>2. TypeOK(t) BY <2>2, <2>3 DEF TypeOK, Fields
  <3>3. Same(t, u, {}) BY <2>2, <2>3 DEF TypeOK, Same, Fields
  <3> HIDE DEF t
  <3>4. Same(t, u, Aside) BY <3>3 DEF Same
  <3>5. UserOn(t) /\ Whole(t) BY <3>1, <3>2, <3>4, AsideUser
  <3>6. t.asker = w.asker BY <1>4, <3>1, <3>3 DEF Same, Fields
  <3> QED BY <2>1, <3>5, <3>6, UserIsInv DEF Reaches, KeepsAsker, WillBeWhole
 <2>4. CASE w.converted # None
  <3> HIDE DEF u
  <3>1. TypeOK(t) BY <2>2 DEF TypeOK, Fields
  <3>2. Same(t, u, {"orphaned"}) /\ t.orphaned = "stopped" BY <2>2, <2>4 DEF TypeOK, Same, Fields
  <3> HIDE DEF t
  <3>3. Same(t, s, {"converting", "converted", "whole", "left", "orphaned", "current"})
        /\ t.converted = None /\ t.current = s.current
   BY <2>2, <3>2 DEF Same, Fields
  <3>4. Reaches(t, s) BY <1>3, <3>1, <3>2, <3>3, OrphanedUser
  <3> QED BY <1>4, <2>1, <3>4 DEF Reaches, KeepsAsker
 <2> QED BY <2>3, <2>4
<1> QED BY <1>5, <1>6

----
(* A dialog is answered, in a window of the user. *)

LEMMA IdleUser ==
    ASSUME Inv(w), UserSound(w), Idle
    PROVE  UserOn(w) /\ WillBeWhole(w) /\ w.todo = "nothing" /\ ~w.batch_mode /\ ~w.non_interactive
<1> QED BY UserGoes DEF Idle, UserOn, UserBase, Users

LEMMA AnsweredTyped ==
    ASSUME NEW dialog, TypeOK(w)
    PROVE  LET s == Answered(dialog)
           IN  TypeOK(s) /\ Same(s, w, {"dialogs"}) /\ s.dialogs = w.dialogs \ {dialog}
<1> DEFINE s == Answered(dialog)
<1>1. w.dialogs \ {dialog} \in SUBSET Dialogs BY DEF TypeOK
<1>2. TypeOK(s) BY <1>1 DEF Answered, TypeOK, Fields
<1>3. Same(s, w, {"dialogs"}) /\ s.dialogs = w.dialogs \ {dialog}
 BY DEF Answered, TypeOK, Same, Fields
<1> QED BY <1>2, <1>3

\* A dialog is gone; who waits for it is forgotten with it.
LEMMA GoneUser ==
    ASSUME NEW s, UserOn(s), NEW t, TypeOK(t), NEW dialog \in Dialogs,
           Same(t, s, {"dialogs", "asker", "ask"} \cup Aside), t.dialogs = s.dialogs \ {dialog},
           \/ t.asker = "nothing"
           \/ t.asker = s.asker /\ dialog \notin {"password", "install"},
           t.ask = s.ask \/ "overwrite" \notin t.dialogs
    PROVE  UserOn(t) /\ (Whole(s) => Whole(t)) /\ (WillBeWhole(s) => WillBeWhole(t))
<1> USE DEF UserOn, UserBase, Same, Fields, Aside
<1>1. Goes(t) /\ Untold(t) /\ Users(t) /\ DropList(t) BY DEF Goes, Untold, Users, DropList
<1>2. Waits(t) /\ OneDialog(t) BY DEF Waits, OneDialog
<1>3. Extraction(t) BY DEF Extraction, Asking, Replaces
<1>4. Alone(t) BY DEF Alone, Under, LoadOnly, NoDialog
<1>5. OneThing(t) /\ Converts(t) BY DEF OneThing, Converts, NoDialog
<1>6. OnShown(t) BY DEF OnShown, Pursued, LoadOnly
<1>7. Noted(t) /\ Supported(t) /\ Asked(t)
 BY DEF Noted, Supported, Asked, AskerIsNoted, Under, LoadOnly
<1>8. (Whole(s) => Whole(t)) /\ (WillBeWhole(s) => WillBeWhole(t)) BY DEF Whole, WillBeWhole, Under
<1> QED BY <1>1, <1>2, <1>3, <1>4, <1>5, <1>6, <1>7, <1>8

\* One that was not the password's or the search's.
LEMMA AnsweredUser ==
    ASSUME UserOn(w), NEW dialog \in {"extract", "overwrite", "new", "error"}
    PROVE  LET s == Answered(dialog)
           IN  /\ UserOn(s) /\ (WillBeWhole(w) => WillBeWhole(s))
               /\ Same(s, w, {"dialogs"}) /\ s.dialogs = w.dialogs \ {dialog}
<1> DEFINE s == Answered(dialog)
<1>1. TypeOK(s) /\ Same(s, w, {"dialogs"}) /\ s.dialogs = w.dialogs \ {dialog}
 BY AnsweredTyped DEF UserOn
<1> HIDE DEF s
<1>2. Same(s, w, {"dialogs", "asker", "ask"} \cup Aside) /\ s.asker = w.asker /\ s.ask = w.ask
 BY <1>1 DEF Same, Fields
<1>3. dialog \in Dialogs BY DEF Dialogs
<1> QED BY <1>1, <1>2, <1>3, GoneUser DEF s

LEMMA AnswerErrorUser ==
    ASSUME Inv(w), UserSound(w), AnswerError
    PROVE  Reaches(w', w)
<1> DEFINE a == Answered("error")
           s == [a EXCEPT !.showing_error_dialog = FALSE]
<1>1. UserOn(w) /\ WillBeWhole(w) BY IdleUser DEF AnswerError, Answers
<1>2. w' = IF s.destroy_with_error_dialog THEN Destroy(s) ELSE s BY DEF AnswerError
<1>3. UserOn(a) /\ WillBeWhole(a) /\ Same(a, w, {"dialogs"}) BY <1>1, AnsweredUser
<1> HIDE DEF a
<1>4. TypeOK(s) BY <1>3 DEF UserOn, TypeOK, Fields
<1>5. Same(s, a, {"showing_error_dialog"}) BY <1>3 DEF UserOn, TypeOK, Same, Fields
<1> HIDE DEF s
<1>6. Same(s, a, Aside) BY <1>5 DEF Same, Aside
<1>7. UserOn(s) /\ WillBeWhole(s) BY <1>3, <1>4, <1>6, AsideUser
<1>8. ~s.destroy_with_error_dialog BY <1>7 DEF UserOn, UserBase, Users
<1>9. s.asker = w.asker BY <1>3, <1>5 DEF Same, Fields
<1> QED BY <1>2, <1>7, <1>8, <1>9, UserIsInv DEF Reaches, KeepsAsker

\* What was last asked of the window is begun again.
LEMMA AgainUser ==
    ASSUME NEW s, UserOn(s), Whole(s), ~s.batch_mode, s.asker = "nothing",
           ~Under(s, {"EXTRACTING", "TESTING"}),
           s.dialogs \cap {"extract", "overwrite", "new"} = {},
           "password" \in s.dialogs => LoadOnly(s),
           LoadOnly(s) \/ (s.op = None /\ NoDialog(s) /\ ~s.installing /\ (s.present \/ s.meanwhile)),
           ~s.meanwhile => s.op = None /\ NoDialog(s) /\ ~s.installing,
           ~s.meanwhile /\ s.list = <<>> => s.converted = None
    PROVE  LET t == Again(s) IN Inv(t) /\ t.todo = "current" /\ t.current = s.current
<1> DEFINE t == [s EXCEPT !.todo = "current", !.batch_mode = FALSE]
<1>1. Again(s) = t BY DEF Again, UserOn, TypeOK, Fields
<1>2. TypeOK(t) BY DEF UserOn, TypeOK, Fields
<1>3. Same(t, s, {"todo"}) /\ t.todo = "current" BY DEF UserOn, TypeOK, Same, Fields
<1> HIDE DEF t
<1> USE <1>2, <1>3 DEF UserOn, UserBase, Same, Fields
<1>4. Goes(t) /\ Untold(t) /\ Users(t) /\ DropList(t) /\ Waits(t) /\ OneDialog(t)
 BY DEF Goes, Untold, Users, DropList, Waits, OneDialog
<1>5. Extraction(t) BY DEF Extraction, Asking, Replaces
<1>6. Alone(t) BY DEF Alone, Under, LoadOnly, NoDialog
<1>7. OneThing(t) /\ Converts(t) BY DEF OneThing, Converts, NoDialog
<1>8. OnShown(t) BY DEF OnShown, Pursued, LoadOnly
<1>9. Noted(t) /\ Supported(t) /\ Asked(t)
 BY DEF Noted, Supported, Asked, AskerIsNoted, Under, LoadOnly
<1>10. UserOn(t) /\ WillBeWhole(t) BY <1>4, <1>5, <1>6, <1>7, <1>8, <1>9 DEF WillBeWhole, Whole
<1> QED BY <1>1, <1>10, UserIsInv

LEMMA AnswerPasswordUser ==
    ASSUME Inv(w), UserSound(w), AnswerPassword
    PROVE  Inv(w') /\ Resumes(w', w)
<1> DEFINE a == Answered("password")
           s == [a EXCEPT !.asker = "nothing"]
           u == [s EXCEPT !.password = TRUE]
           n == [s EXCEPT !.current = NoAct]
<1>1. UserOn(w) /\ WillBeWhole(w) /\ w.todo = "nothing" /\ "password" \in w.dialogs
      /\ ~w.batch_mode
 BY IdleUser DEF AnswerPassword, Answers
<1>2. TypeOK(a) /\ Same(a, w, {"dialogs"}) /\ a.dialogs = w.dialogs \ {"password"}
 BY <1>1, AnsweredTyped DEF UserOn
<1>3. w' \in {Again(u), IF s.batch_mode THEN Destroy(s) ELSE n} BY DEF AnswerPassword
<1> HIDE DEF a
<1>4. TypeOK(s) BY <1>2 DEF TypeOK, Fields, Askers
<1>5. Same(s, w, {"dialogs", "asker"}) /\ s.dialogs = w.dialogs \ {"password"}
      /\ s.asker = "nothing"
 BY <1>2 DEF TypeOK, Same, Fields
<1> HIDE DEF s
<1>6. UserOn(s) /\ WillBeWhole(s)
 <2>1. Same(s, w, {"dialogs", "asker", "ask"} \cup Aside) /\ s.ask = w.ask BY <1>5 DEF Same, Fields
 <2> QED BY <1>1, <1>4, <1>5, <2>1, GoneUser DEF Dialogs
<1>7. w.dialogs \subseteq {"password", "error"}
 <2>1. w.dialogs \subseteq Dialogs /\ OneDialog(w) BY <1>1 DEF UserOn, TypeOK, UserBase
 <2> QED BY <1>1, <2>1 DEF OneDialog, Dialogs
<1>8. NoDialog(s) /\ ~s.batch_mode /\ s.todo = "nothing" /\ s.current = w.current
      /\ s.meanwhile = w.meanwhile /\ s.present = w.present
 BY <1>1, <1>5, <1>7 DEF NoDialog, Same, Fields
<1>9. /\ ~Under(s, {"EXTRACTING", "TESTING"})
      /\ ~s.meanwhile => s.op = None /\ ~s.installing
      /\ ~s.meanwhile /\ s.list = <<>> => s.converted = None
      /\ LoadOnly(s) \/ (s.op = None /\ ~s.installing /\ (s.present \/ s.meanwhile))
 <2>1. ~NoDialog(w) BY <1>1 DEF NoDialog
 <2>2. Alone(w) /\ OneThing(w) /\ Converts(w) /\ OnShown(w) BY <1>1 DEF UserOn, UserBase
 <2>3. /\ ~Under(w, {"EXTRACTING", "TESTING"})
       /\ ~w.meanwhile => w.op = None /\ ~w.installing
       /\ ~w.meanwhile /\ w.list = <<>> => w.converted = None
  BY <2>1, <2>2 DEF Alone, OneThing, Converts
 <2>4. LoadOnly(w) \/ (w.op = None /\ ~w.installing /\ (w.present \/ w.meanwhile))
  BY <1>1, <2>2 DEF Alone, OnShown, Pursued
 <2> QED BY <1>5, <2>3, <2>4 DEF Same, Fields, Under, LoadOnly
<1>10. Whole(s) BY <1>6, <1>9 DEF WillBeWhole, Under
<1>11. CASE w' = Again(u)
 <2>1. TypeOK(u) BY <1>4 DEF TypeOK, Fields
 <2>2. Same(u, s, {"password"}) BY <1>4 DEF TypeOK, Same, Fields
 <2> HIDE DEF u
 <2>3. Same(u, s, Aside) BY <2>2 DEF Same, Aside
 <2>4. UserOn(u) /\ Whole(u) BY <1>6, <1>10, <2>1, <2>3, AsideUser
 <2> USE <2>2 DEF Same, Fields
 <2>5. NoDialog(u) /\ ~Under(u, {"EXTRACTING", "TESTING"}) /\ (LoadOnly(s) => LoadOnly(u))
       /\ u.asker = "nothing" /\ ~u.batch_mode
  BY <1>5, <1>8, <1>9 DEF NoDialog, Under, LoadOnly
 <2>6. Inv(w') /\ w'.todo = "current" /\ w'.current = u.current
  BY <1>9, <1>11, <2>4, <2>5, AgainUser DEF NoDialog
 <2>7. w'.current = w.current BY <1>8, <2>6
 <2>8. w.asker # "nothing" => AskerIsNoted(w, w.asker) BY <1>1 DEF UserOn, UserBase, Asked
 <2> QED BY <1>1, <2>6, <2>7, <2>8 DEF Resumes, AskerIsNoted
<1>12. CASE w' = IF s.batch_mode THEN Destroy(s) ELSE n
 <2>1. w' = n BY <1>8, <1>12
 <2>2. TypeOK(n) BY <1>4, NoActTyped DEF TypeOK, Fields
 <2>3. Same(n, s, {"current"}) /\ n.current = NoAct BY <1>4 DEF TypeOK, Same, Fields
 <2>4. NoAct.type = "NONE" /\ NoAct.overwrite = "NO" BY DEF NoAct, Act
 <2> HIDE DEF n
 <2> USE <1>6, <1>8, <1>9, <2>2, <2>3, <2>4 DEF UserOn, UserBase, Same, Fields
 <2>5. Goes(n) /\ Untold(n) /\ Users(n) /\ DropList(n) /\ Waits(n) /\ OneDialog(n)
  BY DEF Goes, Untold, Users, DropList, Waits, OneDialog
 <2>6. Extraction(n) BY DEF Extraction, Agreed, Asking, Replaces, NoDialog, Under
 <2>7. Alone(n) /\ OneThing(n) /\ Converts(n)
  BY DEF Alone, OneThing, Converts, Under, LoadOnly, NoDialog
 <2>8. OnShown(n) BY DEF OnShown, Pursued, LoadOnly, NoDialog
 <2>9. Noted(n) /\ Supported(n) BY DEF Noted, Supported, Under, LoadOnly, NoDialog
 <2>10. Asked(n) BY <1>5 DEF Asked
 <2>11. UserOn(n) /\ WillBeWhole(n)
  BY <1>10, <2>5, <2>6, <2>7, <2>8, <2>9, <2>10 DEF WillBeWhole, Whole
 <2> QED BY <2>1, <2>11, UserIsInv DEF Resumes
<1> QED BY <1>3, <1>11, <1>12

LEMMA StopBatchUser ==
    ASSUME NEW s, UserOn(s)
    PROVE  StopBatch(s) = s
BY DEF StopBatch, UserOn, UserBase, Users

LEMMA AnswerInstallUser ==
    ASSUME Inv(w), UserSound(w), AnswerInstall
    PROVE  Reaches(w', w)
<1> DEFINE a == Answered("install")
           i == [a EXCEPT !.installing = TRUE]
           n == [a EXCEPT !.asker = "nothing"]
<1>1. UserOn(w) /\ WillBeWhole(w) /\ w.todo = "nothing" /\ "install" \in w.dialogs
 BY IdleUser DEF AnswerInstall, Answers
<1>2. TypeOK(a) /\ Same(a, w, {"dialogs"}) /\ a.dialogs = w.dialogs \ {"install"}
 BY <1>1, AnsweredTyped DEF UserOn
<1>3. w' \in {i, StopBatch(n)} BY DEF AnswerInstall
<1> HIDE DEF a
<1>4. CASE w' = i
 <2>1. TypeOK(i) BY <1>2 DEF TypeOK, Fields
 <2>2. Same(i, w, {"dialogs", "installing"}) /\ i.dialogs = w.dialogs \ {"install"} /\ i.installing
  BY <1>2 DEF TypeOK, Same, Fields
 <2> HIDE DEF i
 <2>3. w.dialogs \subseteq {"install", "error"}
  <3>1. w.dialogs \subseteq Dialogs /\ OneDialog(w) BY <1>1 DEF UserOn, TypeOK, UserBase
  <3> QED BY <1>1, <3>1 DEF OneDialog, Dialogs
 <2> USE <1>1, <2>1, <2>2, <2>3 DEF UserOn, UserBase, Same, Fields
 <2>4. Goes(i) /\ Untold(i) /\ Users(i) /\ DropList(i) /\ Waits(i) /\ OneDialog(i)
  BY DEF Goes, Untold, Users, DropList, Waits, OneDialog
 <2>5. Extraction(i) BY DEF Extraction, Asking, Replaces
 <2>6. Alone(i) /\ OneThing(i) /\ Converts(i)
  BY DEF Alone, OneThing, Converts, Under, LoadOnly, NoDialog
 <2>7. OnShown(i) BY DEF OnShown, Pursued, LoadOnly
 <2>8. Noted(i) /\ Supported(i) /\ Asked(i)
  BY DEF Noted, Supported, Asked, AskerIsNoted, Under, LoadOnly
 <2>9. UserOn(i) /\ WillBeWhole(i) BY <2>4, <2>5, <2>6, <2>7, <2>8 DEF WillBeWhole, Whole, Under
 <2> QED BY <1>4, <2>9, UserIsInv DEF Reaches, KeepsAsker
<1>5. CASE w' = StopBatch(n)
 <2>1. TypeOK(n) BY <1>2 DEF TypeOK, Fields, Askers
 <2>2. Same(n, w, {"dialogs", "asker"}) /\ n.dialogs = w.dialogs \ {"install"}
       /\ n.asker = "nothing"
  BY <1>2 DEF TypeOK, Same, Fields
 <2> HIDE DEF n
 <2>3. Same(n, w, {"dialogs", "asker", "ask"} \cup Aside) /\ n.ask = w.ask
       /\ n.todo = "nothing"
  BY <1>1, <2>2 DEF Same, Fields
 <2>4. UserOn(n) /\ WillBeWhole(n) BY <1>1, <2>1, <2>2, <2>3, GoneUser DEF Dialogs
 <2> QED BY <1>5, <2>3, <2>4, StopBatchUser, UserIsInv DEF Reaches, KeepsAsker
<1> QED BY <1>3, <1>4, <1>5

LEMMA InstallEndsUser ==
    ASSUME Inv(w), UserSound(w), InstallEnds
    PROVE  Inv(w') /\ Resumes(w', w)
<1> DEFINE s == [w EXCEPT !.installing = FALSE, !.asker = "nothing"]
<1>1. UserOn(w) /\ WillBeWhole(w) /\ w.todo = "nothing" /\ w.installing /\ ~w.batch_mode
 BY IdleUser DEF InstallEnds
<1>2. \/ w' = Again(s)
      \/ \E error \in {"STOPPED", "GENERIC"} :
           w' = [Done(s, "LOADING", error) EXCEPT !.touched = w.touched]
 BY DEF InstallEnds
<1>3. TypeOK(s) BY <1>1 DEF UserOn, TypeOK, Fields, Askers
<1>4. Same(s, w, {"installing", "asker"}) /\ ~s.installing /\ s.asker = "nothing"
 BY <1>1 DEF UserOn, TypeOK, Same, Fields
<1> HIDE DEF s
<1>5. UserOn(s) /\ WillBeWhole(s)
 <2> USE <1>1, <1>3, <1>4 DEF UserOn, UserBase, Same, Fields
 <2>1. Goes(s) /\ Untold(s) /\ Users(s) /\ DropList(s) /\ Waits(s) /\ OneDialog(s)
  BY DEF Goes, Untold, Users, DropList, Waits, OneDialog
 <2>2. Extraction(s) BY DEF Extraction, Asking, Replaces
 <2>3. Alone(s) /\ OneThing(s) /\ Converts(s)
  BY DEF Alone, OneThing, Converts, Under, LoadOnly, NoDialog
 <2>4. OnShown(s) BY DEF OnShown, Pursued, LoadOnly
 <2>5. Noted(s) /\ Supported(s) /\ Asked(s)
  BY DEF Noted, Supported, Asked, AskerIsNoted, Under, LoadOnly
 <2> QED BY <2>1, <2>2, <2>3, <2>4, <2>5 DEF WillBeWhole, Whole, Under
<1>6. /\ s.todo = "nothing" /\ ~s.batch_mode /\ LoadOnly(s) /\ s.current = w.current
      /\ ~Under(s, {"EXTRACTING", "TESTING"})
      /\ s.dialogs \cap {"extract", "overwrite", "new"} = {}
      /\ ~s.meanwhile => s.op = None /\ NoDialog(s)
      /\ ~s.meanwhile /\ s.list = <<>> => s.converted = None
 BY <1>1, <1>4 DEF UserOn, UserBase, Alone, OneThing, Converts, Under, LoadOnly, NoDialog,
                   Same, Fields
<1>7. Whole(s) BY <1>5, <1>6 DEF WillBeWhole, Under
<1>8. CASE w' = Again(s)
 <2>1. Inv(w') /\ w'.todo = "current" /\ w'.current = w.current
  BY <1>4, <1>5, <1>6, <1>7, <1>8, AgainUser
 <2>2. w.asker # "nothing" => AskerIsNoted(w, w.asker) BY <1>1 DEF UserOn, UserBase, Asked
 <2> QED BY <1>1, <2>1, <2>2 DEF Resumes, AskerIsNoted
<1>9. ASSUME NEW error \in {"STOPPED", "GENERIC"},
             w' = [Done(s, "LOADING", error) EXCEPT !.touched = w.touched]
      PROVE  Inv(w') /\ Resumes(w', w)
 <2> DEFINE c == Close(s)
            e == ShowError(c)
            h == IF error = "GENERIC" THEN e ELSE s
            t == [h EXCEPT !.touched = w.touched]
 <2>1. HandleErrors(s, "LOADING", error) = h BY HandledIs
 <2>2. UserOn(c) /\ Same(c, s, {"present", "new", "password"})
  <3>1. ~s.meanwhile => ~Pursued(s) BY <1>6 DEF Pursued, NoDialog
  <3> QED BY <1>4, <1>5, <3>1, CloseUser
 <2> HIDE DEF c
 <2>3. UserOn(e) /\ Same(e, c, {"dialogs", "showing_error_dialog"}) BY <2>2, ShowErrorUser
 <2> HIDE DEF e
 <2>4. UserOn(h) /\ Same(h, s, {"dialogs", "showing_error_dialog", "present", "new", "password"})
  BY <1>5, <2>2, <2>3 DEF Same
 <2> HIDE DEF h
 <2>5. h.alive /\ ~h.touched /\ ~h.non_interactive /\ TypeOK(h)
  BY <2>4 DEF UserOn, Goes, Untold, UserBase, Users
 <2>6. Done(s, "LOADING", error) = h BY <2>1, <2>5 DEF Done, LoadingDone
 <2>7. w.touched = FALSE BY <1>1 DEF UserOn, Untold, TypeOK
 <2>8. TypeOK(t) BY <2>5, <2>7 DEF TypeOK, Fields
 <2>9. t.touched = FALSE BY <2>5, <2>7 DEF TypeOK, Fields
 <2>10. Same(t, h, {"touched"}) BY <2>5 DEF TypeOK, Same, Fields
 <2>11. w' = t BY <1>9, <2>6
 <2> HIDE DEF t
 <2>12. t.touched = h.touched BY <2>5, <2>9 DEF TypeOK
 <2>13. Same(t, h, Aside) BY <2>10, <2>12 DEF Same, Fields
 <2>14. UserOn(t) BY <2>4, <2>8, <2>13, AsideUser
 <2>15. Whole(t) /\ t.todo = "nothing" BY <1>6, <1>7, <2>4, <2>10 DEF Whole, Same, Fields
 <2>16. Inv(t) BY <2>14, <2>15, UserIsInv DEF WillBeWhole
 <2> QED BY <2>11, <2>15, <2>16 DEF Resumes
<1> QED BY <1>2, <1>8, <1>9

LEMMA RemoveAtIs ==
    ASSUME NEW S, NEW list \in Seq(S), NEW i \in 1 .. Len(list)
    PROVE  /\ RemoveAt(list, i) \in Seq(S) /\ ToSet(RemoveAt(list, i)) \subseteq ToSet(list)
           /\ \A j \in 1 .. i - 1 : RemoveAt(list, i)[j] = list[j]
<1> DEFINE T == {list[j] : j \in 1 .. Len(list)}
           a == SubSeq(list, 1, i - 1)
           b == SubSeq(list, i + 1, Len(list))
<1>1. T \subseteq S /\ ToSet(list) = T BY DEF ToSet
<1>2. a \in Seq(T) /\ Len(a) = i - 1 /\ \A j \in 1 .. i - 1 : a[j] = list[j]
 <2>1. \A j \in 1 .. i - 1 : list[j] \in T OBVIOUS
 <2> HIDE DEF T
 <2>2. i - 1 \in Int /\ i - 1 >= 0 /\ 1 \in Int OBVIOUS
 <2> DEFINE n == i - 1
 <2> HIDE DEF n
 <2>3. n \in Int /\ n >= 0 /\ n = i - 1 BY <2>2 DEF n
 <2>4. \A j \in 1 .. n : list[j] \in T BY <2>1, <2>3
 <2> DEFINE c == SubSeq(list, 1, n)
 <2>5. /\ c \in Seq(T) /\ Len(c) = IF 1 <= n THEN n - 1 + 1 ELSE 0
       /\ \A j \in 1 .. n - 1 + 1 : c[j] = list[1 + j - 1]
  BY <2>2, <2>3, <2>4, SubSeqProperties
 <2>6. a = c BY <2>3
 <2> HIDE DEF c
 <2>7. Len(c) = n BY <2>3, <2>5
 <2>8. ASSUME NEW j \in 1 .. n PROVE c[j] = list[j]
  <3>1. j \in 1 .. n - 1 + 1 /\ 1 + j - 1 = j BY <2>3
  <3> QED BY <2>5, <3>1
 <2> HIDE DEF a
 <2> QED BY <2>3, <2>5, <2>6, <2>7, <2>8
<1>3. b \in Seq(T)
 <2>1. \A j \in i + 1 .. Len(list) : list[j] \in T OBVIOUS
 <2> HIDE DEF T
 <2> QED BY <2>1, SubSeqProperties
<1> HIDE DEF T, a, b
<1>4. a \o b \in Seq(T) /\ \A j \in 1 .. i - 1 : (a \o b)[j] = a[j] BY <1>2, <1>3, ConcatProperties
<1>5. a \o b \in Seq(S) /\ ToSet(a \o b) \subseteq T BY <1>1, <1>4 DEF ToSet
<1>6. RemoveAt(list, i) = a \o b BY DEF RemoveAt, a, b
<1> QED BY <1>1, <1>2, <1>4, <1>5, <1>6

\* The overwrite dialog has come to one of the files, and past those before it.
Offering(act, i) ==
    /\ act \in Acts /\ act.type = "EXTRACT" /\ Agreed(act)
    /\ i \in DOMAIN act.files /\ AgreedBefore(act, i)

\* All of them may be replaced, or this one, or this one is left out.
LEMMA OfferAll ==
    ASSUME NEW act, NEW i, Offering(act, i)
    PROVE  LET all == [act EXCEPT !.overwrite = "YES", !.allowed = @ \cup ToSet(act.files)]
           IN  all \in Acts /\ all.type = "EXTRACT" /\ Agreed(all) /\ all.dir = act.dir
<1> USE DEF Offering
<1> DEFINE all == [act EXCEPT !.overwrite = "YES", !.allowed = @ \cup ToSet(act.files)]
<1>1. act.files \in Seq(Files) /\ act.allowed \in SUBSET Files BY DEF Acts
<1>2. ToSet(act.files) \subseteq Files BY <1>1, InRange
<1> QED BY <1>1, <1>2 DEF Acts, Agreed

LEMMA OfferOne ==
    ASSUME NEW act, NEW i, Offering(act, i)
    PROVE  LET one == [act EXCEPT !.allowed = @ \cup {act.files[i]}]
           IN  /\ one \in Acts /\ one.type = "EXTRACT" /\ Agreed(one) /\ one.dir = act.dir
               /\ AgreedBefore(one, i + 1) /\ i + 1 \in Nat \ {0}
<1> USE DEF Offering
<1> DEFINE one == [act EXCEPT !.allowed = @ \cup {act.files[i]}]
<1>1. act.files \in Seq(Files) /\ act.allowed \in SUBSET Files BY DEF Acts
<1>2. i \in 1 .. Len(act.files) /\ act.files[i] \in Files BY <1>1
<1>3. /\ one \in Acts /\ one.type = "EXTRACT" /\ one.dir = act.dir /\ one.files = act.files
      /\ one.allowed = act.allowed \cup {act.files[i]} /\ one.overwrite = act.overwrite
 BY <1>1, <1>2 DEF Acts
<1> HIDE DEF one
<1>4. Agreed(one) BY <1>3 DEF Agreed
<1>5. ASSUME NEW j \in 1 .. (i + 1) - 1, There[act.files[j]] = "file"
      PROVE  act.files[j] \in one.allowed
 <2>1. CASE j = i BY <1>3, <2>1
 <2>2. CASE j # i
  <3>1. j \in 1 .. i - 1 BY <1>2, <2>2
  <3> QED BY <1>3, <1>5, <3>1 DEF AgreedBefore
 <2> QED BY <2>1, <2>2
<1>6. AgreedBefore(one, i + 1) BY <1>3, <1>5 DEF AgreedBefore
<1>7. i + 1 \in Nat \ {0} BY <1>2
<1> QED BY <1>3, <1>4, <1>6, <1>7 DEF one

LEMMA OfferOthers ==
    ASSUME NEW act, NEW i, Offering(act, i)
    PROVE  LET others == [act EXCEPT !.files = RemoveAt(@, i)]
           IN  /\ others \in Acts /\ others.type = "EXTRACT" /\ Agreed(others)
               /\ others.dir = act.dir /\ AgreedBefore(others, i) /\ i \in Nat \ {0}
<1> USE DEF Offering
<1> DEFINE left == RemoveAt(act.files, i)
           others == [act EXCEPT !.files = left]
<1>1. act.files \in Seq(Files) BY DEF Acts
<1>2. i \in 1 .. Len(act.files) BY <1>1
<1>3. /\ left \in Seq(Files) /\ ToSet(left) \subseteq ToSet(act.files)
      /\ \A j \in 1 .. i - 1 : left[j] = act.files[j]
 BY <1>1, <1>2, RemoveAtIs
<1> HIDE DEF left
<1>4. /\ others \in Acts /\ others.type = "EXTRACT" /\ others.dir = act.dir
      /\ others.files = left /\ others.allowed = act.allowed /\ others.overwrite = act.overwrite
 BY <1>3 DEF Acts
<1> HIDE DEF others
<1>5. Agreed(others)
 <2>1. i \in DOMAIN act.files /\ act.files # <<>> BY <1>1, <1>2
 <2> QED BY <1>3, <1>4, <2>1 DEF Agreed
<1>6. AgreedBefore(others, i) BY <1>3, <1>4 DEF AgreedBefore
<1>7. i \in Nat \ {0} BY <1>2
<1> QED BY <1>4, <1>5, <1>6, <1>7 DEF others, left

LEMMA AnswerOverwriteUser ==
    ASSUME Inv(w), UserSound(w), AnswerOverwrite
    PROVE  Reaches(w', w)
<1> DEFINE s == Answered("overwrite")
           act == s.current
           all == [act EXCEPT !.overwrite = "YES", !.allowed = @ \cup ToSet(act.files)]
           one == [act EXCEPT !.allowed = @ \cup {act.files[s.ask]}]
           others == [act EXCEPT !.files = RemoveAt(@, s.ask)]
           n == [s EXCEPT !.ask = 0]
<1>1. UserOn(w) /\ WillBeWhole(w) /\ w.todo = "nothing" /\ "overwrite" \in w.dialogs
 BY IdleUser DEF AnswerOverwrite, Answers
<1>2. /\ UserOn(s) /\ WillBeWhole(s) /\ Same(s, w, {"dialogs"})
      /\ s.dialogs = w.dialogs \ {"overwrite"}
 BY <1>1, AnsweredUser
<1>3. \/ w' = StartExtract([s EXCEPT !.current.overwrite = "YES",
                                     !.current.allowed = @ \cup ToSet(s.current.files)])
      \/ w' = AskOverwrite([s EXCEPT !.current.allowed = @ \cup {act.files[s.ask]}], s.ask + 1)
      \/ w' = AskOverwrite([s EXCEPT !.current.files = RemoveAt(@, s.ask)], s.ask)
      \/ w' = StopBatch(n)
 BY DEF AnswerOverwrite
<1>4. [s EXCEPT !.current.overwrite = "YES", !.current.allowed = @ \cup ToSet(s.current.files)]
        = [s EXCEPT !.current = all]
 BY <1>2 DEF UserOn, TypeOK, Fields, Acts
<1>5. [s EXCEPT !.current.allowed = @ \cup {act.files[s.ask]}] = [s EXCEPT !.current = one]
 BY <1>2 DEF UserOn, TypeOK, Fields, Acts
<1>6. [s EXCEPT !.current.files = RemoveAt(@, s.ask)] = [s EXCEPT !.current = others]
 BY <1>2 DEF UserOn, TypeOK, Fields, Acts
<1> HIDE DEF s
<1>7. s.asker = w.asker /\ s.current = w.current /\ s.ask = w.ask BY <1>2 DEF Same, Fields
<1>8. Offering(act, s.ask)
 <2>1. w.current \in Acts /\ Extraction(w) /\ Noted(w) BY <1>1 DEF UserOn, TypeOK, UserBase
 <2> QED BY <1>1, <1>7, <2>1 DEF Offering, Extraction, Asking, Noted
<1>9. /\ s.todo = "nothing" /\ s.op = None /\ NoDialog(s) /\ ~s.installing
      /\ s.present \/ s.meanwhile
      /\ ~s.meanwhile /\ s.list = <<>> => s.converted = None
      /\ Whole(s) /\ Kind[s.uri] # "unsupported"
 <2>1. w.dialogs \subseteq {"overwrite", "error"}
  <3>1. w.dialogs \subseteq Dialogs /\ OneDialog(w) BY <1>1 DEF UserOn, TypeOK, UserBase
  <3> QED BY <1>1, <3>1 DEF OneDialog, Dialogs
 <2>2. w.op = None /\ ~w.installing /\ (w.present \/ w.meanwhile)
       /\ (~w.meanwhile /\ w.list = <<>> => w.converted = None)
  BY <1>1 DEF UserOn, UserBase, Alone, OnShown, Pursued, Converts, NoDialog
 <2>3. s.op = None /\ NoDialog(s) BY <1>2, <2>1, <2>2 DEF Same, Fields, NoDialog
 <2>4. Whole(s) BY <1>2, <2>3 DEF WillBeWhole, Under
 <2>5. Kind[s.uri] # "unsupported"
  BY <1>2, <1>8 DEF UserOn, UserBase, Supported, LoadOnly, Offering
 <2> QED BY <1>1, <1>2, <2>2, <2>3, <2>4, <2>5 DEF Same, Fields
<1>10. ASSUME NEW new \in Acts, new.type = "EXTRACT", Agreed(new),
              NEW u, u = [s EXCEPT !.current = new]
       PROVE  /\ UserOn(u) /\ Whole(u) /\ Same(u, s, {"current"}) /\ u.current = new
              /\ u.todo = "nothing" /\ u.op = None /\ NoDialog(u) /\ ~u.installing
              /\ u.present \/ u.meanwhile
              
              /\ ~u.meanwhile /\ u.list = <<>> => u.converted = None
              /\ u.asker = w.asker
 <2>1. UserOn(u) /\ Whole(u) /\ Same(u, s, {"current"}) /\ u.current = new
  BY <1>2, <1>9, <1>10, NoteUser
 <2> QED BY <1>7, <1>9, <2>1 DEF Same, Fields, NoDialog
<1>11. CASE w' = StartExtract([s EXCEPT !.current = all])
 <2> DEFINE u == [s EXCEPT !.current = all]
 <2>1. all \in Acts /\ all.type = "EXTRACT" /\ Agreed(all) BY <1>8, OfferAll
 <2> HIDE DEF all, u
 <2>2. /\ UserOn(u) /\ Whole(u) /\ u.current = all
       /\ u.todo = "nothing" /\ u.op = None /\ NoDialog(u) /\ ~u.installing
       /\ u.present \/ u.meanwhile
       /\ ~u.meanwhile /\ u.list = <<>> => u.converted = None
       /\ u.asker = w.asker
  BY <1>10, <2>1 DEF u
 <2>3. Reaches(StartExtract(u), u) BY <2>1, <2>2, StartExtractUser
 <2> QED BY <1>11, <2>2, <2>3 DEF Reaches, KeepsAsker, u
<1>12. CASE w' = AskOverwrite([s EXCEPT !.current = one], s.ask + 1)
 <2> DEFINE u == [s EXCEPT !.current = one]
 <2>1. one \in Acts /\ one.type = "EXTRACT" /\ Agreed(one) /\ AgreedBefore(one, s.ask + 1)
       /\ s.ask + 1 \in Nat \ {0}
  BY <1>8, OfferOne
 <2> HIDE DEF one, u
 <2>2. /\ UserOn(u) /\ Whole(u) /\ u.current = one
       /\ u.todo = "nothing" /\ u.op = None /\ NoDialog(u) /\ ~u.installing
       /\ u.present \/ u.meanwhile
       /\ ~u.meanwhile /\ u.list = <<>> => u.converted = None
       /\ u.asker = w.asker
  BY <1>10, <2>1 DEF u
 <2>3. Reaches(AskOverwrite(u, s.ask + 1), u) BY <2>1, <2>2, AskOverwriteUser
 <2> QED BY <1>12, <2>2, <2>3 DEF Reaches, KeepsAsker, u
<1>13. CASE w' = AskOverwrite([s EXCEPT !.current = others], s.ask)
 <2> DEFINE u == [s EXCEPT !.current = others]
 <2>1. others \in Acts /\ others.type = "EXTRACT" /\ Agreed(others) /\ AgreedBefore(others, s.ask)
       /\ s.ask \in Nat \ {0}
  BY <1>8, OfferOthers
 <2> HIDE DEF others, u
 <2>2. /\ UserOn(u) /\ Whole(u) /\ u.current = others
       /\ u.todo = "nothing" /\ u.op = None /\ NoDialog(u) /\ ~u.installing
       /\ u.present \/ u.meanwhile
       /\ ~u.meanwhile /\ u.list = <<>> => u.converted = None
       /\ u.asker = w.asker
  BY <1>10, <2>1 DEF u
 <2>3. Reaches(AskOverwrite(u, s.ask), u) BY <2>1, <2>2, AskOverwriteUser
 <2> QED BY <1>13, <2>2, <2>3 DEF Reaches, KeepsAsker, u
<1>14. CASE w' = StopBatch(n)
 <2>1. TypeOK(s) BY <1>2 DEF UserOn
 <2>2. TypeOK(n) BY <2>1 DEF TypeOK, Fields
 <2>3. Same(n, s, {"ask"}) BY <2>1 DEF TypeOK, Same, Fields
 <2> HIDE DEF n
 <2>4. Same(n, w, {"dialogs", "asker", "ask"} \cup Aside) /\ n.dialogs = w.dialogs \ {"overwrite"}
       /\ n.asker = w.asker
  BY <1>2, <2>3 DEF Same, Fields
 <2>5. UserOn(n) /\ WillBeWhole(n) BY <1>1, <2>2, <2>4, GoneUser DEF Dialogs
 <2> QED BY <1>14, <2>4, <2>5, StopBatchUser, UserIsInv DEF Reaches, KeepsAsker
<1> QED BY <1>3, <1>4, <1>5, <1>6, <1>11, <1>12, <1>13, <1>14

LEMMA AbandonUser ==
    ASSUME NEW s, UserOn(s), WillBeWhole(s)
    PROVE  UserOn(Abandon(s)) /\ WillBeWhole(Abandon(s)) /\ Abandon(s).asker = s.asker
<1>1. TypeOK(Abandon(s)) /\ Same(Abandon(s), s, {"abandoned"}) BY AbandonTyped DEF UserOn
<1>2. Same(Abandon(s), s, Aside) /\ Abandon(s).asker = s.asker BY <1>1 DEF Same, Aside, Fields
<1> QED BY <1>1, <1>2, AsideUser

\* Its button was clicked, or not.
LEMMA ClickedUser ==
    ASSUME NEW s, UserOn(s), WillBeWhole(s), NEW clicked \in BOOLEAN
    PROVE  LET t == [s EXCEPT !.clicked = clicked]
           IN  UserOn(t) /\ WillBeWhole(t) /\ Same(t, s, {"clicked"}) /\ t.asker = s.asker
<1> DEFINE t == [s EXCEPT !.clicked = clicked]
<1>1. TypeOK(t) BY DEF UserOn, TypeOK, Fields
<1>2. Same(t, s, {"clicked"}) BY DEF UserOn, TypeOK, Same, Fields
<1> HIDE DEF t
<1>3. Same(t, s, Aside) /\ t.asker = s.asker BY <1>2 DEF Same, Aside, Fields
<1> QED BY <1>1, <1>2, <1>3, AsideUser DEF t

\* What is chosen in the dialog that asks for a folder.
Chosen(files, overwrite) ==
    [Act("EXTRACT", None) EXCEPT !.files = files, !.overwrite = IF overwrite THEN "YES" ELSE "NO",
                                 !.allowed = IF overwrite THEN Files ELSE {}]

LEMMA ChosenAgreed ==
    ASSUME NEW files \in Seq(Files), NEW overwrite \in BOOLEAN
    PROVE  LET act == Chosen(files, overwrite)
           IN  act \in Acts /\ Agreed(act) /\ act.dir = "unknown" /\ act.type = "EXTRACT"
<1> DEFINE act == Chosen(files, overwrite)
<1>1. act \in Acts /\ act.files = files /\ act.dir = "unknown" /\ act.type = "EXTRACT"
      /\ act.overwrite = (IF overwrite THEN "YES" ELSE "NO")
      /\ act.allowed = (IF overwrite THEN Files ELSE {})
 BY DEF Chosen, Act, Acts, ActTypes, Working, Names
<1>2. \A f \in ToSet(files) : f \in Files BY InRange
<1> QED BY <1>1, <1>2 DEF Agreed

LEMMA SelectionsAreFiles == Selections \subseteq Seq(Files)
BY WindowAssumption

LEMMA AnswerExtractUser ==
    ASSUME Inv(w), UserSound(w), AnswerExtract
    PROVE  Reaches(w', w)
<1> DEFINE a == Answered("extract")
           s == [a EXCEPT !.clicked = FALSE]
           u == [s EXCEPT !.use_default_dir = s.non_interactive]
<1>1. UserOn(w) /\ WillBeWhole(w) /\ w.todo = "nothing" /\ "extract" \in w.dialogs
 BY IdleUser DEF AnswerExtract, Answers
<1>2. \/ w' = Closed("extract") \/ w' = [w EXCEPT !.clicked = TRUE] \/ w' = Abandon(s)
      \/ \E files \in Selections, overwrite \in BOOLEAN, dir \in {"there", "made"} :
           w' = ArchiveExtract(u, Chosen(files, overwrite), dir)
 BY DEF AnswerExtract, Chosen
<1>3. UserOn(a) /\ WillBeWhole(a) /\ Same(a, w, {"dialogs"}) /\ a.dialogs = w.dialogs \ {"extract"}
 BY <1>1, AnsweredUser
<1> HIDE DEF a
<1>4. UserOn(s) /\ WillBeWhole(s) /\ Same(s, a, {"clicked"}) BY <1>3, ClickedUser
<1>5. Closed("extract") = IF w.clicked THEN Abandon(s) ELSE StopBatch(s) BY DEF Closed, a
<1> HIDE DEF s
<1>6. Same(s, w, {"dialogs", "clicked"}) /\ s.dialogs = w.dialogs \ {"extract"} /\ s.asker = w.asker
 BY <1>3, <1>4 DEF Same, Fields
<1>7. CASE w' = Abandon(s) BY <1>4, <1>6, <1>7, AbandonUser, UserIsInv DEF Reaches, KeepsAsker
<1>8. CASE w' = Closed("extract")
 BY <1>4, <1>5, <1>6, <1>7, <1>8, StopBatchUser, UserIsInv DEF Reaches, KeepsAsker
<1>9. CASE w' = [w EXCEPT !.clicked = TRUE]
 BY <1>1, <1>9, ClickedUser, UserIsInv DEF Reaches, KeepsAsker
<1>10. ASSUME NEW files \in Selections, NEW overwrite \in BOOLEAN, NEW dir \in {"there", "made"},
              w' = ArchiveExtract(u, Chosen(files, overwrite), dir)
       PROVE  Reaches(w', w)
 <2>1. w.dialogs \subseteq {"extract", "error"}
  <3>1. w.dialogs \subseteq Dialogs /\ OneDialog(w) BY <1>1 DEF UserOn, TypeOK, UserBase
  <3> QED BY <1>1, <3>1 DEF OneDialog, Dialogs
 <2>2. w.op = None /\ ~w.installing /\ (w.present \/ w.meanwhile) /\ Kind[w.uri] # "unsupported"
       /\ (~w.meanwhile /\ w.list = <<>> => w.converted = None)
  BY <1>1 DEF UserOn, UserBase, Alone, OnShown, Pursued, Converts, NoDialog, Supported
 <2>3. /\ s.op = None /\ NoDialog(s) /\ ~s.installing /\ s.todo = "nothing"
       /\ s.present \/ s.meanwhile
       /\ Kind[s.uri] # "unsupported"
       /\ ~s.meanwhile /\ s.list = <<>> => s.converted = None
  BY <1>1, <1>6, <2>1, <2>2 DEF Same, Fields, NoDialog
 <2>4. Whole(s) BY <1>4, <2>3 DEF WillBeWhole, Under
 <2>5. TypeOK(s) /\ ~s.non_interactive /\ ~s.use_default_dir BY <1>4 DEF UserOn, UserBase, Users
 <2>6. UserOn(u) /\ Whole(u) /\ Same(u, s, {})
  <3>1. s.non_interactive = FALSE /\ s.use_default_dir = FALSE BY <2>5 DEF TypeOK
  <3>2. TypeOK(u) BY <2>5, <3>1 DEF TypeOK, Fields
  <3>3. Same(u, s, {}) BY <2>5, <3>1 DEF TypeOK, Same, Fields
  <3> HIDE DEF u
  <3>4. Same(u, s, Aside) BY <3>3 DEF Same
  <3> QED BY <1>4, <2>4, <3>2, <3>3, <3>4, AsideUser
 <2>7. files \in Seq(Files) BY SelectionsAreFiles
 <2> DEFINE act == Chosen(files, overwrite)
 <2>8. act \in Acts /\ Agreed(act) /\ act.dir = "unknown" BY <2>7, ChosenAgreed
 <2> HIDE DEF act
 <2>9. Reaches(ArchiveExtract(u, act, dir), u)
  BY <2>3, <2>6, <2>8, ArchiveExtractUser DEF Same, Fields, NoDialog
 <2>10. u.asker = w.asker BY <1>6, <2>6 DEF Same, Fields
 <2> QED BY <1>10, <2>9, <2>10 DEF Reaches, KeepsAsker, act
<1> QED BY <1>2, <1>7, <1>8, <1>9, <1>10

LEMMA AnswerNewUser ==
    ASSUME Inv(w), UserSound(w), AnswerNew
    PROVE  Reaches(w', w)
<1> DEFINE s == Answered("new")
<1>1. /\ UserOn(w) /\ WillBeWhole(w) /\ w.todo = "nothing" /\ "new" \in w.dialogs
 BY IdleUser DEF AnswerNew, Answers
<1>2. UserOn(s) /\ WillBeWhole(s) /\ Same(s, w, {"dialogs"}) /\ s.dialogs = w.dialogs \ {"new"}
 BY <1>1, AnsweredUser
<1>3. \/ w' = Done(s, "CREATING", "STOPPED") \/ w' = s
      \/ \E archive \in Archives :
           /\ ~Exists(w, archive)
           /\ w' = IF Kind[archive] = "foreign" THEN ArchiveNew(w, archive)
                   ELSE ArchiveNew(s, archive)
 BY DEF AnswerNew
<1> HIDE DEF s
<1>4. s.asker = w.asker BY <1>2 DEF Same, Fields
<1>5. CASE w' = s BY <1>2, <1>4, <1>5, UserIsInv DEF Reaches, KeepsAsker
<1>6. CASE w' = Done(s, "CREATING", "STOPPED")
 <2>1. HandleErrors(s, "CREATING", "STOPPED") = s BY HandledIs
 <2>2. s.alive BY <1>2 DEF UserOn, Goes
 <2>3. w' = StopBatch(s) BY <1>6, <2>1, <2>2 DEF Done, Continue
 <2> QED BY <1>2, <1>4, <2>3, StopBatchUser, UserIsInv DEF Reaches, KeepsAsker
<1>7. w.op = None /\ ~w.installing BY <1>1 DEF UserOn, UserBase, Alone
<1>8. NoDialog(s)
 <2>1. w.dialogs \subseteq Dialogs /\ OneDialog(w) BY <1>1 DEF UserOn, TypeOK, UserBase
 <2> QED BY <1>1, <1>2, <2>1 DEF OneDialog, Dialogs, NoDialog
<1>9. ASSUME NEW archive \in Archives, ~Exists(w, archive),
             w' = IF Kind[archive] = "foreign" THEN ArchiveNew(w, archive)
                  ELSE ArchiveNew(s, archive)
      PROVE  Reaches(w', w)
 <2>1. Kind[archive] \in {"absent", "foreign"} BY <1>9, ArchiveNewKind
 <2>2. CASE Kind[archive] = "foreign"
  <3>1. "password" \notin w.dialogs
   <4>1. w.dialogs \subseteq Dialogs /\ OneDialog(w) BY <1>1 DEF UserOn, TypeOK, UserBase
   <4> QED BY <1>1, <4>1 DEF OneDialog, Dialogs
  <3>2. Reaches(ArchiveNew(w, archive), w)
   BY <1>1, <1>7, <2>1, <2>2, <3>1, ArchiveNewUser DEF Under
  <3> QED BY <1>9, <2>2, <3>2
 <2>3. CASE Kind[archive] # "foreign"
  <3>1. s.op = None /\ ~s.installing /\ s.todo = "nothing" BY <1>1, <1>2, <1>7 DEF Same, Fields
  <3>2. Reaches(ArchiveNew(s, archive), s)
   BY <1>2, <1>8, <2>1, <3>1, ArchiveNewUser DEF Under, NoDialog
  <3> QED BY <1>4, <1>9, <2>3, <3>2 DEF Reaches, KeepsAsker
 <2> QED BY <2>2, <2>3
<1> QED BY <1>3, <1>5, <1>6, <1>9

\* It is for a batch only.
LEMMA AnswerBatchAddUser ==
    ASSUME Inv(w), UserSound(w), AnswerBatchAdd
    PROVE  FALSE
<1>1. "batch_add" \in w.dialogs BY DEF AnswerBatchAdd, Answers
<1>2. OneDialog(w) BY DEF UserSound, UserBase
<1> QED BY <1>1, <1>2 DEF OneDialog, Dialogs

----
(* The user asks for something. *)

\* Where he may, nothing else goes on but the search for a package.
Free(s) ==
    /\ UserOn(s) /\ WillBeWhole(s) /\ Whole(s) /\ s.todo = "nothing" /\ s.dialogs = {}
    /\ s.op = None /\ s.converted = None

LEMMA FreeUser ==
    ASSUME Inv(w), UserSound(w), MayAsk
    PROVE  Free(w)
<1>1. UserOn(w) /\ WillBeWhole(w) /\ w.todo = "nothing" BY IdleUser DEF MayAsk
<1>2. w.dialogs = {} /\ w.op = None /\ w.converted = None BY DEF MayAsk, Busy
<1> QED BY <1>1, <1>2 DEF Free, WillBeWhole, Under

LEMMA RequestOpenUser ==
    ASSUME Inv(w), UserSound(w), RequestOpen
    PROVE  Reaches(w', w)
<1> DEFINE s == [w EXCEPT !.meanwhile = w.installing]
<1>1. Free(w) BY FreeUser DEF RequestOpen
<1>2. PICK archive \in Archives : w' = ArchiveOpen(s, archive) BY DEF RequestOpen
<1>3. TypeOK(s) BY <1>1 DEF Free, UserOn, TypeOK, Fields
<1>4. Same(s, w, {"meanwhile"}) BY <1>1 DEF Free, UserOn, TypeOK, Same, Fields
<1>5. s.meanwhile = w.installing BY <1>1 DEF Free, UserOn, TypeOK, Fields
<1> HIDE DEF s
<1> USE <1>1, <1>3, <1>4, <1>5 DEF Free, UserOn, UserBase, Same, Fields
<1>6. Goes(s) /\ Untold(s) /\ Users(s) /\ DropList(s) /\ Waits(s) /\ OneDialog(s)
 BY DEF Goes, Untold, Users, DropList, Waits, OneDialog
<1>7. Extraction(s) BY DEF Extraction, Asking, Replaces
<1>8. Alone(s) /\ OneThing(s) /\ Converts(s)
 BY DEF Alone, OneThing, Converts, Under, LoadOnly, NoDialog
<1>9. OnShown(s) BY DEF OnShown, Pursued
<1>10. Noted(s) /\ Supported(s) BY DEF Noted, Supported, Under, LoadOnly
<1>11. Asked(s) BY DEF Asked, Waits, AskerIsNoted
<1>12. UserOn(s) /\ WillBeWhole(s)
 BY <1>6, <1>7, <1>8, <1>9, <1>10, <1>11 DEF WillBeWhole, Whole, Under
<1>13. NoDialog(s) /\ ~Under(s, {"EXTRACTING", "TESTING"}) /\ (~s.meanwhile => ~s.installing)
 BY DEF NoDialog, Under
<1>14. Reaches(ArchiveOpen(s, archive), s) BY <1>12, <1>13, ArchiveOpenUser
<1> QED BY <1>2, <1>14 DEF Reaches, KeepsAsker

LEMMA RequestNewUser ==
    ASSUME Inv(w), UserSound(w), RequestNew
    PROVE  Reaches(w', w)
<1> DEFINE t == Show(w, "new")
<1>1. Free(w) /\ ~w.installing /\ w' = t BY FreeUser DEF RequestNew, AsksIdle
<1>2. UserOn(t) /\ Same(t, w, {"dialogs"}) BY <1>1, ShowUser DEF Free
<1>3. WillBeWhole(t) /\ t.asker = w.asker BY <1>1, <1>2 DEF Free, WillBeWhole, Whole, Same, Fields
<1> QED BY <1>1, <1>2, <1>3, UserIsInv DEF Reaches, KeepsAsker

LEMMA RequestExtractUser ==
    ASSUME Inv(w), UserSound(w), RequestExtract
    PROVE  Reaches(w', w)
<1> DEFINE t == Show(w, "extract")
           u == [t EXCEPT !.clicked = FALSE]
<1>1. Free(w) /\ ~w.installing /\ w.present /\ w' = u
 BY FreeUser DEF RequestExtract, CanExtract, AsksArchive, AsksIdle
<1>2. UserOn(t) /\ Same(t, w, {"dialogs"}) BY <1>1, ShowUser DEF Free
<1> HIDE DEF t
<1>3. WillBeWhole(t) /\ t.asker = w.asker BY <1>1, <1>2 DEF Free, WillBeWhole, Whole, Same, Fields
<1>4. UserOn(u) /\ WillBeWhole(u) /\ u.asker = t.asker BY <1>2, <1>3, ClickedUser
<1> HIDE DEF u
<1> QED BY <1>1, <1>3, <1>4, UserIsInv DEF Reaches, KeepsAsker

\* What is dropped on a window that cannot take it stays in its list.
LEMMA RequestDropUser ==
    ASSUME Inv(w), UserSound(w), RequestDrop
    PROVE  Reaches(w', w)
<1> DEFINE list == << Act("ADD", None) >>
           s == [w EXCEPT !.list = list, !.batch_action = 0, !.meant = None]
<1>1. Free(w) /\ ~w.installing BY FreeUser DEF RequestDrop, AsksIdle
<1>2. w' = IF w.present /\ Writable(w) THEN AddDropped(w, FALSE, FALSE) ELSE Show(s, "new")
 BY DEF RequestDrop
<1>3. CASE w.present /\ Writable(w)
 <2>1. Reaches(AddDropped(w, FALSE, FALSE), w)
  BY <1>1, <1>3, AddDroppedUser DEF Free, Under, NoDialog
 <2> QED BY <1>2, <1>3, <2>1
<1>4. CASE ~(w.present /\ Writable(w))
 <2>1. Act("ADD", None) \in Acts BY ActTyped DEF ActTypes, Working, Names
 <2>2. list \in Seq(Acts) /\ list = << Act("ADD", None) >> /\ list # <<>> BY <2>1
 <2> HIDE DEF list
 <2>3. TypeOK(s) BY <1>1, <2>2 DEF Free, UserOn, TypeOK, Fields, Names
 <2>4. Same(s, w, {"list", "batch_action", "meant"}) /\ s.list = list
  BY <1>1 DEF Free, UserOn, TypeOK, Same, Fields
 <2> HIDE DEF s
 <2> USE <1>1, <2>2, <2>3, <2>4 DEF Free, UserOn, UserBase, Same, Fields
 <2>5. Goes(s) /\ Untold(s) /\ Users(s) /\ DropList(s) /\ Waits(s) /\ OneDialog(s)
  BY DEF Goes, Untold, Users, DropList, Waits, OneDialog
 <2>6. Extraction(s) BY DEF Extraction, Asking, Replaces
 <2>7. Alone(s) /\ OneThing(s) /\ Converts(s)
  BY DEF Alone, OneThing, Converts, Under, LoadOnly, NoDialog
 <2>8. OnShown(s) BY DEF OnShown, Pursued, LoadOnly
 <2>9. Noted(s) /\ Supported(s) /\ Asked(s)
  BY DEF Noted, Supported, Asked, AskerIsNoted, Under, LoadOnly
 <2>10. UserOn(s) BY <2>5, <2>6, <2>7, <2>8, <2>9
 <2> DEFINE t == Show(s, "new")
 <2>11. UserOn(t) /\ Same(t, s, {"dialogs"}) BY <2>10, ShowUser
 <2> HIDE DEF t
 <2>12. WillBeWhole(t) /\ t.asker = w.asker BY <2>11 DEF WillBeWhole, Whole
 <2>13. w' = t BY <1>2, <1>4 DEF t
 <2> QED BY <2>11, <2>12, <2>13, UserIsInv DEF Reaches, KeepsAsker
<1> QED BY <1>3, <1>4

LEMMA RequestRemoveUser ==
    ASSUME Inv(w), UserSound(w), RequestRemove
    PROVE  Reaches(w', w)
<1> DEFINE op == Op("DELETING")
<1>1. Free(w) /\ ~w.installing /\ w.present /\ w' = Start(w, op)
 BY FreeUser DEF RequestRemove, CanExtract, AsksArchive, AsksIdle
<1>2. op \in Ops BY OpTyped DEF Actions
<1>3. op.action = "DELETING" /\ op.files = <<>> /\ op.unasked = FALSE BY DEF Op
<1> HIDE DEF op
<1>4. Reaches(Start(w, op), w) BY <1>1, <1>2, <1>3, StartUser DEF Free, NoDialog
<1> QED BY <1>1, <1>4

\* The user asks for something of the archive that is shown.
LEMMA AsksArchiveUser ==
    ASSUME Inv(w), UserSound(w), AsksArchive
    PROVE  Free(w) /\ ~w.installing /\ w.present /\ NoDialog(w) /\ Kind[w.uri] # "unsupported"
<1> QED BY FreeUser DEF AsksArchive, AsksIdle, Free, UserOn, UserBase, Supported, NoDialog

LEMMA RequestDragOutUser ==
    ASSUME Inv(w), UserSound(w), RequestDragOut
    PROVE  Reaches(w', w)
<1>1. Free(w) /\ ~w.installing /\ w.present /\ NoDialog(w) /\ Kind[w.uri] # "unsupported"
 BY AsksArchiveUser DEF RequestDragOut, CanExtract
<1>2. PICK files \in Selections \ {<<>>}, dir \in {"there", "made", "refused"} :
        w' = ArchiveExtract(w, [Act("EXTRACT", None) EXCEPT !.files = files, !.overwrite = "ASK"], dir)
 BY DEF RequestDragOut
<1> DEFINE act == [Act("EXTRACT", None) EXCEPT !.files = files, !.overwrite = "ASK"]
<1>3. files \in Seq(Files) BY SelectionsAreFiles
<1>4. act \in Acts /\ act.overwrite = "ASK" /\ act.dir = "unknown"
 BY <1>3 DEF Act, Acts, ActTypes, Working, Names
<1>5. Agreed(act) BY <1>4 DEF Agreed
<1> HIDE DEF act
<1>6. act.dir \in {"unknown", dir} /\ dir \in {"there", "made", "refused"} BY <1>4
<1>7. Reaches(ArchiveExtract(w, act, dir), w) BY <1>1, <1>4, <1>5, <1>6, ArchiveExtractUser DEF Free
<1> QED BY <1>2, <1>7 DEF act

LEMMA RequestTestUser ==
    ASSUME Inv(w), UserSound(w), RequestTest
    PROVE  Reaches(w', w)
<1>1. Free(w) /\ ~w.installing /\ w.present /\ NoDialog(w) BY AsksArchiveUser DEF RequestTest
<1> QED BY <1>1, ArchiveTestUser DEF Free, RequestTest

LEMMA RequestSaveAsUser ==
    ASSUME Inv(w), UserSound(w), RequestSaveAs
    PROVE  Reaches(w', w)
<1>1. Free(w) /\ ~w.installing /\ w.present /\ NoDialog(w) /\ Kind[w.uri] # "unsupported"
 BY AsksArchiveUser DEF RequestSaveAs
<1> QED BY <1>1, SaveAsUser DEF Free, RequestSaveAs

LEMMA RequestReloadUser ==
    ASSUME Inv(w), UserSound(w), RequestReload
    PROVE  Reaches(w', w)
<1>1. Free(w) /\ ~w.installing /\ w.present /\ NoDialog(w) BY AsksArchiveUser DEF RequestReload
<1> QED BY <1>1, ReloadUser DEF Free, RequestReload

LEMMA RequestCloseUser ==
    ASSUME Inv(w), UserSound(w), RequestClose
    PROVE  Inv(w') /\ Resumes(w', w)
<1> DEFINE t == Destroy(w)
<1>1. UserOn(w) /\ w' = t BY FreeUser DEF RequestClose, AsksIdle, Free
<1>2. /\ TypeOK(t) /\ ~t.alive /\ t.converted = None /\ t.op = None
      /\ Same(t, w, {"alive", "dialogs", "todo", "op", "converted", "current", "asker"})
 BY <1>1, DestroyTyped DEF UserOn
<1>3. t.todo = "nothing" BY <1>1 DEF Destroy, UserOn, TypeOK, Fields
<1> HIDE DEF t
<1>4. ~t.overlap /\ t.replies = <<>> /\ ~t.touched /\ t.orphaned = "no"
 BY <1>1, <1>2 DEF UserOn, Goes, Untold, Same, Fields
<1>5. Proper(t) BY <1>2, <1>4, EmptySeq DEF Proper
<1>6. Inv(t) BY <1>2, <1>5 DEF Inv, Goes
<1> QED BY <1>1, <1>3, <1>6 DEF Resumes

----
(* The handlers, in a window for a batch. *)

\* The batch goes on.
Held(s) ==
    /\ TypeOK(s) /\ Goes(s) /\ Untold(s) /\ Extraction(s) /\ Batch(s)
    /\ s.batch_mode /\ ~s.shown

Quiet(s) ==
    /\ s.op = None /\ s.todo = "nothing" /\ s.dialogs = {} /\ ~s.installing
    /\ s.asker = "nothing"

\* It has come to an action, and nothing was done yet, or all that it began has ended.
Between(s) == Held(s) /\ Position(s) /\ Quiet(s)

\* An error is shown, and the batch goes no further.
Failed(s) ==
    /\ Held(s) /\ Position(s) /\ s.todo = "nothing" /\ s.op = None /\ ~s.installing
    /\ s.dialogs = {"error"} /\ s.showing_error_dialog /\ s.destroy_with_error_dialog
    /\ s.asker = "nothing"

\* The window was freed.
Dead(s) ==
    /\ TypeOK(s) /\ ~s.alive /\ s.op = None /\ s.converted = None /\ ~s.overlap
    /\ s.orphaned = "no" /\ s.todo = "nothing"
    /\ s.replies = <<"error">> \/ (s.replies = <<>> /\ ~s.touched)

LEMMA NoWaitResumes ==
    ASSUME NEW s, NEW t, s.asker = "nothing" \/ t.todo = "nothing" \/ t.asker # "nothing"
    PROVE  Resumes(t, s)
BY DEF Resumes

LEMMA BatchIsInv ==
    ASSUME NEW s, Held(s), Position(s), Stage(s)
    PROVE  Inv(s)
<1>1. s.op # None => ~s.op.unasked BY DEF Stage
<1>2. s.todo = "nothing" => s.op # None \/ s.dialogs # {} \/ s.installing \/ s.abandoned
 BY DEF Stage, Shows
<1>3. s.op # None /\ s.op.files # <<>> => s.op.replaced \subseteq s.current.allowed
 BY DEF Held, Extraction, Replaces
<1> QED BY <1>1, <1>2, <1>3, EmptySeq DEF Held, Goes, Untold, Batch, Proper, Busy, Inv, BatchSound

LEMMA DoomedIsInv ==
    ASSUME NEW s, TypeOK(s), Goes(s), Untold(s), Extraction(s), Batch(s), Doomed(s)
    PROVE  Inv(s)
<1> QED BY EmptySeq DEF Goes, Untold, Batch, Doomed, Proper, Inv, BatchSound

LEMMA DeadIsInv ==
    ASSUME NEW s, Dead(s)
    PROVE  Inv(s) /\ s.todo = "nothing"
<1>1. Len(s.replies) <= 1 /\ s.replies # <<"done">>
 <2>1. CASE s.replies = <<"error">>
  <3>1. Len(<<"error">>) = 1 /\ <<"error">>[1] = "error" /\ <<"done">>[1] = "done" OBVIOUS
  <3>2. <<"error">> # <<"done">> BY <3>1
  <3> QED BY <2>1, <3>1, <3>2
 <2>2. CASE s.replies = <<>> BY <2>2, EmptySeq
 <2> QED BY <2>1, <2>2 DEF Dead
<1> QED BY <1>1 DEF Dead, Proper, Inv, Goes

LEMMA DestroyDead ==
    ASSUME NEW s, TypeOK(s), ~s.overlap, s.orphaned = "no",
           s.replies = <<"error">> \/ (s.replies = <<>> /\ ~s.touched)
    PROVE  LET t == Destroy(s)
           IN  Dead(t) /\ t.replies = s.replies /\ t.touched = s.touched
<1> DEFINE t == Destroy(s)
<1>1. /\ TypeOK(t) /\ ~t.alive /\ t.converted = None /\ t.op = None
      /\ Same(t, s, {"alive", "dialogs", "todo", "op", "converted", "current", "asker"})
 BY DestroyTyped
<1>2. t.todo = "nothing" BY DEF Destroy, TypeOK, Fields
<1> HIDE DEF t
<1> QED BY <1>1, <1>2 DEF Dead, Same, Fields, t

LEMMA UseDead ==
    ASSUME NEW s, Dead(s), s.replies = <<"error">>
    PROVE  Dead(Use(s)) /\ Use(s).replies = <<"error">>
<1> QED BY UseTyped DEF Dead, Same, Fields

\* Whatever is done with it then, it stays as it is.
LEMMA CloseDead ==
    ASSUME NEW s, Dead(s)
    PROVE  LET t == Close(s)
           IN  /\ Dead(t) /\ t.replies = s.replies /\ t.non_interactive = s.non_interactive
               /\ t.touched = s.touched
<1> DEFINE t == Close(s)
<1>1. TypeOK(t) /\ Same(t, s, {"present", "new", "password"}) BY CloseTyped DEF Dead
<1> HIDE DEF t
<1> QED BY <1>1 DEF Dead, Same, Fields, t

LEMMA StopBatchDead ==
    ASSUME NEW s, Dead(s), s.replies = <<"error">>
    PROVE  Dead(StopBatch(s)) /\ StopBatch(s).replies = <<"error">>
<1> DEFINE t == [s EXCEPT !.use_default_dir = FALSE]
           n == [t EXCEPT !.batch_mode = FALSE]
           v == [t EXCEPT !.shown = TRUE]
<1>1. TypeOK(t) BY DEF Dead, TypeOK, Fields
<1>2. Same(t, s, {"use_default_dir"}) BY DEF Dead, TypeOK, Same, Fields
<1>3. StopBatch(s) = IF ~s.non_interactive THEN s
                     ELSE IF s.batch_mode /\ ~s.showing_error_dialog THEN Destroy(t)
                     ELSE IF s.batch_mode THEN n ELSE Close(v)
 BY DEF StopBatch
<1> HIDE DEF t
<1>4. TypeOK(n) BY <1>1 DEF TypeOK, Fields
<1>5. TypeOK(v) BY <1>1 DEF TypeOK, Fields
<1>6. Same(n, t, {"batch_mode"}) BY <1>1 DEF TypeOK, Same, Fields
<1>7. Same(v, t, {"shown"}) BY <1>1 DEF TypeOK, Same, Fields
<1> HIDE DEF n, v
<1>8. Dead(t) /\ t.replies = <<"error">> BY <1>1, <1>2 DEF Dead, Same, Fields
<1>9. Dead(n) /\ n.replies = <<"error">> BY <1>4, <1>6, <1>8 DEF Dead, Same, Fields
<1>10. Dead(v) /\ v.replies = <<"error">> BY <1>5, <1>7, <1>8 DEF Dead, Same, Fields
<1>11. Dead(Close(v)) /\ Close(v).replies = <<"error">> BY <1>10, CloseDead
<1>12. Dead(Destroy(t)) /\ Destroy(t).replies = <<"error">> BY <1>1, <1>8, DestroyDead DEF Dead
<1> QED BY <1>3, <1>9, <1>11, <1>12

\* What the invariant says nothing of, in a window for a batch.
BatchAside == {"new", "password", "clicked", "saved", "abandoned", "use_default_dir",
               "use_progress_dialog", "left", "whole"}

\* A record that differs from one that the batch has come to, in no more than these.
LEMMA BetweenKept ==
    ASSUME NEW s, Between(s), NEW t, TypeOK(t), Same(t, s, BatchAside \cup {"present"}),
           t.present => s.present
    PROVE  Between(t)
<1> USE DEF Same, Fields, BatchAside
<1>1. Held(t) BY DEF Between, Held, Goes, Untold, Batch, Extraction, Asking, Replaces
<1>2. Position(t) BY DEF Between, Position, Doing, IsDone
<1>3. Quiet(t) BY DEF Between, Quiet
<1> QED BY <1>1, <1>2, <1>3 DEF Between

LEMMA CloseBetween ==
    ASSUME NEW s, Between(s)
    PROVE  Between(Close(s)) /\ ~Close(s).present
           /\ Same(Close(s), s, {"present", "new", "password"})
<1>1. /\ TypeOK(Close(s)) /\ Same(Close(s), s, {"present", "new", "password"})
      /\ ~Close(s).present
 BY CloseTyped DEF Between, Held
<1>2. Same(Close(s), s, BatchAside \cup {"present"}) BY <1>1 DEF Same, BatchAside
<1> QED BY <1>1, <1>2, BetweenKept

\* Over D-Bus the error is told, and the window freed.
LEMMA ShowErrorBatch ==
    ASSUME NEW s, Between(s)
    PROVE  LET t == ShowError(s)
           IN  /\ (Dead(t) /\ t.replies = <<"error">>) \/ Failed(t)
               /\ Inv(t) /\ t.todo = "nothing" /\ t.non_interactive
<1> DEFINE t == ShowError(s)
<1>1. TypeOK(s) /\ s.batch_mode /\ s.replies = <<>> /\ ~s.overlap /\ s.orphaned = "no"
      /\ s.non_interactive
 BY DEF Between, Held, Untold, Goes, Batch
<1>2. CASE ~s.use_progress_dialog
 <2> DEFINE u == [s EXCEPT !.replies = Append(@, "error")]
 <2>1. t = Destroy(u) BY <1>1, <1>2 DEF ShowError
 <2>2. Append(s.replies, "error") = <<"error">>
  <3>1. Append(<<>>, "error") = <<"error">> OBVIOUS
  <3> QED BY <1>1, <3>1
 <2> DEFINE replies == Append(s.replies, "error")
 <2>3. TypeOK(u)
  <3>1. s.replies \in Seq({"error", "done"}) /\ "error" \in {"error", "done"} BY <1>1 DEF TypeOK
  <3>2. replies \in Seq({"error", "done"}) BY <3>1, AppendProperties
  <3> HIDE DEF replies
  <3>3. u = [s EXCEPT !.replies = replies] BY DEF replies
  <3> QED BY <1>1, <3>2, <3>3 DEF TypeOK, Fields
 <2>4. Same(u, s, {"replies"}) /\ u.replies = <<"error">> BY <1>1, <2>2 DEF TypeOK, Same, Fields
 <2> HIDE DEF u
 <2>5. ~u.overlap /\ u.orphaned = "no" /\ u.non_interactive BY <1>1, <2>4 DEF Same, Fields
 <2>6. Dead(Destroy(u)) /\ Destroy(u).replies = <<"error">> BY <2>3, <2>4, <2>5, DestroyDead
 <2>7. Destroy(u).non_interactive BY <2>3, <2>5, DestroyTyped DEF Same, Fields
 <2> QED BY <2>1, <2>6, <2>7, DeadIsInv
<1>3. CASE s.use_progress_dialog
 <2> DEFINE u == Show(s, "error")
            v == [u EXCEPT !.showing_error_dialog = TRUE,
                           !.destroy_with_error_dialog = @ \/ s.batch_mode]
 <2>1. t = v BY <1>3 DEF ShowError
 <2>2. TypeOK(u) /\ Same(u, s, {"dialogs"}) /\ u.dialogs = {"error"}
  <3>1. s.dialogs = {} BY DEF Between, Quiet
  <3> QED BY <1>1, <3>1, ShowTyped DEF Dialogs
 <2> HIDE DEF u
 <2>3. TypeOK(v) BY <2>2 DEF TypeOK, Fields
 <2>4. Same(v, u, {"showing_error_dialog", "destroy_with_error_dialog"})
       /\ v.showing_error_dialog
  BY <2>2 DEF TypeOK, Same, Fields
 <2>5. v.destroy_with_error_dialog = (u.destroy_with_error_dialog \/ s.batch_mode)
  BY <2>2 DEF TypeOK, Fields
 <2> HIDE DEF v
 <2>6. Same(v, s, {"dialogs", "showing_error_dialog", "destroy_with_error_dialog"})
       /\ v.dialogs = {"error"} /\ v.destroy_with_error_dialog
  BY <1>1, <2>2, <2>4, <2>5 DEF Same, Fields
 <2> USE <2>3, <2>6 DEF Same, Fields
 <2>7. Held(v) BY DEF Between, Held, Goes, Untold, Batch, Extraction, Asking, Replaces
 <2>8. Position(v) BY DEF Between, Position, Doing, IsDone
 <2>9. Failed(v) BY <2>4, <2>7, <2>8 DEF Failed, Between, Quiet
 <2>10. Stage(v) BY <2>9 DEF Failed, Stage, Shows
 <2> QED BY <1>1, <2>1, <2>7, <2>8, <2>9, <2>10, BatchIsInv DEF Failed
<1> QED BY <1>1, <1>2, <1>3 DEF TypeOK

\* Given up after an error was shown.
DoomedOn(s) == TypeOK(s) /\ Goes(s) /\ Untold(s) /\ Extraction(s) /\ Batch(s) /\ Doomed(s)

LEMMA FailedUsed ==
    ASSUME NEW s, Failed(s)
    PROVE  Failed(Use(s)) /\ Failed(Close(s)) /\ s.alive /\ s.non_interactive
<1>1. TypeOK(s) /\ s.alive /\ ~s.touched /\ s.non_interactive
 BY DEF Failed, Held, Goes, Untold, Batch
<1>2. TypeOK(Use(s)) /\ Same(Use(s), s, {"touched"}) /\ Use(s).touched = (s.touched \/ ~s.alive)
 BY <1>1, UseTyped
<1>3. TypeOK(Close(s)) /\ Same(Close(s), s, {"present", "new", "password"}) /\ ~Close(s).present
 BY <1>1, CloseTyped
<1>4. ~Use(s).touched BY <1>1, <1>2
<1> DEFINE u == Use(s)
           c == Close(s)
<1> HIDE DEF u, c
<1>5. Failed(u)
 <2> USE <1>2, <1>4 DEF Same, Fields, u
 <2>1. Held(u) BY DEF Failed, Held, Goes, Untold, Batch, Extraction, Asking, Replaces
 <2>2. Position(u) BY DEF Failed, Position, Doing, IsDone
 <2> QED BY <2>1, <2>2 DEF Failed
<1>6. Failed(c)
 <2> USE <1>3 DEF Same, Fields, c
 <2>1. Held(c) BY DEF Failed, Held, Goes, Untold, Batch, Extraction, Asking, Replaces
 <2>2. Position(c) BY DEF Failed, Position, Doing, IsDone
 <2> QED BY <2>1, <2>2 DEF Failed
<1> QED BY <1>1, <1>5, <1>6 DEF u, c

LEMMA StopFailed ==
    ASSUME NEW s, Failed(s)
    PROVE  DoomedOn(StopBatch(s))
<1> DEFINE t == [s EXCEPT !.use_default_dir = FALSE, !.batch_mode = FALSE]
<1>1. TypeOK(s) /\ s.batch_mode /\ s.showing_error_dialog /\ s.non_interactive
 BY DEF Failed, Held, Batch
<1>2. StopBatch(s) = t BY <1>1 DEF StopBatch, TypeOK, Fields
<1>3. TypeOK(t) BY <1>1 DEF TypeOK, Fields
<1>4. Same(t, s, {"use_default_dir", "batch_mode"}) BY <1>1 DEF TypeOK, Same, Fields
<1>5. ~t.batch_mode BY <1>1 DEF TypeOK, Fields
<1> HIDE DEF t
<1> USE <1>3, <1>4, <1>5 DEF Same, Fields
<1>6. Goes(t) /\ Untold(t) /\ Batch(t) BY DEF Failed, Held, Goes, Untold, Batch
<1>7. Extraction(t) BY DEF Failed, Held, Extraction, Asking, Replaces
<1>8. Doomed(t) BY DEF Failed, Doomed
<1> QED BY <1>2, <1>6, <1>7, <1>8 DEF DoomedOn

\* Stopped a second time, it is shown, and still goes with the dialog.
LEMMA StopDoomed ==
    ASSUME NEW s, DoomedOn(s)
    PROVE  LET t == Use(StopBatch(Close(s))) IN Inv(t) /\ t.todo = "nothing"
<1> DEFINE c == Close(s)
           t == [c EXCEPT !.use_default_dir = FALSE, !.shown = TRUE]
           d == Close(t)
           u == Use(d)
<1>1. TypeOK(s) /\ ~s.batch_mode /\ s.non_interactive BY DEF DoomedOn, Doomed, Batch
<1>2. TypeOK(c) /\ Same(c, s, {"present", "new", "password"}) BY <1>1, CloseTyped
<1> HIDE DEF c
<1>3. ~c.batch_mode /\ c.non_interactive BY <1>1, <1>2 DEF Same, Fields
<1>4. StopBatch(c) = d BY <1>2, <1>3 DEF StopBatch, TypeOK, Fields
<1>5. TypeOK(t) BY <1>2 DEF TypeOK, Fields
<1>6. Same(t, c, {"use_default_dir", "shown"}) BY <1>2 DEF TypeOK, Same, Fields
<1> HIDE DEF t
<1>7. TypeOK(d) /\ Same(d, t, {"present", "new", "password"}) BY <1>5, CloseTyped
<1> HIDE DEF d
<1>8. TypeOK(u) /\ Same(u, d, {"touched"}) /\ u.touched = (d.touched \/ ~d.alive) BY <1>7, UseTyped
<1> HIDE DEF u
<1>9. Same(d, s, {"use_default_dir", "shown", "present", "new", "password"})
 BY <1>2, <1>6, <1>7 DEF Same
<1>10. d.alive /\ ~d.touched BY <1>9 DEF DoomedOn, Goes, Untold, Same, Fields
<1>11. Same(u, s, {"use_default_dir", "shown", "present", "new", "password", "touched"})
       /\ ~u.touched
 BY <1>8, <1>9, <1>10 DEF Same
<1> USE <1>8, <1>11 DEF Same, Fields, DoomedOn
<1>12. Goes(u) /\ Untold(u) /\ Batch(u) BY DEF Goes, Untold, Batch
<1>13. Extraction(u) BY DEF Extraction, Asking, Replaces
<1>14. Doomed(u) BY DEF Doomed
<1>15. Inv(u) /\ u.todo = "nothing" BY <1>12, <1>13, <1>14, DoomedIsInv DEF Doomed
<1> QED BY <1>4, <1>15 DEF c, u

\* Stopped without an error, the window is freed.
LEMMA StopBetween ==
    ASSUME NEW s, Between(s)
    PROVE  LET t == StopBatch(s)
           IN  Dead(t) /\ Inv(t) /\ t.todo = "nothing" /\ t.replies = <<>> /\ ~t.touched
<1> DEFINE t == [s EXCEPT !.use_default_dir = FALSE]
<1>1. TypeOK(s) /\ s.batch_mode /\ ~s.showing_error_dialog /\ s.non_interactive
 BY DEF Between, Held, Batch, Quiet
<1>2. StopBatch(s) = Destroy(t) BY <1>1 DEF StopBatch
<1>3. TypeOK(t) BY <1>1 DEF TypeOK, Fields
<1>4. Same(t, s, {"use_default_dir"}) BY <1>1 DEF TypeOK, Same, Fields
<1> HIDE DEF t
<1>5. ~t.overlap /\ t.orphaned = "no" /\ t.replies = <<>> /\ ~t.touched
 BY <1>4 DEF Between, Held, Goes, Untold, Same, Fields
<1>6. Dead(Destroy(t)) /\ Destroy(t).replies = <<>> /\ Destroy(t).touched = t.touched
 BY <1>3, <1>5, DestroyDead
<1> QED BY <1>2, <1>5, <1>6, DeadIsInv

\* What the actions of a batch are, and in what order.
LEMMA BatchTypes ==
    ASSUME NEW list \in Seq(Acts), IsBatch(list), NEW i \in DOMAIN list
    PROVE  /\ list[i].type \in Working \cup {"LOAD", "OPEN", "CLOSE", "QUIT"}
           /\ list[i].type # "QUIT" => i < Len(list) /\ Follows(list[i], list[i + 1])
           /\ list[i].type = "QUIT" => i = Len(list)
<1> USE DEF IsBatch
<1>1. i \in 1 .. Len(list) /\ Len(list) \in Nat OBVIOUS
<1>2. i = 1 \/ (i - 1 \in 1 .. Len(list) - 1 /\ Follows(list[i - 1], list[i]))
 <2>1. CASE i = 1 BY <2>1
 <2>2. CASE i # 1
  <3> QED BY <1>1, <2>2
 <2> QED BY <2>1, <2>2
<1>3. list[i].type \in Working \cup {"LOAD", "OPEN", "CLOSE", "QUIT"} BY <1>2 DEF Follows
<1>4. i < Len(list) => Follows(list[i], list[i + 1])
 <2> QED BY <1>1
<1>5. list[i].type # "QUIT" => i < Len(list) BY <1>1
<1>6. list[i].type = "QUIT" => ~(i < Len(list)) BY <1>4 DEF Follows, Working
<1> QED BY <1>1, <1>3, <1>4, <1>5, <1>6

\* The next action is come to when what it needs is there.
LEMMA ExecNextBatch ==
    ASSUME NEW s, Held(s), Quiet(s), s.batch_action \in DOMAIN s.list,
           \A i \in 1 .. s.batch_action : IsDone(s, i), Doing(s).type # "QUIT",
           Doing(s).type \in {"LOAD", "OPEN"} => s.meant = s.uri,
           Doing(s).type = "LOAD" => s.uri = Doing(s).archive,
           Doing(s).type = "CLOSE" => ~s.present
    PROVE  LET t == ExecNext(s) IN Inv(t) /\ t.asker = s.asker
<1> DEFINE t == ExecNext(s)
           next == IF s.batch_action < Len(s.list) THEN s.batch_action + 1 ELSE 0
<1>1. TypeOK(s) /\ s.list \in Seq(Acts) /\ IsBatch(s.list) BY DEF Held, TypeOK, Batch
<1>2. /\ TypeOK(t) /\ Same(t, s, {"batch_action", "batch_mode", "todo"})
      /\ t.batch_action = next /\ t.batch_mode = (s.batch_mode /\ next # 0)
      /\ t.todo = IF next # 0 THEN "list" ELSE "nothing"
 BY <1>1, ExecNextTyped
<1>3. s.batch_action < Len(s.list) /\ Follows(Doing(s), s.list[s.batch_action + 1])
 BY <1>1, BatchTypes DEF Doing
<1>4. next = s.batch_action + 1 /\ next # 0 /\ next \in DOMAIN s.list
      /\ next - 1 = s.batch_action
 BY <1>1, <1>3
<1> HIDE DEF t, next
<1>5. t.batch_mode /\ t.todo = "list" BY <1>2, <1>4 DEF Held
<1> USE <1>1, <1>2, <1>5 DEF Same, Fields
<1>6. Held(t) BY DEF Held, Goes, Untold, Batch, Extraction, Asking, Replaces
<1>7. Position(t)
 <2>1. Doing(t) = s.list[s.batch_action + 1] BY <1>4 DEF Doing
 <2>2. t.batch_action \in DOMAIN t.list BY <1>4
 <2>3. \A i \in 1 .. t.batch_action - 1 : IsDone(t, i) BY <1>4 DEF IsDone
 <2>4. Doing(t).type \in {"LOAD", "OPEN"} => ~t.present BY <1>3, <2>1 DEF Follows, Working
 <2>5. Doing(t).type \in Working => Doing(t).archive \in {None, t.uri} /\ t.meant = t.uri
  BY <1>3, <2>1 DEF Follows, Working
 <2> QED BY <2>2, <2>3, <2>4, <2>5 DEF Position
<1>8. Stage(t) BY DEF Quiet, Stage
<1>9. t.asker = s.asker OBVIOUS
<1> QED BY <1>6, <1>7, <1>8, <1>9, BatchIsInv DEF t

LEMMA StartBatch ==
    ASSUME NEW s, Between(s), NEW op \in Ops, ~op.unasked,
           op.files # <<>> => op.action = "EXTRACTING" /\ op.replaced \subseteq s.current.allowed,
           \/ op.action \in {"LOADING", "LISTING"} /\ Doing(s).type = "LOAD"
              /\ s.uri = Doing(s).archive /\ s.meant = s.uri
           \/ op.action \in {"GETTING_FILE_LIST", "ADDING"} /\ Doing(s).type = "ADD"
           \/ op.action = "EXTRACTING" /\ Doing(s).type \in Working \ {"ADD"}
    PROVE  LET t == Start(s, op) IN Inv(t) /\ t.asker = s.asker /\ t.todo = s.todo
<1> DEFINE t == Start(s, op)
<1>1. TypeOK(s) /\ s.op = None /\ s.overlap = FALSE BY DEF Between, Held, Quiet, TypeOK, Goes
<1>2. /\ TypeOK(t) /\ Same(t, s, {"overlap", "op"})
      /\ t.op = op /\ t.overlap = (s.overlap \/ s.op # None)
 BY <1>1, StartTyped
<1>3. ~t.overlap BY <1>1, <1>2
<1>4. op # None BY OpsAreSome
<1> HIDE DEF t
<1> USE <1>1, <1>2, <1>3 DEF Same, Fields
<1>5. Held(t) BY DEF Between, Held, Goes, Untold, Batch, Extraction, Asking, Replaces
<1>6. Position(t) BY DEF Between, Position, Doing, IsDone
<1>7. Stage(t) BY <1>4 DEF Between, Quiet, Stage, Fits, Doing
<1>8. t.asker = s.asker /\ t.todo = s.todo OBVIOUS
<1> QED BY <1>5, <1>6, <1>7, <1>8, BatchIsInv DEF t

\* A dialog is shown, for the action that needs it.
LEMMA ShownBatch ==
    ASSUME NEW s, Between(s), NEW t, TypeOK(t),
           Same(t, s, {"dialogs", "asker", "ask"} \cup BatchAside), Shows(t, Doing(s)),
           Asking(t), t.dialogs # {"error"}
    PROVE  Inv(t) /\ t.todo = "nothing"
<1> USE DEF Same, Fields, BatchAside
<1>1. Held(t) BY DEF Between, Held, Goes, Untold, Batch, Extraction, Replaces, Quiet
<1>2. Position(t) BY DEF Between, Position, Doing, IsDone
<1>3. Stage(t) BY DEF Between, Quiet, Stage, Doing
<1>4. t.todo = "nothing" BY DEF Between, Quiet
<1> QED BY <1>1, <1>2, <1>3, <1>4, BatchIsInv

LEMMA AskPasswordBatch ==
    ASSUME NEW s, Between(s), NEW asker \in Askers, Doing(s).type \in AskedBy(asker)
    PROVE  LET t == AskPassword(s, asker) IN Inv(t) /\ t.todo = "nothing"
<1> DEFINE t == AskPassword(s, asker)
<1>1. TypeOK(s) /\ s.dialogs = {} BY DEF Between, Held, Quiet
<1>2. /\ TypeOK(t) /\ Same(t, s, {"dialogs", "asker", "left"})
      /\ t.dialogs = {"password"} /\ t.asker = asker
 BY <1>1, AskPasswordTyped
<1> HIDE DEF t
<1>3. Same(t, s, {"dialogs", "asker", "ask"} \cup BatchAside) BY <1>2 DEF Same, BatchAside
<1>4. Shows(t, Doing(s)) BY <1>2 DEF Shows
<1>5. Asking(t) /\ t.dialogs # {"error"} BY <1>2 DEF Asking
<1> QED BY <1>2, <1>3, <1>4, <1>5, ShownBatch DEF t

----
(* Extraction, in a window for a batch. *)

\* Another extraction is noted.
LEMMA NoteBatch ==
    ASSUME NEW s, Between(s), NEW act \in Acts, act.type = "EXTRACT", Agreed(act)
    PROVE  LET u == [s EXCEPT !.current = act]
           IN  Between(u) /\ Same(u, s, {"current"}) /\ u.current = act /\ Doing(u) = Doing(s)
<1> DEFINE u == [s EXCEPT !.current = act]
<1>1. TypeOK(s) BY DEF Between, Held
<1>2. TypeOK(u) BY <1>1 DEF TypeOK, Fields
<1>3. Same(u, s, {"current"}) /\ u.current = act BY <1>1 DEF TypeOK, Same, Fields
<1> HIDE DEF u
<1> USE <1>2, <1>3 DEF Same, Fields
<1>4. Held(u) BY DEF Between, Quiet, Held, Goes, Untold, Batch, Extraction, Asking, Replaces
<1>5. Position(u) BY DEF Between, Position, Doing, IsDone
<1>6. Quiet(u) BY DEF Between, Quiet
<1>7. Doing(u) = Doing(s) BY DEF Doing
<1> QED BY <1>4, <1>5, <1>6, <1>7 DEF Between, u

LEMMA StartExtractBatch ==
    ASSUME NEW s, Between(s), Doing(s).type \in Working \ {"ADD"}
    PROVE  LET t == StartExtract(s) IN Inv(t) /\ t.todo = "nothing"
<1> DEFINE u == [s EXCEPT !.ask = 0]
           op == ExtractOp(s.current)
<1>1. StartExtract(s) = Start(u, op) BY StartExtractIs
<1>2. TypeOK(s) /\ s.current \in Acts /\ Agreed(s.current) BY DEF Between, Held, TypeOK, Extraction
<1>3. /\ op \in Ops /\ op.action = "EXTRACTING" /\ ~op.unasked
      /\ op.files # <<>> => op.replaced \subseteq s.current.allowed
 BY <1>2, ExtractOpAgreed
<1> HIDE DEF op
<1>4. TypeOK(u) BY <1>2 DEF TypeOK, Fields
<1>5. Same(u, s, {"ask"}) BY <1>2 DEF TypeOK, Same, Fields
<1> HIDE DEF u
<1> USE <1>4, <1>5 DEF Same, Fields
<1>6. Held(u) BY DEF Between, Quiet, Held, Goes, Untold, Batch, Extraction, Asking, Replaces
<1>7. Position(u) BY DEF Between, Position, Doing, IsDone
<1>8. Quiet(u) BY DEF Between, Quiet
<1>9. Between(u) /\ Doing(u) = Doing(s) /\ u.current = s.current
 BY <1>6, <1>7, <1>8 DEF Between, Doing
<1>10. Inv(Start(u, op)) /\ Start(u, op).todo = u.todo BY <1>3, <1>9, StartBatch
<1>11. u.todo = "nothing" BY <1>8 DEF Quiet
<1> QED BY <1>1, <1>10, <1>11

LEMMA HungBatch ==
    ASSUME NEW s, Between(s)
    PROVE  LET t == [s EXCEPT !.hung = TRUE] IN Inv(t) /\ t.todo = "nothing"
<1> DEFINE t == [s EXCEPT !.hung = TRUE]
<1>1. TypeOK(s) BY DEF Between, Held
<1>2. TypeOK(t) BY <1>1 DEF TypeOK, Fields
<1>3. Same(t, s, {"hung"}) /\ t.hung BY <1>1 DEF TypeOK, Same, Fields
<1> HIDE DEF t
<1> USE <1>2, <1>3 DEF Same, Fields
<1>4. /\ t.op = None /\ ~t.overlap /\ t.replies = <<>> /\ ~t.touched /\ t.orphaned = "no"
      /\ t.converted = None
 BY DEF Between, Quiet, Held, Goes, Untold, Batch
<1>5. Proper(t) BY <1>4, EmptySeq DEF Proper
<1>6. t.todo = "nothing" BY DEF Between, Quiet
<1> QED BY <1>5, <1>6 DEF Inv, Goes, t

LEMMA AskOverwriteBatch ==
    ASSUME NEW s, Between(s), Doing(s).type = "EXTRACT_INTERACT", s.current.type = "EXTRACT",
           NEW from \in Nat \ {0}, AgreedBefore(s.current, from)
    PROVE  LET t == AskOverwrite(s, from) IN Inv(t) /\ t.todo = "nothing"
<1>1. TypeOK(s) BY DEF Between, Held
<1>2. CASE \E yes \in Acts :
             /\ Agreed(yes) /\ yes.type = s.current.type /\ yes.dir = s.current.dir
             /\ AskOverwrite(s, from) = StartExtract([s EXCEPT !.current = yes])
 <2>1. PICK yes \in Acts :
         /\ Agreed(yes) /\ yes.type = s.current.type /\ yes.dir = s.current.dir
         /\ AskOverwrite(s, from) = StartExtract([s EXCEPT !.current = yes])
  BY <1>2
 <2> DEFINE u == [s EXCEPT !.current = yes]
 <2>2. Between(u) /\ Doing(u) = Doing(s) BY <2>1, NoteBatch
 <2> HIDE DEF u
 <2>3. Inv(StartExtract(u)) /\ StartExtract(u).todo = "nothing"
  BY <2>2, StartExtractBatch DEF Working
 <2> QED BY <2>1, <2>3 DEF u
<1>3. CASE AskOverwrite(s, from) = [s EXCEPT !.hung = TRUE] BY <1>3, HungBatch
<1>4. CASE \E next \in DOMAIN s.current.files :
             /\ AgreedBefore(s.current, next)
             /\ AskOverwrite(s, from) = [Show(s, "overwrite") EXCEPT !.ask = next]
 <2>1. PICK next \in DOMAIN s.current.files :
         /\ AgreedBefore(s.current, next)
         /\ AskOverwrite(s, from) = [Show(s, "overwrite") EXCEPT !.ask = next]
  BY <1>4
 <2> DEFINE u == Show(s, "overwrite")
            t == [u EXCEPT !.ask = next]
 <2>2. next \in Nat
  <3> QED BY <1>1 DEF TypeOK, Acts
 <2>3. s.dialogs = {} BY DEF Between, Quiet
 <2>4. TypeOK(u) /\ Same(u, s, {"dialogs"}) /\ u.dialogs = {"overwrite"}
  BY <1>1, <2>3, ShowTyped DEF Dialogs
 <2> HIDE DEF u
 <2>5. TypeOK(t) BY <2>2, <2>4 DEF TypeOK, Fields
 <2>6. Same(t, u, {"ask"}) /\ t.ask = next BY <2>4 DEF TypeOK, Same, Fields
 <2> HIDE DEF t
 <2>7. Same(t, s, {"dialogs", "ask"}) /\ t.dialogs = {"overwrite"} BY <2>4, <2>6 DEF Same, Fields
 <2>8. Same(t, s, {"dialogs", "asker", "ask"} \cup BatchAside)
       /\ t.current = s.current /\ t.asker = s.asker
  BY <2>7 DEF Same, Fields, BatchAside
 <2>9. Shows(t, Doing(s)) BY <2>7, <2>8 DEF Shows, Between, Quiet
 <2>10. Asking(t) /\ t.dialogs # {"error"} BY <2>1, <2>6, <2>7, <2>8 DEF Asking
 <2>11. Inv(t) /\ t.todo = "nothing" BY <2>5, <2>8, <2>9, <2>10, ShownBatch
 <2> QED BY <2>1, <2>11 DEF t, u
<1> QED BY <1>1, <1>2, <1>3, <1>4, AskOverwriteIs

LEMMA ArchiveExtractBatch ==
    ASSUME NEW s, Between(s), NEW act \in Acts, Agreed(act),
           Doing(s).type \in {"EXTRACT", "EXTRACT_INTERACT"},
           act.overwrite = "ASK" => Doing(s).type = "EXTRACT_INTERACT",
           NEW dir \in {"there", "made", "refused"}, act.dir \in {"unknown", dir}
    PROVE  LET t == ArchiveExtract(s, act, dir) IN Inv(t) /\ t.todo = "nothing"
<1> DEFINE plain == [act EXCEPT !.type = "EXTRACT"]
           noted == [act EXCEPT !.type = "EXTRACT", !.dir = dir]
           p == [s EXCEPT !.current = plain]
           t == [s EXCEPT !.current = noted]
           e == ShowError(t)
<1>1. /\ plain \in Acts /\ plain.type = "EXTRACT" /\ Agreed(plain)
      /\ plain.overwrite = act.overwrite
 BY DEF Acts, ActTypes, Working, Agreed
<1>2. noted \in Acts /\ noted.type = "EXTRACT" /\ noted.files = act.files
      /\ noted.overwrite = act.overwrite /\ noted.allowed = act.allowed /\ noted.dir = dir
 BY DEF Acts, ActTypes, Working
<1>3. Agreed(noted) BY <1>2 DEF Agreed
<1>4. Between(p) /\ Doing(p) = Doing(s) BY <1>1, NoteBatch
<1>5. Between(t) /\ t.current = noted /\ Doing(t) = Doing(s) BY <1>2, <1>3, NoteBatch
<1>6. ArchiveExtract(s, act, dir) =
        IF NeedsPassword(s) THEN AskPassword(p, "EXTRACT")
        ELSE IF dir = "refused" THEN StopBatch(Use(e))
        ELSE IF act.overwrite # "ASK" THEN StartExtract(t)
        ELSE IF dir = "made" THEN StartExtract([t EXCEPT !.current.overwrite = "YES"])
        ELSE AskOverwrite(t, 1)
 BY DEF ArchiveExtract
<1>7. Doing(s).type \in Working \ {"ADD"} BY DEF Working
<1> HIDE DEF plain, noted, p, t
<1>8. CASE NeedsPassword(s)
 <2>1. Doing(p).type \in AskedBy("EXTRACT") /\ "EXTRACT" \in Askers BY <1>4 DEF AskedBy, Askers
 <2> QED BY <1>4, <1>6, <1>8, <2>1, AskPasswordBatch
<1>9. CASE ~NeedsPassword(s) /\ dir = "refused"
 <2> DEFINE v == Use(e)
 <2>1. (Dead(e) /\ e.replies = <<"error">>) \/ Failed(e) BY <1>5, ShowErrorBatch
 <2> HIDE DEF e
 <2>2. CASE Dead(e) /\ e.replies = <<"error">>
  <3>1. Dead(v) /\ v.replies = <<"error">> BY <2>2, UseDead
  <3> HIDE DEF v
  <3>2. Dead(StopBatch(v)) BY <3>1, StopBatchDead
  <3> QED BY <1>6, <1>9, <3>2, DeadIsInv DEF v
 <2>3. CASE Failed(e)
  <3>1. Failed(v) BY <2>3, FailedUsed
  <3> HIDE DEF v
  <3>2. DoomedOn(StopBatch(v)) BY <3>1, StopFailed
  <3>3. Inv(StopBatch(v)) /\ StopBatch(v).todo = "nothing"
   BY <3>2, DoomedIsInv DEF DoomedOn, Doomed
  <3> QED BY <1>6, <1>9, <3>3 DEF v
 <2> QED BY <2>1, <2>2, <2>3
<1>10. CASE ~NeedsPassword(s) /\ dir # "refused" /\ act.overwrite # "ASK"
 BY <1>5, <1>6, <1>7, <1>10, StartExtractBatch
<1>11. CASE ~NeedsPassword(s) /\ dir = "made" /\ act.overwrite = "ASK"
 <2> DEFINE yes == [noted EXCEPT !.overwrite = "YES"]
            u == [t EXCEPT !.current = yes]
 <2>1. yes \in Acts /\ yes.type = "EXTRACT" /\ yes.dir = dir BY <1>2 DEF Acts
 <2>2. Agreed(yes) BY <1>11, <2>1 DEF Agreed
 <2>3. [t EXCEPT !.current.overwrite = "YES"] = u BY <1>5
 <2>4. Between(u) /\ Doing(u) = Doing(t) BY <1>5, <2>1, <2>2, NoteBatch
 <2> HIDE DEF u, yes
 <2>5. LET v == StartExtract(u) IN Inv(v) /\ v.todo = "nothing"
  BY <1>5, <1>7, <2>4, StartExtractBatch
 <2> QED BY <1>6, <1>11, <2>3, <2>5
<1>12. CASE ~NeedsPassword(s) /\ dir = "there" /\ act.overwrite = "ASK"
 <2>1. AgreedBefore(t.current, 1) BY DEF AgreedBefore
 <2>2. LET v == AskOverwrite(t, 1) IN Inv(v) /\ v.todo = "nothing"
  BY <1>2, <1>5, <1>12, <2>1, AskOverwriteBatch
 <2> QED BY <1>6, <1>12, <2>2
<1> QED BY <1>8, <1>9, <1>10, <1>11, <1>12

----
(* The next action of a batch. *)

LEMMA BatchGoes ==
    ASSUME Inv(w), BatchSound(w), Sound
    PROVE  (Held(w) /\ Position(w) /\ Stage(w)) \/ DoomedOn(w)
<1> QED BY DEF Inv, BatchSound, Sound, Goes, Held, DoomedOn

\* An error that ends an action of a batch before anything was begun.
LEMMA ErrorDone ==
    ASSUME NEW s, Between(s), NEW action \in {"CREATING", "ADDING", "EXTRACTING", "GETTING_FILE_LIST"}
    PROVE  Inv(Done(s, action, "GENERIC"))
<1> DEFINE h == ShowError(s)
<1>1. (Dead(h) /\ h.replies = <<"error">>) \/ Failed(h) BY ShowErrorBatch
<1>2. Inv(h) BY ShowErrorBatch
<1>3. HandleErrors(s, action, "GENERIC") = h BY DEF HandleErrors
<1> HIDE DEF h
<1>4. CASE Dead(h) /\ h.replies = <<"error">>
 <2>1. Done(s, action, "GENERIC") = Use(h) BY <1>3, <1>4 DEF Done, Dead
 <2>2. Dead(Use(h)) BY <1>4, UseDead
 <2> QED BY <2>1, <2>2, DeadIsInv
<1>5. CASE Failed(h)
 <2>1. h.alive /\ h.batch_mode /\ ~h.converting BY <1>5 DEF Failed, Held, Goes, Batch
 <2>2. Done(s, action, "GENERIC") = h BY <1>3, <2>1 DEF Done, Continue, AddingDone, ExtractingDone
 <2> QED BY <1>2, <2>2
<1> QED BY <1>1, <1>4, <1>5

LEMMA ArchiveNewBatch ==
    ASSUME NEW s, Between(s), NEW archive \in Archives, Kind[archive] \in {"absent", "foreign"},
           Doing(s).type \in {"LOAD", "OPEN"}, Doing(s).type = "LOAD" => archive = Doing(s).archive
    PROVE  Inv(ArchiveNew(s, archive))
<1>1. CASE Kind[archive] = "foreign"
 <2> QED BY <1>1, ErrorDone DEF ArchiveNew
<1>2. CASE Kind[archive] # "foreign"
 <2> DEFINE meant == IF s.list = <<>> THEN None ELSE archive
            u == [s EXCEPT !.uri = archive, !.present = TRUE, !.new = TRUE, !.meant = meant]
 <2>1. ArchiveNew(s, archive) = Done(u, "CREATING", "NONE") BY <1>2 DEF ArchiveNew
 <2>2. meant = archive BY DEF Between, Held, Batch, IsBatch
 <2>3. TypeOK(s) BY DEF Between, Held
 <2> HIDE DEF meant
 <2>4. TypeOK(u) BY <2>2, <2>3 DEF TypeOK, Fields, Names
 <2>5. Same(u, s, {"uri", "present", "new", "meant"}) /\ u.uri = archive /\ u.meant = archive
  BY <2>2, <2>3 DEF TypeOK, Same, Fields
 <2> HIDE DEF u
 <2> USE <2>4, <2>5 DEF Same, Fields
 <2>6. Held(u) BY <1>2 DEF Between, Quiet, Held, Goes, Untold, Batch, Extraction, Asking, Replaces
 <2>7. Quiet(u) /\ Doing(u) = Doing(s) BY DEF Between, Quiet, Doing
 <2>8. \A i \in 1 .. u.batch_action : IsDone(u, i)
  <3>1. s.batch_action \in Nat BY <2>3 DEF TypeOK
  <3>2. \A i \in 1 .. s.batch_action - 1 : IsDone(s, i) BY DEF Between, Position
  <3>3. IsDone(s, s.batch_action) BY DEF IsDone, Doing, Working
  <3> QED BY <3>1, <3>2, <3>3 DEF IsDone
 <2>9. u.batch_action \in DOMAIN u.list BY DEF Between, Position
 <2>10. Inv(ExecNext(u)) BY <2>6, <2>7, <2>8, <2>9, ExecNextBatch
 <2>11. Done(u, "CREATING", "NONE") = ExecNext(u)
  BY <2>6 DEF Held, Goes, HandleErrors, Done, Continue
 <2> QED BY <2>1, <2>10, <2>11
<1> QED BY <1>1, <1>2

LEMMA PlainIs ==
    ASSUME NEW act, Plain(act)
    PROVE  act.files = <<>> /\ act.overwrite = "NO" /\ act.dir = "unknown"
BY DEF Plain, Act

\* An archive is loaded, or a new one made.
LEMMA ExecLoadBatch ==
    ASSUME NEW s, Between(s), Doing(s).type = "LOAD", Plain(Doing(s)),
           NEW dir, NEW ok
    PROVE  Inv(ExecBatchAction(s, Doing(s), dir, ok))
<1> DEFINE archive == Doing(s).archive
<1>1. archive \in Archives BY DEF Plain
<1>2. CASE Exists(s, archive)
 <2> DEFINE m == [s EXCEPT !.meant = archive]
            act == Act("LOAD", archive)
            u == [m EXCEPT !.uri = archive, !.current = act]
            op == Op("LOADING")
 <2>1. ExecBatchAction(s, Doing(s), dir, ok) = ArchiveOpen(m, archive) BY <1>2 DEF ExecBatchAction
 <2>2. TypeOK(s) /\ ~s.present BY DEF Between, Held, Position
 <2>3. TypeOK(m) BY <1>1, <2>2 DEF TypeOK, Fields, Names
 <2>4. Same(m, s, {"meant"}) /\ m.meant = archive BY <2>2 DEF TypeOK, Same, Fields
 <2>5. act \in Acts /\ act.type = "LOAD" /\ act.files = <<>> /\ act.archive = archive
  BY <1>1, ActTyped DEF ActTypes, Names, Act
 <2>6. op \in Ops /\ op.action = "LOADING" /\ op.files = <<>> /\ op.unasked = FALSE
  BY OpTyped DEF Actions, Op
 <2> HIDE DEF m, act, op, archive
 <2>7. TypeOK(u) BY <1>1, <2>3, <2>5 DEF TypeOK, Fields, Names
 <2>8. Same(u, m, {"uri", "current"}) /\ u.current = act /\ u.uri = archive
  BY <2>3 DEF TypeOK, Same, Fields
 <2>9. ~m.present BY <2>2, <2>4 DEF Same, Fields
 <2>10. ArchiveOpen(m, archive) = Start(u, op) BY <2>9 DEF ArchiveOpen, StartLoad, act, op
 <2> HIDE DEF u
 <2>11. Same(u, s, {"meant", "uri", "current"}) /\ u.meant = archive BY <2>4, <2>8 DEF Same, Fields
 <2> USE <2>7, <2>8, <2>11 DEF Same, Fields
 <2>12. Held(u)
  BY <1>1, <2>5 DEF Between, Quiet, Held, Goes, Untold, Batch, Extraction, Agreed, Asking,
                    Replaces
 <2>13. Quiet(u) /\ Doing(u) = Doing(s) BY DEF Between, Quiet, Doing
 <2>14. Position(u) BY <2>13 DEF Between, Position, Doing, IsDone, Working
 <2>15. Between(u) BY <2>12, <2>13, <2>14 DEF Between
 <2>16. u.uri = Doing(u).archive /\ u.meant = u.uri BY <2>13 DEF archive
 <2>17. Inv(Start(u, op)) BY <2>6, <2>13, <2>15, <2>16, StartBatch
 <2> QED BY <2>1, <2>10, <2>17 DEF archive
<1>3. CASE ~Exists(s, archive)
 <2>1. ExecBatchAction(s, Doing(s), dir, ok) = ArchiveNew(s, archive) BY <1>3 DEF ExecBatchAction
 <2>2. Kind[archive] \in {"absent", "foreign"} BY <1>1, <1>3, ArchiveNewKind
 <2> QED BY <1>1, <2>1, <2>2, ArchiveNewBatch
<1> QED BY <1>2, <1>3

\* Files are added, to the archive that they are meant for.
LEMMA ExecAddBatch ==
    ASSUME NEW s, Between(s), Doing(s).type = "ADD", NEW own \in BOOLEAN
    PROVE  Inv(AddDropped(s, own, s.meant # s.uri))
<1>1. (s.meant # s.uri) = FALSE BY DEF Between, Position, Working
<1>2. CASE Kind[s.uri] = "read_only" \/ own
 <2> QED BY <1>2, ErrorDone DEF AddDropped
<1>3. CASE ~(Kind[s.uri] = "read_only" \/ own)
 <2> DEFINE op == [Op("GETTING_FILE_LIST") EXCEPT !.unasked = FALSE]
 <2>1. AddDropped(s, own, s.meant # s.uri) = Start(s, op) BY <1>1, <1>3 DEF AddDropped
 <2>2. op \in Ops BY EmptySeq DEF Op, Ops, Actions
 <2>3. op.action = "GETTING_FILE_LIST" /\ op.files = <<>> /\ op.unasked = FALSE BY DEF Op
 <2> HIDE DEF op
 <2>4. Inv(Start(s, op)) BY <2>2, <2>3, StartBatch
 <2> QED BY <2>1, <2>4
<1> QED BY <1>2, <1>3

\* A dialog is shown, and its button was not clicked yet.
LEMMA ShowBatch ==
    ASSUME NEW s, Between(s), NEW dialog \in {"extract", "batch_add"},
           dialog = "extract" => Doing(s).type = "EXTRACT_INTERACT",
           dialog = "batch_add" => Doing(s).type = "OPEN"
    PROVE  Inv([Show(s, dialog) EXCEPT !.clicked = FALSE])
<1> DEFINE u == Show(s, dialog)
           t == [u EXCEPT !.clicked = FALSE]
<1>1. TypeOK(s) /\ s.dialogs = {} /\ s.asker = "nothing" BY DEF Between, Held, Quiet
<1>2. TypeOK(u) /\ Same(u, s, {"dialogs"}) /\ u.dialogs = {dialog} BY <1>1, ShowTyped DEF Dialogs
<1> HIDE DEF u
<1>3. TypeOK(t) BY <1>2 DEF TypeOK, Fields
<1>4. Same(t, u, {"clicked"}) BY <1>2 DEF TypeOK, Same, Fields
<1> HIDE DEF t
<1>5. Same(t, s, {"dialogs", "clicked"}) /\ t.dialogs = {dialog} /\ t.asker = "nothing"
 BY <1>1, <1>2, <1>4 DEF Same, Fields
<1>6. Same(t, s, {"dialogs", "asker", "ask"} \cup BatchAside) BY <1>5 DEF Same, BatchAside
<1>7. Shows(t, Doing(s)) BY <1>5 DEF Shows
<1>8. Asking(t) /\ t.dialogs # {"error"} BY <1>5 DEF Asking
<1> QED BY <1>3, <1>6, <1>7, <1>8, ShownBatch DEF t, u

\* All of the files are extracted into a folder of their own.
LEMMA ExtractHereBatch ==
    ASSUME NEW s, Between(s), Doing(s).type = "EXTRACT_HERE", NEW made \in BOOLEAN
    PROVE  Inv(ExtractHere(s, made))
<1> DEFINE act == [Act("EXTRACT", None) EXCEPT !.dir = "made"]
           t == [s EXCEPT !.current = act]
<1>1. act \in Acts /\ act.type = "EXTRACT" /\ act.files = <<>>
 BY EmptySeq DEF Act, Acts, ActTypes, Working, Names
<1>2. Agreed(act) BY <1>1 DEF Agreed
<1>3. ExtractHere(s, made) =
        IF NeedsPassword(s) THEN AskPassword(t, "EXTRACT_HERE")
        ELSE IF made THEN StartExtract(t) ELSE Done(t, "EXTRACTING", "GENERIC")
 BY DEF ExtractHere
<1> HIDE DEF act
<1>4. Between(t) /\ Doing(t) = Doing(s) BY <1>1, <1>2, NoteBatch
<1> HIDE DEF t
<1>5. Doing(t).type \in AskedBy("EXTRACT_HERE") /\ "EXTRACT_HERE" \in Askers
 BY <1>4 DEF AskedBy, Askers
<1>6. Inv(AskPassword(t, "EXTRACT_HERE")) BY <1>4, <1>5, AskPasswordBatch
<1>7. Inv(StartExtract(t)) BY <1>4, StartExtractBatch DEF Working
<1>8. Inv(Done(t, "EXTRACTING", "GENERIC")) BY <1>4, ErrorDone
<1> QED BY <1>3, <1>6, <1>7, <1>8

\* Or into the folder that was chosen for all, when there is one.
LEMMA ExecInteractBatch ==
    ASSUME NEW s, Between(s), NEW act, act = Doing(s), act \in Acts, act.type = "EXTRACT_INTERACT",
           Plain(act), NEW dir \in {"there", "made", "refused"}, NEW ok
    PROVE  Inv(ExecBatchAction(s, act, dir, ok))
<1>1. CASE s.use_default_dir
 <2> DEFINE asks == [act EXCEPT !.overwrite = "ASK"]
 <2>1. asks \in Acts /\ asks.overwrite = "ASK" /\ asks.dir = "unknown" BY PlainIs DEF Acts
 <2>2. Agreed(asks) BY <2>1 DEF Agreed
 <2>3. ExecBatchAction(s, act, dir, ok) = ArchiveExtract(s, asks, dir) BY <1>1 DEF ExecBatchAction
 <2> HIDE DEF asks
 <2>4. asks.dir \in {"unknown", dir} BY <2>1
 <2>5. Inv(ArchiveExtract(s, asks, dir)) BY <2>1, <2>2, <2>4, ArchiveExtractBatch
 <2> QED BY <2>3, <2>5
<1>2. CASE ~s.use_default_dir
 <2> QED BY <1>2, ShowBatch DEF ExecBatchAction
<1> QED BY <1>1, <1>2

\* The archive is closed, and the next loaded.
LEMMA ExecCloseBatch ==
    ASSUME NEW s, Between(s), Doing(s).type = "CLOSE"
    PROVE  Inv(ExecNext(Close(s)))
<1> DEFINE c == Close(s)
<1>1. Between(c) /\ ~c.present /\ Same(c, s, {"present", "new", "password"}) BY CloseBetween
<1> HIDE DEF c
<1>2. Doing(c) = Doing(s) BY <1>1 DEF Doing, Same, Fields
<1>3. \A i \in 1 .. c.batch_action : IsDone(c, i)
 <2>1. c.batch_action \in Nat BY <1>1 DEF Between, Held, TypeOK
 <2>2. \A i \in 1 .. c.batch_action - 1 : IsDone(c, i) BY <1>1 DEF Between, Position
 <2>3. IsDone(c, c.batch_action) BY <1>2 DEF IsDone, Doing, Working
 <2> QED BY <2>1, <2>2, <2>3
<1>4. c.batch_action \in DOMAIN c.list BY <1>1 DEF Between, Position
<1> QED BY <1>1, <1>2, <1>3, <1>4, ExecNextBatch DEF Between, c

\* All was done, and is told.
LEMMA ExecQuitBatch ==
    ASSUME NEW s, Between(s), Doing(s).type = "QUIT"
    PROVE  Inv(Destroy([s EXCEPT !.replies = Append(@, "done")]))
<1> DEFINE replies == Append(s.replies, "done")
           u == [s EXCEPT !.replies = replies]
           t == Destroy(u)
<1>1. TypeOK(s) /\ s.replies = <<>> BY DEF Between, Held, Untold
<1>2. replies = <<"done">>
 <2>1. Append(<<>>, "done") = <<"done">> OBVIOUS
 <2> QED BY <1>1, <2>1
<1>3. replies \in Seq({"error", "done"})
 <2> QED BY <1>1, AppendProperties DEF TypeOK
<1> HIDE DEF replies
<1>4. TypeOK(u) BY <1>1, <1>3 DEF TypeOK, Fields
<1>5. Same(u, s, {"replies"}) /\ u.replies = <<"done">> BY <1>1, <1>2 DEF TypeOK, Same, Fields
<1> HIDE DEF u
<1>6. /\ TypeOK(t) /\ ~t.alive /\ t.converted = None /\ t.op = None
      /\ Same(t, u, {"alive", "dialogs", "todo", "op", "converted", "current", "asker"})
 BY <1>4, DestroyTyped
<1> HIDE DEF t
<1>7. /\ ~t.overlap /\ t.replies = <<"done">> /\ ~t.touched /\ t.orphaned = "no"
      /\ t.list = s.list /\ t.effects = s.effects
 BY <1>5, <1>6 DEF Between, Held, Goes, Untold, Same, Fields
<1>8. \A i \in DOMAIN t.list : IsDone(t, i)
 <2>1. s.list \in Seq(Acts) /\ IsBatch(s.list) /\ s.batch_action \in DOMAIN s.list
  BY <1>1 DEF Between, Held, TypeOK, Batch, Position
 <2>2. s.batch_action = Len(s.list) BY <2>1, BatchTypes DEF Doing
 <2>3. \A i \in 1 .. s.batch_action - 1 : IsDone(s, i) BY DEF Between, Position
 <2>4. IsDone(s, s.batch_action) BY DEF IsDone, Doing, Working
 <2>5. \A i \in DOMAIN s.list : IsDone(s, i) BY <2>1, <2>2, <2>3, <2>4
 <2> QED BY <1>7, <2>5 DEF IsDone
<1>9. Len(t.replies) <= 1
 <2>1. Len(<<"done">>) = 1 OBVIOUS
 <2> QED BY <1>7, <2>1
<1>10. Proper(t) BY <1>6, <1>7, <1>8, <1>9 DEF Proper
<1> QED BY <1>6, <1>10 DEF Inv, Goes, t, u, replies

LEMMA ExecNextActionBatch ==
    ASSUME Inv(w), BatchSound(w), ExecNextAction
    PROVE  Inv(w') /\ Resumes(w', w)
<1> DEFINE s == [w EXCEPT !.todo = "nothing"]
           act == Doing(s)
<1>1. w.todo # "nothing" /\ Sound BY DEF ExecNextAction
<1>2. Held(w) /\ Position(w) /\ Stage(w) /\ w.todo = "list" /\ w.op = None /\ w.dialogs = {}
      /\ ~w.installing /\ w.asker = "nothing"
 BY <1>1, BatchGoes DEF DoomedOn, Doomed, Stage
<1>3. TypeOK(w) BY <1>2 DEF Held
<1>4. TypeOK(s) BY <1>3 DEF TypeOK, Fields
<1>5. Same(s, w, {"todo"}) /\ s.todo = "nothing" BY <1>3 DEF TypeOK, Same, Fields
<1>6. PICK dir \in {"there", "made", "refused"}, ok \in BOOLEAN :
        w' = ExecBatchAction(s, w.list[w.batch_action], dir, ok)
 BY <1>2 DEF ExecNextAction
<1> HIDE DEF s
<1>7. w' = ExecBatchAction(s, act, dir, ok) BY <1>5, <1>6 DEF Doing, Same, Fields
<1>8. Between(s)
 <2> USE <1>2, <1>4, <1>5 DEF Same, Fields
 <2>1. Held(s) BY DEF Held, Goes, Untold, Batch, Extraction, Asking, Replaces
 <2>2. Position(s) BY DEF Position, Doing, IsDone
 <2>3. Quiet(s) BY DEF Quiet
 <2> QED BY <2>1, <2>2, <2>3 DEF Between
<1>9. /\ act \in Acts /\ Plain(act)
      /\ act.type \in Working \cup {"LOAD", "OPEN", "CLOSE", "QUIT"}
 <2> QED BY <1>4, <1>8, BatchTypes DEF Between, Held, TypeOK, Batch, Position, IsBatch, Doing
<1>10. act.overwrite = "NO" /\ act.dir = "unknown" BY <1>9, PlainIs
<1>11. Agreed(act) BY <1>10 DEF Agreed
<1> HIDE DEF act
<1> USE <1>7, <1>8
<1>12. CASE act.type = "LOAD"
 <2>1. Inv(ExecBatchAction(s, Doing(s), dir, ok)) BY <1>9, <1>12, ExecLoadBatch DEF act
 <2> QED BY <1>2, <2>1, NoWaitResumes DEF act
<1>13. CASE act.type = "ADD"
 <2>1. w' = AddDropped(s, ~ok, s.meant # s.uri) BY <1>13 DEF ExecBatchAction
 <2>2. Inv(AddDropped(s, ~ok, s.meant # s.uri)) BY <1>13, ExecAddBatch DEF act
 <2> QED BY <1>2, <2>1, <2>2, NoWaitResumes
<1>14. CASE act.type = "OPEN"
 <2>1. w' = [Show(s, "batch_add") EXCEPT !.clicked = FALSE] BY <1>14 DEF ExecBatchAction
 <2>2. Inv(w') BY <1>14, <2>1, ShowBatch DEF act
 <2> QED BY <1>2, <2>2, NoWaitResumes
<1>15. CASE act.type = "EXTRACT"
 <2>1. w' = ArchiveExtract(s, act, dir) BY <1>15 DEF ExecBatchAction
 <2>2. act.dir \in {"unknown", dir} /\ Doing(s).type = "EXTRACT" BY <1>10, <1>15 DEF act
 <2>3. Inv(ArchiveExtract(s, act, dir)) BY <1>9, <1>10, <1>11, <2>2, ArchiveExtractBatch
 <2> QED BY <1>2, <2>1, <2>3, NoWaitResumes
<1>16. CASE act.type = "EXTRACT_HERE"
 <2>1. w' = ExtractHere(s, ok) BY <1>16 DEF ExecBatchAction
 <2>2. Inv(ExtractHere(s, ok)) BY <1>16, ExtractHereBatch DEF act
 <2> QED BY <1>2, <2>1, <2>2, NoWaitResumes
<1>17. CASE act.type = "EXTRACT_INTERACT"
 <2>1. Inv(ExecBatchAction(s, act, dir, ok)) BY <1>9, <1>17, ExecInteractBatch DEF act
 <2> QED BY <1>2, <2>1, NoWaitResumes
<1>18. CASE act.type = "CLOSE"
 <2>1. w' = ExecNext(Close(s)) BY <1>18 DEF ExecBatchAction
 <2>2. Inv(w') BY <1>18, <2>1, ExecCloseBatch DEF act
 <2> QED BY <1>2, <2>2, NoWaitResumes
<1>19. CASE act.type = "QUIT"
 <2>1. w' = Destroy([s EXCEPT !.replies = Append(@, "done")]) BY <1>19 DEF ExecBatchAction
 <2>2. Inv(w') BY <1>19, <2>1, ExecQuitBatch DEF act
 <2> QED BY <1>2, <2>2, NoWaitResumes
<1> QED BY <1>9, <1>12, <1>13, <1>14, <1>15, <1>16, <1>17, <1>18, <1>19 DEF Working

----
(* What is under way ends, in a window for a batch. *)

LEMMA EndedBatch ==
    ASSUME Inv(w), BatchSound(w), Sound, w.op # None
    PROVE  LET s == [w EXCEPT !.op = None]
           IN  /\ Between(s) /\ Same(s, w, {"op"}) /\ Fits(w, Doing(s)) /\ ~w.op.unasked
               /\ w.op \in Ops /\ w.asker = "nothing"
<1> DEFINE s == [w EXCEPT !.op = None]
<1>1. /\ Held(w) /\ Position(w) /\ w.todo = "nothing" /\ w.dialogs = {} /\ ~w.installing
      /\ w.asker = "nothing" /\ Fits(w, Doing(w)) /\ ~w.op.unasked
 BY BatchGoes DEF DoomedOn, Doomed, Stage
<1>2. TypeOK(w) BY <1>1 DEF Held
<1>3. TypeOK(s) BY <1>2 DEF TypeOK, Fields
<1>4. Same(s, w, {"op"}) /\ s.op = None BY <1>2 DEF TypeOK, Same, Fields
<1>5. w.op \in Ops BY <1>2 DEF TypeOK
<1> HIDE DEF s
<1> USE <1>1, <1>3, <1>4 DEF Same, Fields
<1>6. Held(s) BY DEF Held, Goes, Untold, Batch, Extraction, Asking, Replaces
<1>7. Position(s) BY DEF Position, Doing, IsDone
<1>8. Quiet(s) BY DEF Quiet
<1>9. Doing(s) = Doing(w) BY DEF Doing
<1> QED BY <1>5, <1>6, <1>7, <1>8, <1>9 DEF Between, s

\* What was done is known of the action that it was done for.
LEMMA RecordBatch ==
    ASSUME NEW s, Between(s), NEW action \in {"ADDING", "EXTRACTING"}, Doing(s).type \in Working
    PROVE  LET r == Record(s, action, "NONE")
           IN  Between(r) /\ Doing(r) = Doing(s) /\ \A i \in 1 .. r.batch_action : IsDone(r, i)
<1> DEFINE effects == IF s.batch_mode THEN s.effects \cup {<<s.batch_action, s.uri>>} ELSE s.effects
           whole == s.whole \/ s.current.type = "SAVE_AS"
           r == [s EXCEPT !.effects = effects, !.whole = whole]
<1>1. Record(s, action, "NONE") = r BY DEF Record
<1>2. TypeOK(s) /\ s.batch_mode BY DEF Between, Held
<1>3. effects = s.effects \cup {<<s.batch_action, s.uri>>} BY <1>2
<1>4. s.batch_action \in Nat /\ s.uri \in Names /\ s.effects \in SUBSET (Nat \X Names)
 BY <1>2 DEF TypeOK
<1>5. effects \in SUBSET (Nat \X Names) BY <1>3, <1>4
<1>6. whole \in BOOLEAN OBVIOUS
<1> HIDE DEF effects, whole
<1>7. TypeOK(r) BY <1>2, <1>5, <1>6 DEF TypeOK, Fields
<1>8. Same(r, s, {"effects", "whole"}) /\ r.effects = effects BY <1>2 DEF TypeOK, Same, Fields
<1> HIDE DEF r
<1> USE <1>7, <1>8 DEF Same, Fields
<1>9. Held(r) BY DEF Between, Held, Goes, Untold, Batch, Extraction, Asking, Replaces
<1>10. Quiet(r) /\ Doing(r) = Doing(s) BY DEF Between, Quiet, Doing
<1>11. \A i \in 1 .. s.batch_action - 1 : IsDone(r, i)
 <2>1. \A i \in 1 .. s.batch_action - 1 : IsDone(s, i) BY DEF Between, Position
 <2> QED BY <1>3, <2>1 DEF IsDone
<1>12. IsDone(r, s.batch_action)
 <2> DEFINE e == <<s.batch_action, s.uri>>
 <2>1. Doing(s).archive \in {None, s.uri} BY DEF Between, Position
 <2>2. e \in r.effects /\ e[1] = s.batch_action /\ e[2] = s.uri BY <1>3
 <2> QED BY <2>1, <2>2 DEF IsDone, Doing
<1>13. \A i \in 1 .. r.batch_action : IsDone(r, i) BY <1>4, <1>11, <1>12
<1>14. Position(r) BY <1>10, <1>11 DEF Between, Position
<1> QED BY <1>1, <1>9, <1>10, <1>13, <1>14 DEF Between

\* Stopped, whatever it was.
LEMMA StoppedDone ==
    ASSUME NEW s, Between(s), NEW action \in {"LISTING", "ADDING", "EXTRACTING"}
    PROVE  Inv(Done(s, action, "STOPPED"))
<1>1. HandleErrors(s, action, "STOPPED") = s BY HandledIs
<1>2. s.alive /\ s.batch_mode /\ s.converting = FALSE /\ TypeOK(s)
 BY DEF Between, Held, Goes, Batch, TypeOK
<1>3. CASE action = "LISTING"
 <2> DEFINE c == Close(s)
            u == [c EXCEPT !.password = FALSE]
 <2>1. Done(s, action, "STOPPED") = StopBatch(u)
  BY <1>1, <1>2, <1>3 DEF Done, ListingDone, Continue
 <2>2. Between(c) BY CloseBetween
 <2> HIDE DEF c
 <2>3. TypeOK(c) BY <2>2 DEF Between, Held
 <2>4. TypeOK(u) BY <2>3 DEF TypeOK, Fields
 <2>5. Same(u, c, {"password"}) BY <2>3 DEF TypeOK, Same, Fields
 <2> HIDE DEF u
 <2>6. Same(u, c, BatchAside \cup {"present"}) /\ (u.present => c.present)
  BY <2>5 DEF Same, BatchAside, Fields
 <2>7. Between(u) BY <2>2, <2>4, <2>6, BetweenKept
 <2> QED BY <2>1, <2>7, StopBetween
<1>4. CASE action \in {"ADDING", "EXTRACTING"}
 <2> QED BY <1>1, <1>2, <1>4, StopBetween DEF Done, AddingDone, ExtractingDone, Continue
<1> QED BY <1>3, <1>4

\* An archive that could not be listed is closed.
LEMMA ListingFailed ==
    ASSUME NEW s, Between(s)
    PROVE  Inv(Done(s, "LISTING", "GENERIC"))
<1> DEFINE c == Close(s)
           h == ShowError(c)
           d == Close(h)
           u == [d EXCEPT !.password = FALSE]
<1>1. HandleErrors(s, "LISTING", "GENERIC") = h BY HandledIs
<1>2. Between(c) BY CloseBetween
<1> HIDE DEF c
<1>3. (Dead(h) /\ h.replies = <<"error">>) \/ Failed(h) BY <1>2, ShowErrorBatch
<1> HIDE DEF h
<1>4. CASE Dead(h) /\ h.replies = <<"error">>
 <2>1. Done(s, "LISTING", "GENERIC") = Use(h) BY <1>1, <1>4 DEF Done, Dead
 <2>2. Dead(Use(h)) BY <1>4, UseDead
 <2> QED BY <2>1, <2>2, DeadIsInv
<1>5. CASE Failed(h)
 <2>1. h.alive BY <1>5, FailedUsed
 <2>2. Done(s, "LISTING", "GENERIC") = u BY <1>1, <2>1 DEF Done, ListingDone, Continue
 <2>3. Failed(d) BY <1>5, FailedUsed
 <2> HIDE DEF d
 <2>4. TypeOK(d) BY <2>3 DEF Failed, Held
 <2>5. TypeOK(u) BY <2>4 DEF TypeOK, Fields
 <2>6. Same(u, d, {"password"}) BY <2>4 DEF TypeOK, Same, Fields
 <2> HIDE DEF u
 <2> USE <2>3, <2>5, <2>6 DEF Same, Fields
 <2>7. Held(u) BY DEF Failed, Held, Goes, Untold, Batch, Extraction, Asking, Replaces
 <2>8. Position(u) BY DEF Failed, Position, Doing, IsDone
 <2>9. Stage(u) BY DEF Failed, Stage, Shows
 <2> QED BY <2>2, <2>7, <2>8, <2>9, BatchIsInv
<1> QED BY <1>3, <1>4, <1>5

\* The archive is listed: the next action may begin.
LEMMA ListedBatch ==
    ASSUME NEW s, Between(s), Doing(s).type = "LOAD", s.uri = Doing(s).archive, s.meant = s.uri
    PROVE  Inv(Done(s, "LISTING", "NONE"))
<1> DEFINE new == s.new /\ s.present
           shown == s.shown \/ (s.non_interactive /\ ~s.batch_mode)
           u == [s EXCEPT !.new = new, !.present = TRUE, !.shown = shown]
<1>1. HandleErrors(s, "LISTING", "NONE") = s BY HandledIs
<1>2. s.alive /\ s.batch_mode /\ TypeOK(s) /\ s.shown = FALSE BY DEF Between, Held, Goes, TypeOK
<1>3. Done(s, "LISTING", "NONE") = ExecNext(u) BY <1>1, <1>2 DEF Done, ListingDone, Continue
<1>4. new \in BOOLEAN /\ shown = FALSE BY <1>2
<1> HIDE DEF new, shown
<1>5. TypeOK(u) BY <1>2, <1>4 DEF TypeOK, Fields
<1>6. Same(u, s, {"new", "present", "shown"}) /\ u.shown = s.shown
 BY <1>2, <1>4 DEF TypeOK, Same, Fields
<1> HIDE DEF u
<1> USE <1>5, <1>6 DEF Same, Fields
<1>7. Held(u) BY DEF Between, Held, Goes, Untold, Batch, Extraction, Asking, Replaces
<1>8. Quiet(u) /\ Doing(u) = Doing(s) BY DEF Between, Quiet, Doing
<1>9. \A i \in 1 .. u.batch_action : IsDone(u, i)
 <2>1. s.batch_action \in Nat BY <1>2 DEF TypeOK
 <2>2. \A i \in 1 .. s.batch_action - 1 : IsDone(s, i) BY DEF Between, Position
 <2>3. IsDone(s, s.batch_action) BY DEF IsDone, Doing, Working
 <2> QED BY <2>1, <2>2, <2>3 DEF IsDone
<1>10. u.batch_action \in DOMAIN u.list BY DEF Between, Position
<1>11. Inv(ExecNext(u)) BY <1>7, <1>8, <1>9, <1>10, ExecNextBatch
<1> QED BY <1>3, <1>11

\* Files were added, or extracted, and the archive is to be closed.
LEMMA WorkedBatch ==
    ASSUME NEW r, Between(r), Doing(r).type \in Working,
           \A i \in 1 .. r.batch_action : IsDone(r, i), NEW action \in {"ADDING", "EXTRACTING"}
    PROVE  Inv(Done(r, action, "NONE"))
<1>1. HandleErrors(r, action, "NONE") = r BY HandledIs
<1>2. r.alive /\ r.batch_mode = TRUE /\ TypeOK(r) /\ r.converting = FALSE
 BY DEF Between, Held, Goes, TypeOK, Batch
<1>3. CASE action = "ADDING"
 <2> DEFINE saved == IF r.new THEN r.saved \cup {r.uri} ELSE r.saved
            u == [r EXCEPT !.new = FALSE, !.meant = None, !.saved = saved]
 <2>1. Done(r, action, "NONE") = ExecNext(u)
  <3>1. Done(r, action, "NONE") = AddingDone(r, "NONE") BY <1>1, <1>2, <1>3 DEF Done
  <3>2. AddingDone(r, "NONE") = Continue(u, "NONE") BY <1>2 DEF AddingDone
  <3> QED BY <3>1, <3>2 DEF Continue
 <2>2. saved \in SUBSET Names BY <1>2 DEF TypeOK
 <2> HIDE DEF saved
 <2>3. TypeOK(u) BY <1>2, <2>2 DEF TypeOK, Fields, Names
 <2>4. Same(u, r, {"new", "meant", "saved"}) BY <1>2 DEF TypeOK, Same, Fields
 <2> HIDE DEF u
 <2> USE <2>3, <2>4 DEF Same, Fields
 <2>5. Held(u) BY DEF Between, Held, Goes, Untold, Batch, Extraction, Asking, Replaces
 <2>6. Quiet(u) /\ Doing(u) = Doing(r) BY DEF Between, Quiet, Doing
 <2>7. \A i \in 1 .. u.batch_action : IsDone(u, i) BY DEF IsDone
 <2>8. u.batch_action \in DOMAIN u.list BY DEF Between, Position
 <2>9. Inv(ExecNext(u)) BY <2>5, <2>6, <2>7, <2>8, ExecNextBatch DEF Working
 <2> QED BY <2>1, <2>9
<1>4. CASE action = "EXTRACTING"
 <2>1. Done(r, action, "NONE") = ExecNext(r) BY <1>1, <1>2, <1>4 DEF Done, ExtractingDone, Continue
 <2>2. r.batch_action \in DOMAIN r.list BY DEF Between, Position
 <2>3. Inv(ExecNext(r)) BY <2>2, ExecNextBatch DEF Between, Working
 <2> QED BY <2>1, <2>3
<1> QED BY <1>3, <1>4

\* What was begun for the action of the batch fits it.
LEMMA EndedFits ==
    ASSUME NEW s, Same(s, w, {"op"}), Fits(w, Doing(s))
    PROVE  /\ w.op.action \in {"LOADING", "LISTING"} =>
                Doing(s).type = "LOAD" /\ s.uri = Doing(s).archive /\ s.meant = s.uri
           /\ w.op.action \in {"GETTING_FILE_LIST", "ADDING"} => Doing(s).type = "ADD"
           /\ w.op.action = "EXTRACTING" => Doing(s).type \in Working \ {"ADD"}
           /\ w.op.action \in {"LOADING", "LISTING", "GETTING_FILE_LIST", "ADDING", "EXTRACTING"}
<1> QED BY DEF Same, Fields, Fits

LEMMA OperationEndsBatch ==
    ASSUME Inv(w), BatchSound(w), OperationEnds
    PROVE  Inv(w') /\ Resumes(w', w)
<1> DEFINE s == [w EXCEPT !.op = None]
           action == w.op.action
<1>1. Sound /\ w.op # None /\ action \notin {"LOADING", "GETTING_FILE_LIST"}
 BY DEF OperationEnds, Idle
<1>2. /\ Between(s) /\ Same(s, w, {"op"}) /\ Fits(w, Doing(s)) /\ w.asker = "nothing"
 BY <1>1, EndedBatch
<1>3. PICK error \in Errors(w.op) : w' = Done(Record(s, action, error), action, error)
 BY DEF OperationEnds
<1>4. error \in {"NONE", "GENERIC", "STOPPED", "ASK_PASSWORD"} BY DEF Errors
<1> HIDE DEF s
<1>5. /\ action \in {"LISTING", "ADDING", "EXTRACTING"}
      /\ action = "LISTING" =>
           Doing(s).type = "LOAD" /\ s.uri = Doing(s).archive /\ s.meant = s.uri
      /\ action = "ADDING" => Doing(s).type = "ADD"
      /\ action = "EXTRACTING" => Doing(s).type \in Working \ {"ADD"}
 BY <1>1, <1>2, EndedFits
<1> HIDE DEF action
<1>6. error # "NONE" => Record(s, action, error) = s BY DEF Record
<1>7. CASE error = "ASK_PASSWORD"
 <2> DEFINE t == AskPassword(s, action)
 <2>1. action \in Askers BY <1>5 DEF Askers, Actions
 <2>2. Doing(s).type \in AskedBy(action)
  <3>1. CASE action = "LISTING" BY <1>5, <3>1 DEF AskedBy
  <3>2. CASE action = "ADDING" BY <1>5, <3>2 DEF AskedBy
  <3>3. CASE action = "EXTRACTING" BY <1>5, <3>3 DEF AskedBy, Working
  <3> QED BY <1>5, <3>1, <3>2, <3>3
 <2>3. Inv(t) BY <1>2, <2>1, <2>2, AskPasswordBatch
 <2>4. t.alive
  <3>1. TypeOK(s) /\ s.alive BY <1>2 DEF Between, Held, Goes
  <3>2. Same(t, s, {"dialogs", "asker", "left"}) BY <2>1, <3>1, AskPasswordTyped
  <3> QED BY <3>1, <3>2 DEF Same, Fields
 <2>5. HandleErrors(s, action, error) = t BY <1>7 DEF HandleErrors
 <2>6. w' = t BY <1>3, <1>6, <1>7, <2>4, <2>5 DEF Done
 <2> QED BY <1>2, <2>3, <2>6, NoWaitResumes
<1>8. CASE error = "STOPPED"
 <2>1. Inv(w') BY <1>2, <1>3, <1>5, <1>6, <1>8, StoppedDone
 <2> QED BY <1>2, <2>1, NoWaitResumes
<1>9. CASE error = "GENERIC"
 <2>1. CASE action = "LISTING"
  <3>1. Inv(w') BY <1>2, <1>3, <1>6, <1>9, <2>1, ListingFailed
  <3> QED BY <1>2, <3>1, NoWaitResumes
 <2>2. CASE action \in {"ADDING", "EXTRACTING"}
  <3>1. Inv(w') BY <1>2, <1>3, <1>6, <1>9, <2>2, ErrorDone
  <3> QED BY <1>2, <3>1, NoWaitResumes
 <2> QED BY <1>5, <2>1, <2>2
<1>10. CASE error = "NONE"
 <2>1. CASE action = "LISTING"
  <3>1. Record(s, action, error) = s BY <2>1 DEF Record
  <3>2. Inv(w') BY <1>2, <1>3, <1>5, <1>10, <2>1, <3>1, ListedBatch
  <3> QED BY <1>2, <3>2, NoWaitResumes
 <2>2. CASE action \in {"ADDING", "EXTRACTING"}
  <3> DEFINE r == Record(s, action, "NONE")
  <3>1. Doing(s).type \in Working BY <1>5, <2>2 DEF Working
  <3>2. Between(r) /\ Doing(r) = Doing(s) /\ \A i \in 1 .. r.batch_action : IsDone(r, i)
   BY <1>2, <2>2, <3>1, RecordBatch
  <3> HIDE DEF r
  <3>3. Inv(Done(r, action, "NONE")) BY <2>2, <3>1, <3>2, WorkedBatch
  <3>4. Inv(w') BY <1>3, <1>10, <3>3 DEF r
  <3> QED BY <1>2, <3>4, NoWaitResumes
 <2> QED BY <1>5, <2>1, <2>2
<1> QED BY <1>4, <1>7, <1>8, <1>9, <1>10

LEMMA DoomedUsed ==
    ASSUME NEW s, DoomedOn(s)
    PROVE  DoomedOn(Use(s))
<1> DEFINE u == Use(s)
<1>1. TypeOK(s) /\ s.alive /\ ~s.touched BY DEF DoomedOn, Goes, Untold
<1>2. TypeOK(u) /\ Same(u, s, {"touched"}) /\ u.touched = (s.touched \/ ~s.alive) BY <1>1, UseTyped
<1>3. ~u.touched BY <1>1, <1>2
<1> HIDE DEF u
<1> USE <1>2, <1>3 DEF Same, Fields
<1>4. Goes(u) /\ Untold(u) /\ Batch(u) /\ Doomed(u) BY DEF DoomedOn, Goes, Untold, Batch, Doomed
<1>5. Extraction(u) BY DEF DoomedOn, Extraction, Asking, Replaces
<1> QED BY <1>4, <1>5 DEF DoomedOn, u

\* The archive could not be opened: nothing is left of the batch.
LEMMA LoadFailed ==
    ASSUME NEW s, Between(s)
    PROVE  LET d == Done(s, "LOADING", "GENERIC")
           IN  (Dead(d) /\ d.replies = <<"error">>) \/ DoomedOn(d)
<1> DEFINE c == Close(s)
           h == ShowError(c)
           d == Done(s, "LOADING", "GENERIC")
           e == Close(h)
<1>1. HandleErrors(s, "LOADING", "GENERIC") = h BY HandledIs
<1>2. Between(c) BY CloseBetween
<1> HIDE DEF c
<1>3. (Dead(h) /\ h.replies = <<"error">>) \/ Failed(h) BY <1>2, ShowErrorBatch
<1> HIDE DEF h
<1>4. CASE Dead(h) /\ h.replies = <<"error">>
 <2>1. d = Use(h) BY <1>1, <1>4 DEF Done, Dead
 <2> QED BY <1>4, <2>1, UseDead
<1>5. CASE Failed(h)
 <2>1. h.alive /\ h.non_interactive /\ Failed(e) BY <1>5, FailedUsed
 <2>2. d = Use(StopBatch(e)) BY <1>1, <2>1 DEF Done, LoadingDone
 <2> HIDE DEF e, d
 <2>3. DoomedOn(Use(StopBatch(e))) BY <2>1, StopFailed, DoomedUsed
 <2> QED BY <2>2, <2>3 DEF d
<1> QED BY <1>3, <1>4, <1>5

\* A dialog asks for a package to be looked for.
LEMMA InstallBatch ==
    ASSUME NEW s, Between(s), Doing(s).type = "LOAD"
    PROVE  Inv([Show(s, "install") EXCEPT !.asker = "LOADING"])
<1> DEFINE v == Show(s, "install")
           t == [v EXCEPT !.asker = "LOADING"]
<1>1. TypeOK(s) /\ s.dialogs = {} BY DEF Between, Held, Quiet
<1>2. TypeOK(v) /\ Same(v, s, {"dialogs"}) /\ v.dialogs = {"install"} BY <1>1, ShowTyped DEF Dialogs
<1> HIDE DEF v
<1>3. TypeOK(t) BY <1>2 DEF TypeOK, Fields, Askers, Actions
<1>4. Same(t, v, {"asker"}) /\ t.asker = "LOADING" BY <1>2 DEF TypeOK, Same, Fields
<1> HIDE DEF t
<1>5. Same(t, s, {"dialogs", "asker", "ask"} \cup BatchAside) /\ t.dialogs = {"install"}
 BY <1>2, <1>4 DEF Same, BatchAside, Fields
<1>6. Shows(t, Doing(s)) BY <1>4, <1>5 DEF Shows
<1>7. Asking(t) BY <1>5 DEF Asking
<1>8. t.dialogs # {"error"} BY <1>5
<1> QED BY <1>3, <1>5, <1>6, <1>7, <1>8, ShownBatch DEF t, v

LEMMA LoadEndsBatch ==
    ASSUME Inv(w), BatchSound(w), LoadEnds
    PROVE  Inv(w') /\ Resumes(w', w)
<1> DEFINE s == [w EXCEPT !.op = None]
           d == Done(s, "LOADING", "GENERIC")
<1>1. Sound /\ w.op # None /\ w.op.action = "LOADING" BY DEF LoadEnds, Idle
<1>2. /\ Between(s) /\ Same(s, w, {"op"}) /\ Fits(w, Doing(s)) /\ w.asker = "nothing"
 BY <1>1, EndedBatch
<1>3. \/ w' = Start(Done(s, "LOADING", "NONE"), Op("LISTING"))
      \/ w' = d
      \/ w' = UnsupportedDone(s)
      \/ w' = [Show(s, "install") EXCEPT !.asker = "LOADING"]
 BY DEF LoadEnds
<1> HIDE DEF s
<1>4. Doing(s).type = "LOAD" /\ s.uri = Doing(s).archive /\ s.meant = s.uri BY <1>1, <1>2, EndedFits
<1>5. (Dead(d) /\ d.replies = <<"error">>) \/ DoomedOn(d) BY <1>2, LoadFailed
<1> HIDE DEF d
<1>6. Inv(w')
 <2>1. CASE w' = Start(Done(s, "LOADING", "NONE"), Op("LISTING"))
  <3> DEFINE op == Op("LISTING")
  <3>1. HandleErrors(s, "LOADING", "NONE") = s BY HandledIs
  <3>2. s.alive BY <1>2 DEF Between, Held, Goes
  <3>3. Done(s, "LOADING", "NONE") = s BY <3>1, <3>2 DEF Done, LoadingDone
  <3>4. op \in Ops BY OpTyped DEF Actions
  <3>5. op.action = "LISTING" /\ op.files = <<>> /\ ~op.unasked BY DEF Op
  <3> HIDE DEF op
  <3>6. Inv(Start(s, op)) BY <1>2, <1>4, <3>4, <3>5, StartBatch
  <3> QED BY <2>1, <3>3, <3>6 DEF op
 <2>2. CASE w' = d BY <1>5, <2>2, DeadIsInv, DoomedIsInv DEF DoomedOn
 <2>3. CASE w' = UnsupportedDone(s)
  <3> DEFINE t == Use(StopBatch(Close(d)))
  <3>1. UnsupportedDone(s) = IF d.non_interactive THEN t ELSE d
   BY DEF UnsupportedDone, LoadingDone, d
  <3>2. Inv(d) BY <1>5, DeadIsInv, DoomedIsInv DEF DoomedOn
  <3>3. Inv(t)
   <4>1. CASE Dead(d) /\ d.replies = <<"error">>
    <5>1. Dead(Close(d)) /\ Close(d).replies = <<"error">> BY <4>1, CloseDead
    <5> QED BY <5>1, StopBatchDead, UseDead, DeadIsInv
   <4>2. CASE DoomedOn(d) BY <4>2, StopDoomed
   <4> QED BY <1>5, <4>1, <4>2
  <3> QED BY <2>3, <3>1, <3>2, <3>3
 <2>4. CASE w' = [Show(s, "install") EXCEPT !.asker = "LOADING"] BY <1>2, <1>4, <2>4, InstallBatch
 <2> QED BY <1>3, <2>1, <2>2, <2>3, <2>4
<1> QED BY <1>2, <1>6, NoWaitResumes

LEMMA FileListEndsBatch ==
    ASSUME Inv(w), BatchSound(w), FileListEnds
    PROVE  Inv(w') /\ Resumes(w', w)
<1> DEFINE s == [w EXCEPT !.op = None]
           op == [w.op EXCEPT !.action = "ADDING"]
           action == "GETTING_FILE_LIST"
<1>1. Sound /\ w.op # None /\ w.op.action = action BY DEF FileListEnds, Idle
<1>2. /\ Between(s) /\ Same(s, w, {"op"}) /\ Fits(w, Doing(s)) /\ w.asker = "nothing"
      /\ ~w.op.unasked /\ w.op \in Ops
 BY <1>1, EndedBatch
<1>3. \/ w' = Start(Done(s, action, "NONE"), op)
      \/ w' = Abandon(Done(s, action, "NONE"))
      \/ w' = Done(s, action, "GENERIC")
 BY DEF FileListEnds
<1>4. w.op.files = <<>>
 <2>1. Replaces(w) BY <1>1 DEF Inv, Goes, Sound, Extraction
 <2> QED BY <1>1, <2>1 DEF Replaces
<1>5. op \in Ops /\ op.action = "ADDING" /\ op.files = <<>> /\ ~op.unasked
 BY <1>2, <1>4 DEF Ops, Actions
<1> HIDE DEF s, op
<1>6. Doing(s).type = "ADD" BY <1>1, <1>2, EndedFits
<1>7. HandleErrors(s, action, "NONE") = s BY HandledIs
<1>8. s.alive /\ TypeOK(s) /\ ~s.shown /\ s.dialogs = {} /\ s.asker = "nothing"
 BY <1>2 DEF Between, Held, Goes, Quiet
<1>9. Done(s, action, "NONE") = s BY <1>7, <1>8 DEF Done
<1>10. Inv(w')
 <2>1. CASE w' = Start(Done(s, action, "NONE"), op)
  <3>1. Inv(Start(s, op)) BY <1>2, <1>5, <1>6, StartBatch
  <3> QED BY <1>9, <2>1, <3>1
 <2>2. CASE w' = Abandon(Done(s, action, "NONE"))
  <3> DEFINE t == Abandon(s)
  <3>1. TypeOK(t) /\ Same(t, s, {"abandoned"}) /\ t.abandoned BY <1>8, AbandonTyped
  <3> HIDE DEF t
  <3>2. Same(t, s, {"dialogs", "asker", "ask"} \cup BatchAside) BY <3>1 DEF Same, BatchAside
  <3>3. t.dialogs = {} /\ t.asker = "nothing" BY <1>8, <3>1 DEF Same, Fields
  <3>4. Shows(t, Doing(s)) BY <3>1, <3>3 DEF Shows
  <3>5. Asking(t) /\ t.dialogs # {"error"} BY <3>3 DEF Asking
  <3>6. Inv(t) BY <1>2, <3>1, <3>2, <3>4, <3>5, ShownBatch
  <3> QED BY <1>9, <2>2, <3>6 DEF t
 <2>3. CASE w' = Done(s, action, "GENERIC") BY <1>2, <2>3, ErrorDone
 <2> QED BY <1>3, <2>1, <2>2, <2>3
<1> QED BY <1>2, <1>10, NoWaitResumes

\* A batch converts nothing.
LEMMA ConversionEndsBatch ==
    ASSUME Inv(w), BatchSound(w), ConversionEnds
    PROVE  FALSE
BY DEF BatchSound, Batch, ConversionEnds

\* A dialog that is answered, in a window that stays.
LEMMA AnsweredBatch ==
    ASSUME Inv(w), BatchSound(w), Sound, NEW dialog \in Dialogs \ {"error"}, dialog \in w.dialogs
    PROVE  /\ Held(w) /\ Position(w) /\ w.dialogs = {dialog} /\ w.todo = "nothing" /\ w.op = None
           /\ ~w.installing /\ Shows(w, Doing(w))
<1>1. w.dialogs # {"error"} /\ w.dialogs # {} OBVIOUS
<1>2. Held(w) /\ Position(w) /\ Stage(w) BY <1>1, BatchGoes DEF DoomedOn, Doomed
<1>3. w.todo = "nothing" /\ w.op = None /\ ~w.installing /\ Shows(w, Doing(w))
 BY <1>1, <1>2 DEF Stage
<1>4. w.dialogs = {dialog} BY <1>3 DEF Shows
<1> QED BY <1>2, <1>3, <1>4

\* Nothing is shown, or waited for, any more.
LEMMA GoneBatch ==
    ASSUME NEW t, Held(w), Position(w), w.todo = "nothing", w.op = None, TypeOK(t),
           Same(t, w, {"dialogs", "asker", "installing", "clicked", "password", "use_default_dir"}),
           t.dialogs = {}, t.asker = "nothing", ~t.installing, ~w.showing_error_dialog
    PROVE  Between(t) /\ Doing(t) = Doing(w)
<1> USE DEF Same, Fields
<1>1. Held(t) BY DEF Held, Goes, Untold, Batch, Extraction, Asking, Replaces
<1>2. Position(t) BY DEF Position, Doing, IsDone
<1>3. Quiet(t) BY DEF Quiet
<1> QED BY <1>1, <1>2, <1>3 DEF Between, Doing

\* What the batch has come to is begun again.
LEMMA AgainBatch ==
    ASSUME NEW s, Between(s)
    PROVE  LET t == Again(s)
           IN  Inv(t) /\ t.todo = "list" /\ t.batch_action = s.batch_action
<1> DEFINE again == s.batch_mode /\ s.batch_action # 0
           t == [s EXCEPT !.todo = "list", !.batch_mode = again]
<1>1. TypeOK(s) /\ s.batch_mode = TRUE /\ s.batch_action # 0 BY DEF Between, Held, Position, TypeOK
<1>2. Again(s) = t BY <1>1 DEF Again
<1>3. again = TRUE BY <1>1
<1> HIDE DEF again
<1>4. TypeOK(t) BY <1>1, <1>3 DEF TypeOK, Fields
<1>5. Same(t, s, {"todo"}) /\ t.todo = "list" BY <1>1, <1>3 DEF TypeOK, Same, Fields
<1> HIDE DEF t
<1> USE <1>4, <1>5 DEF Same, Fields
<1>6. Held(t) BY DEF Between, Held, Goes, Untold, Batch, Extraction, Asking, Replaces
<1>7. Position(t) BY DEF Between, Position, Doing, IsDone
<1>8. Stage(t) BY DEF Between, Quiet, Stage
<1>9. Inv(t) BY <1>6, <1>7, <1>8, BatchIsInv
<1> QED BY <1>2, <1>9

LEMMA InstallEndsBatch ==
    ASSUME Inv(w), BatchSound(w), InstallEnds
    PROVE  Inv(w') /\ Resumes(w', w)
<1> DEFINE s == [w EXCEPT !.installing = FALSE, !.asker = "nothing"]
<1>1. Sound /\ w.installing BY DEF InstallEnds, Idle
<1>2. Held(w) /\ Position(w) /\ Stage(w) BY <1>1, BatchGoes DEF DoomedOn, Doomed
<1>3. /\ w.todo = "nothing" /\ w.op = None /\ w.dialogs = {} /\ Doing(w).type = "LOAD"
      /\ w.asker = "LOADING"
 BY <1>1, <1>2 DEF Stage
<1>4. TypeOK(w) /\ ~w.touched /\ ~w.showing_error_dialog /\ w.batch_mode
 BY <1>2, <1>3 DEF Held, Untold, Batch
<1>5. TypeOK(s) BY <1>4 DEF TypeOK, Fields, Askers
<1>6. /\ Same(s, w, {"dialogs", "asker", "installing", "clicked", "password", "use_default_dir"})
      /\ s.asker = "nothing" /\ ~s.installing /\ s.dialogs = {}
      /\ s.batch_action = w.batch_action
 BY <1>3, <1>4 DEF TypeOK, Same, Fields
<1>7. PICK error \in {"STOPPED", "GENERIC"} :
        w' = Again(s) \/ w' = [Done(s, "LOADING", error) EXCEPT !.touched = w.touched]
 BY DEF InstallEnds
<1> HIDE DEF s
<1>8. Between(s) BY <1>2, <1>3, <1>4, <1>5, <1>6, GoneBatch
<1>9. CASE w' = Again(s)
 <2>1. Inv(w') /\ w'.todo = "list" /\ w'.batch_action = w.batch_action
  BY <1>6, <1>8, <1>9, AgainBatch
 <2>2. w.list[w'.batch_action].type = "LOAD" BY <1>3, <2>1 DEF Doing
 <2>3. w.list[w'.batch_action].type \in AskedBy(w.asker) BY <1>3, <2>2 DEF AskedBy
 <2>4. Resumes(w', w) BY <2>1, <2>3 DEF Resumes
 <2> QED BY <2>1, <2>4
<1>10. CASE w' = [Done(s, "LOADING", error) EXCEPT !.touched = w.touched]
 <2> DEFINE d == Done(s, "LOADING", error)
            t == [d EXCEPT !.touched = FALSE]
 <2>1. w' = t
  <3>1. w.touched = FALSE BY <1>4 DEF TypeOK
  <3> QED BY <1>10, <3>1
 <2>2. CASE error = "GENERIC"
  <3>1. (Dead(d) /\ d.replies = <<"error">>) \/ DoomedOn(d) BY <1>8, <2>2, LoadFailed
  <3> HIDE DEF d
  <3>2. TypeOK(d) BY <3>1 DEF Dead, DoomedOn
  <3>3. TypeOK(t) BY <3>2 DEF TypeOK, Fields
  <3>4. Same(t, d, {"touched"}) /\ ~t.touched BY <3>2 DEF TypeOK, Same, Fields
  <3> HIDE DEF t
  <3>5. CASE Dead(d) /\ d.replies = <<"error">>
   <4>1. Dead(t) BY <3>3, <3>4, <3>5 DEF Dead, Same, Fields
   <4> QED BY <2>1, <4>1, DeadIsInv, NoWaitResumes
  <3>6. CASE DoomedOn(d)
   <4> USE <3>3, <3>4, <3>6 DEF Same, Fields
   <4>1. Goes(t) /\ Untold(t) /\ Batch(t) /\ Doomed(t)
    BY DEF DoomedOn, Goes, Untold, Batch, Doomed
   <4>2. Extraction(t) BY DEF DoomedOn, Extraction, Asking, Replaces
   <4>3. Inv(t) BY <4>1, <4>2, DoomedIsInv
   <4>4. t.todo = "nothing" BY <4>1 DEF Doomed
   <4> QED BY <2>1, <4>3, <4>4, NoWaitResumes
  <3> QED BY <3>1, <3>5, <3>6
 <2>3. CASE error = "STOPPED"
  <3> DEFINE c == Close(s)
             x == StopBatch(c)
  <3>1. HandleErrors(s, "LOADING", "STOPPED") = s BY HandledIs
  <3>2. s.alive /\ s.non_interactive BY <1>8 DEF Between, Held, Goes, Batch
  <3>3. d = Use(x) BY <2>3, <3>1, <3>2 DEF Done, LoadingDone
  <3>4. Dead(x) /\ x.replies = <<>>
   <4> QED BY <1>8, CloseBetween, StopBetween
  <3> HIDE DEF x, d
  <3>5. TypeOK(d) /\ Same(d, x, {"touched"}) BY <3>3, <3>4, UseTyped DEF Dead
  <3>6. TypeOK(t) BY <3>5 DEF TypeOK, Fields
  <3>7. Same(t, d, {"touched"}) /\ ~t.touched BY <3>5 DEF TypeOK, Same, Fields
  <3> HIDE DEF t
  <3>8. Dead(t) BY <3>4, <3>5, <3>6, <3>7 DEF Dead, Same, Fields
  <3> QED BY <2>1, <3>8, DeadIsInv, NoWaitResumes
 <2> QED BY <2>2, <2>3
<1> QED BY <1>7, <1>9, <1>10

\* The window goes with the dialog.
LEMMA AnswerErrorBatch ==
    ASSUME Inv(w), BatchSound(w), AnswerError
    PROVE  Inv(w') /\ Resumes(w', w)
<1> DEFINE a == Answered("error")
           s == [a EXCEPT !.showing_error_dialog = FALSE]
<1>1. Sound /\ w.todo = "nothing" /\ "error" \in w.dialogs BY DEF AnswerError, Answers, Idle
<1>2. TypeOK(w) /\ Goes(w) /\ Untold(w) /\ w.destroy_with_error_dialog /\ w.asker = "nothing"
 BY <1>1, BatchGoes DEF DoomedOn, Doomed, Held, Stage, Shows
<1>3. w' = IF s.destroy_with_error_dialog THEN Destroy(s) ELSE s BY DEF AnswerError
<1>4. TypeOK(a) /\ Same(a, w, {"dialogs"}) BY <1>2, AnsweredTyped
<1> HIDE DEF a
<1>5. TypeOK(s) BY <1>4 DEF TypeOK, Fields
<1>6. Same(s, a, {"showing_error_dialog"}) BY <1>4 DEF TypeOK, Same, Fields
<1> HIDE DEF s
<1>7. /\ s.destroy_with_error_dialog /\ ~s.overlap /\ s.orphaned = "no" /\ s.replies = <<>>
      /\ ~s.touched
 BY <1>2, <1>4, <1>6 DEF Same, Fields, Goes, Untold
<1>8. Dead(w') BY <1>3, <1>5, <1>7, DestroyDead
<1> QED BY <1>2, <1>8, DeadIsInv, NoWaitResumes

LEMMA AnswerPasswordBatch ==
    ASSUME Inv(w), BatchSound(w), AnswerPassword
    PROVE  Inv(w') /\ Resumes(w', w)
<1> DEFINE a == Answered("password")
           s == [a EXCEPT !.asker = "nothing"]
           p == [s EXCEPT !.password = TRUE]
<1>1. Sound /\ "password" \in w.dialogs BY DEF AnswerPassword, Answers, Idle
<1>2. /\ Held(w) /\ Position(w) /\ w.dialogs = {"password"} /\ w.todo = "nothing"
      /\ w.op = None /\ ~w.installing /\ Shows(w, Doing(w))
 BY <1>1, AnsweredBatch DEF Dialogs
<1>3. TypeOK(w) /\ ~w.showing_error_dialog /\ w.batch_mode BY <1>2 DEF Held, Batch
<1>4. Doing(w).type \in AskedBy(w.asker) BY <1>2 DEF Shows
<1>5. w' = Again(p) \/ w' = (IF s.batch_mode THEN Destroy(s) ELSE [s EXCEPT !.current = NoAct])
 BY DEF AnswerPassword
<1>6. TypeOK(a) /\ Same(a, w, {"dialogs"}) /\ a.dialogs = {} BY <1>2, <1>3, AnsweredTyped
<1> HIDE DEF a
<1>7. TypeOK(s) BY <1>6 DEF TypeOK, Fields, Askers
<1>8. Same(s, a, {"asker"}) /\ s.asker = "nothing" BY <1>6 DEF TypeOK, Same, Fields
<1> HIDE DEF s
<1>9. TypeOK(p) BY <1>7 DEF TypeOK, Fields
<1>10. Same(p, s, {"password"}) BY <1>7 DEF TypeOK, Same, Fields
<1> HIDE DEF p
<1>11. Same(s, w, {"dialogs", "asker"}) /\ s.dialogs = {} BY <1>6, <1>8 DEF Same, Fields
<1>12. /\ Same(p, w, {"dialogs", "asker", "installing", "clicked", "password", "use_default_dir"})
       /\ p.dialogs = {} /\ p.asker = "nothing" /\ ~p.installing
       /\ p.batch_action = w.batch_action
 BY <1>2, <1>8, <1>10, <1>11 DEF Same, Fields
<1>13. Between(p) BY <1>2, <1>3, <1>9, <1>12, GoneBatch
<1>14. CASE w' = Again(p)
 <2>1. Inv(w') /\ w'.todo = "list" /\ w'.batch_action = w.batch_action
  BY <1>12, <1>13, <1>14, AgainBatch
 <2>2. Resumes(w', w) BY <1>4, <2>1 DEF Resumes, Doing
 <2> QED BY <2>1, <2>2
<1>15. CASE w' = (IF s.batch_mode THEN Destroy(s) ELSE [s EXCEPT !.current = NoAct])
 <2>1. s.batch_mode /\ ~s.overlap /\ s.orphaned = "no" /\ s.replies = <<>> /\ ~s.touched
  BY <1>2, <1>3, <1>11 DEF Same, Fields, Held, Goes, Untold
 <2> QED BY <1>7, <1>15, <2>1, DestroyDead, DeadIsInv, NoWaitResumes
<1> QED BY <1>5, <1>14, <1>15

LEMMA AnswerInstallBatch ==
    ASSUME Inv(w), BatchSound(w), AnswerInstall
    PROVE  Inv(w') /\ Resumes(w', w)
<1> DEFINE a == Answered("install")
           i == [a EXCEPT !.installing = TRUE]
           s == [a EXCEPT !.asker = "nothing"]
<1>1. Sound /\ "install" \in w.dialogs BY DEF AnswerInstall, Answers, Idle
<1>2. /\ Held(w) /\ Position(w) /\ w.dialogs = {"install"} /\ w.todo = "nothing"
      /\ w.op = None /\ ~w.installing /\ Shows(w, Doing(w))
 BY <1>1, AnsweredBatch DEF Dialogs
<1>3. TypeOK(w) /\ ~w.showing_error_dialog BY <1>2 DEF Held, Batch
<1>4. Doing(w).type = "LOAD" /\ w.asker = "LOADING" BY <1>2 DEF Shows
<1>5. w' = i \/ w' = StopBatch(s) BY DEF AnswerInstall
<1>6. TypeOK(a) /\ Same(a, w, {"dialogs"}) /\ a.dialogs = {} BY <1>2, <1>3, AnsweredTyped
<1> HIDE DEF a
<1>7. CASE w' = i
 <2>1. TypeOK(i) BY <1>6 DEF TypeOK, Fields
 <2>2. Same(i, a, {"installing"}) /\ i.installing BY <1>6 DEF TypeOK, Same, Fields
 <2> HIDE DEF i
 <2>3. Same(i, w, {"dialogs", "installing"}) /\ i.dialogs = {} BY <1>6, <2>2 DEF Same, Fields
 <2> USE <1>2, <1>3, <1>4, <2>1, <2>2, <2>3 DEF Same, Fields
 <2>4. Held(i) BY DEF Held, Goes, Untold, Batch, Extraction, Asking, Replaces
 <2>5. Position(i) BY DEF Position, Doing, IsDone
 <2>6. Stage(i) BY DEF Stage, Doing
 <2>7. Inv(i) BY <2>4, <2>5, <2>6, BatchIsInv
 <2>8. i.todo = "nothing" OBVIOUS
 <2> QED BY <1>7, <2>7, <2>8, NoWaitResumes
<1>8. CASE w' = StopBatch(s)
 <2>1. TypeOK(s) BY <1>6 DEF TypeOK, Fields, Askers
 <2>2. Same(s, a, {"asker"}) /\ s.asker = "nothing" BY <1>6 DEF TypeOK, Same, Fields
 <2> HIDE DEF s
 <2>3. /\ Same(s, w, {"dialogs", "asker", "installing", "clicked", "password", "use_default_dir"})
       /\ s.dialogs = {} /\ ~s.installing
  BY <1>2, <1>6, <2>2 DEF Same, Fields
 <2>4. Between(s) BY <1>2, <1>3, <2>1, <2>2, <2>3, GoneBatch
 <2> QED BY <1>8, <2>4, StopBetween, NoWaitResumes
<1> QED BY <1>5, <1>7, <1>8

\* A dialog that nothing waits for is gone.
LEMMA DismissedBatch ==
    ASSUME Inv(w), BatchSound(w), Sound, NEW dialog \in {"extract", "overwrite", "batch_add"},
           dialog \in w.dialogs
    PROVE  LET a == Answered(dialog)
           IN  /\ Between(a) /\ Doing(a) = Doing(w) /\ Same(a, w, {"dialogs"})
               /\ w.dialogs = {dialog} /\ w.asker = "nothing" /\ Shows(w, Doing(w))
               /\ dialog = "batch_add" => Doing(w).type = "OPEN"
               /\ dialog # "batch_add" => Doing(w).type = "EXTRACT_INTERACT"
               /\ dialog = "overwrite" => w.current.type = "EXTRACT"
<1> DEFINE a == Answered(dialog)
<1>1. /\ Held(w) /\ Position(w) /\ w.dialogs = {dialog} /\ w.todo = "nothing"
      /\ w.op = None /\ ~w.installing /\ Shows(w, Doing(w))
 BY AnsweredBatch DEF Dialogs
<1>2. TypeOK(w) /\ ~w.showing_error_dialog BY <1>1 DEF Held, Batch
<1>3. /\ w.asker = "nothing"
      /\ dialog = "batch_add" => Doing(w).type = "OPEN"
      /\ dialog # "batch_add" => Doing(w).type = "EXTRACT_INTERACT"
      /\ dialog = "overwrite" => w.current.type = "EXTRACT"
 BY <1>1 DEF Shows
<1>4. TypeOK(a) /\ Same(a, w, {"dialogs"}) /\ a.dialogs = {} BY <1>1, <1>2, AnsweredTyped
<1> HIDE DEF a
<1>5. /\ Same(a, w, {"dialogs", "asker", "installing", "clicked", "password", "use_default_dir"})
      /\ a.asker = "nothing" /\ ~a.installing
 BY <1>1, <1>3, <1>4 DEF Same, Fields
<1>6. Between(a) /\ Doing(a) = Doing(w) BY <1>1, <1>2, <1>4, <1>5, GoneBatch
<1> QED BY <1>1, <1>3, <1>4, <1>6 DEF a

\* A dialog of a batch is closed, by its button or without it.
LEMMA ClosedBatch ==
    ASSUME Inv(w), BatchSound(w), Sound, NEW dialog \in {"extract", "batch_add"},
           dialog \in w.dialogs
    PROVE  LET s == [Answered(dialog) EXCEPT !.clicked = FALSE]
           IN  /\ Between(s) /\ Doing(s) = Doing(w)
               /\ Inv(Abandon(s)) /\ Inv(Closed(dialog)) /\ Inv([w EXCEPT !.clicked = TRUE])
<1> DEFINE a == Answered(dialog)
           s == [a EXCEPT !.clicked = FALSE]
           t == Abandon(s)
           c == [w EXCEPT !.clicked = TRUE]
<1>1. Between(a) /\ Doing(a) = Doing(w) BY DismissedBatch
<1>2. Closed(dialog) = IF w.clicked THEN t ELSE StopBatch(s) BY DEF Closed
<1> HIDE DEF a
<1>3. TypeOK(a) BY <1>1 DEF Between, Held
<1>4. TypeOK(s) BY <1>3 DEF TypeOK, Fields
<1>5. Same(s, a, {"clicked"}) BY <1>3 DEF TypeOK, Same, Fields
<1> HIDE DEF s
<1>6. Same(s, a, BatchAside \cup {"present"}) /\ s.present = a.present /\ Doing(s) = Doing(a)
 BY <1>5 DEF Same, BatchAside, Fields, Doing
<1>7. Between(s) BY <1>1, <1>4, <1>6, BetweenKept
<1>8. Inv(t)
 <2>1. ~s.shown /\ s.dialogs = {} /\ s.asker = "nothing" BY <1>7 DEF Between, Held, Quiet
 <2>2. TypeOK(t) /\ Same(t, s, {"abandoned"}) /\ t.abandoned BY <1>4, <2>1, AbandonTyped
 <2> HIDE DEF t
 <2>3. Same(t, s, {"dialogs", "asker", "ask"} \cup BatchAside) BY <2>2 DEF Same, BatchAside
 <2>4. t.dialogs = {} /\ t.asker = "nothing" BY <2>1, <2>2 DEF Same, Fields
 <2>5. Shows(t, Doing(s)) BY <2>2, <2>4 DEF Shows
 <2>6. Asking(t) /\ t.dialogs # {"error"} BY <2>4 DEF Asking
 <2> QED BY <1>7, <2>2, <2>3, <2>5, <2>6, ShownBatch DEF t
<1>9. Inv(StopBatch(s)) BY <1>7, StopBetween
<1>10. Inv(c)
 <2>1. /\ Held(w) /\ Position(w) /\ w.todo = "nothing" /\ w.op = None /\ ~w.installing
       /\ Shows(w, Doing(w)) /\ w.dialogs = {dialog}
  BY AnsweredBatch DEF Dialogs
 <2>2. TypeOK(w) BY <2>1 DEF Held
 <2>3. TypeOK(c) BY <2>2 DEF TypeOK, Fields
 <2>4. Same(c, w, {"clicked"}) BY <2>2 DEF TypeOK, Same, Fields
 <2> HIDE DEF c
 <2> USE <2>1, <2>3, <2>4 DEF Same, Fields
 <2>5. Held(c) BY DEF Held, Goes, Untold, Batch, Extraction, Asking, Replaces
 <2>6. Position(c) BY DEF Position, Doing, IsDone
 <2>7. Doing(c) = Doing(w) BY DEF Doing
 <2>8. Shows(c, Doing(c)) BY <2>7 DEF Shows
 <2>9. Stage(c) BY <2>8 DEF Stage
 <2> QED BY <2>5, <2>6, <2>9, BatchIsInv DEF c
<1> QED BY <1>1, <1>2, <1>6, <1>7, <1>8, <1>9, <1>10 DEF s, a

LEMMA AnswerBatchAddBatch ==
    ASSUME Inv(w), BatchSound(w), AnswerBatchAdd
    PROVE  Inv(w') /\ Resumes(w', w)
<1> DEFINE s == [Answered("batch_add") EXCEPT !.clicked = FALSE]
<1>1. Sound /\ "batch_add" \in w.dialogs BY DEF AnswerBatchAdd, Answers, Idle
<1>2. /\ Between(s) /\ Doing(s) = Doing(w) /\ Inv(Closed("batch_add"))
      /\ Inv([w EXCEPT !.clicked = TRUE])
 BY <1>1, ClosedBatch
<1>3. Doing(w).type = "OPEN" /\ w.asker = "nothing" BY <1>1, DismissedBatch
<1>4. \/ w' = Closed("batch_add")
      \/ w' = [w EXCEPT !.clicked = TRUE]
      \/ \E archive \in Archives : Kind[archive] = "absent" /\ w' = ArchiveNew(s, archive)
 BY DEF AnswerBatchAdd
<1> HIDE DEF s
<1>5. \A archive \in Archives : Kind[archive] = "absent" => Inv(ArchiveNew(s, archive))
 BY <1>2, <1>3, ArchiveNewBatch
<1>6. Inv(w') BY <1>2, <1>4, <1>5
<1> QED BY <1>3, <1>6, NoWaitResumes

LEMMA AnswerExtractBatch ==
    ASSUME Inv(w), BatchSound(w), AnswerExtract
    PROVE  Inv(w') /\ Resumes(w', w)
<1> DEFINE s == [Answered("extract") EXCEPT !.clicked = FALSE]
           u == [s EXCEPT !.use_default_dir = s.non_interactive]
<1>1. Sound /\ "extract" \in w.dialogs BY DEF AnswerExtract, Answers, Idle
<1>2. /\ Between(s) /\ Doing(s) = Doing(w) /\ Inv(Closed("extract")) /\ Inv(Abandon(s))
      /\ Inv([w EXCEPT !.clicked = TRUE])
 BY <1>1, ClosedBatch
<1>3. Doing(w).type = "EXTRACT_INTERACT" /\ w.asker = "nothing" BY <1>1, DismissedBatch
<1>4. \/ w' = Closed("extract") \/ w' = [w EXCEPT !.clicked = TRUE] \/ w' = Abandon(s)
      \/ \E files \in Selections, overwrite \in BOOLEAN, dir \in {"there", "made"} :
           w' = ArchiveExtract(u, Chosen(files, overwrite), dir)
 BY DEF AnswerExtract, Chosen
<1> HIDE DEF s
<1>5. Between(u) /\ Doing(u) = Doing(w)
 <2>1. TypeOK(s) BY <1>2 DEF Between, Held
 <2>2. TypeOK(u) BY <2>1 DEF TypeOK, Fields
 <2>3. Same(u, s, {"use_default_dir"}) BY <2>1 DEF TypeOK, Same, Fields
 <2> HIDE DEF u
 <2>4. Same(u, s, BatchAside \cup {"present"}) /\ u.present = s.present /\ Doing(u) = Doing(s)
  BY <2>3 DEF Same, BatchAside, Fields, Doing
 <2> QED BY <1>2, <2>2, <2>4, BetweenKept
<1> HIDE DEF u
<1>6. ASSUME NEW files \in Selections, NEW overwrite \in BOOLEAN, NEW dir \in {"there", "made"}
      PROVE  Inv(ArchiveExtract(u, Chosen(files, overwrite), dir))
 <2> DEFINE act == Chosen(files, overwrite)
 <2>1. files \in Seq(Files) BY SelectionsAreFiles
 <2>2. act \in Acts /\ Agreed(act) /\ act.dir = "unknown" BY <2>1, ChosenAgreed
 <2> HIDE DEF act
 <2> QED BY <1>3, <1>5, <2>2, ArchiveExtractBatch DEF act
<1>7. Inv(w') BY <1>2, <1>4, <1>6
<1> QED BY <1>3, <1>7, NoWaitResumes

LEMMA AnswerOverwriteBatch ==
    ASSUME Inv(w), BatchSound(w), AnswerOverwrite
    PROVE  Inv(w') /\ Resumes(w', w)
<1> DEFINE s == Answered("overwrite")
           act == s.current
           all == [act EXCEPT !.overwrite = "YES", !.allowed = @ \cup ToSet(act.files)]
           one == [act EXCEPT !.allowed = @ \cup {act.files[s.ask]}]
           others == [act EXCEPT !.files = RemoveAt(@, s.ask)]
           n == [s EXCEPT !.ask = 0]
<1>1. Sound /\ "overwrite" \in w.dialogs BY DEF AnswerOverwrite, Answers, Idle
<1>2. /\ Between(s) /\ Same(s, w, {"dialogs"}) /\ Doing(s) = Doing(w)
      /\ Doing(s).type = "EXTRACT_INTERACT" /\ w.current.type = "EXTRACT" /\ w.asker = "nothing"
 BY <1>1, DismissedBatch
<1>3. TypeOK(s) BY <1>2 DEF Between, Held
<1>4. \/ w' = StartExtract([s EXCEPT !.current.overwrite = "YES",
                                     !.current.allowed = @ \cup ToSet(s.current.files)])
      \/ w' = AskOverwrite([s EXCEPT !.current.allowed = @ \cup {act.files[s.ask]}], s.ask + 1)
      \/ w' = AskOverwrite([s EXCEPT !.current.files = RemoveAt(@, s.ask)], s.ask)
      \/ w' = StopBatch(n)
 BY DEF AnswerOverwrite
<1>5. [s EXCEPT !.current.overwrite = "YES", !.current.allowed = @ \cup ToSet(s.current.files)]
        = [s EXCEPT !.current = all]
 BY <1>3 DEF TypeOK, Fields, Acts
<1>6. [s EXCEPT !.current.allowed = @ \cup {act.files[s.ask]}] = [s EXCEPT !.current = one]
 BY <1>3 DEF TypeOK, Fields, Acts
<1>7. [s EXCEPT !.current.files = RemoveAt(@, s.ask)] = [s EXCEPT !.current = others]
 BY <1>3 DEF TypeOK, Fields, Acts
<1> HIDE DEF s
<1>8. s.current = w.current /\ s.ask = w.ask BY <1>2 DEF Same, Fields
<1>9. Offering(act, s.ask)
 <2>1. w.current \in Acts /\ Extraction(w) BY <1>1 DEF Inv, Goes, Sound, TypeOK
 <2> QED BY <1>1, <1>2, <1>8, <2>1 DEF Offering, Extraction, Asking
<1>10. ASSUME NEW new \in Acts, new.type = "EXTRACT", Agreed(new),
              NEW u, u = [s EXCEPT !.current = new]
       PROVE  Between(u) /\ u.current = new /\ Doing(u).type = "EXTRACT_INTERACT"
 BY <1>2, <1>10, NoteBatch
<1>11. CASE w' = StartExtract([s EXCEPT !.current = all])
 <2> DEFINE u == [s EXCEPT !.current = all]
 <2>1. all \in Acts /\ all.type = "EXTRACT" /\ Agreed(all) BY <1>9, OfferAll
 <2> HIDE DEF all, u
 <2>2. Between(u) /\ Doing(u).type = "EXTRACT_INTERACT" BY <1>10, <2>1 DEF u
 <2>3. Inv(StartExtract(u)) BY <2>2, StartExtractBatch DEF Working
 <2> QED BY <1>2, <1>11, <2>3, NoWaitResumes DEF u
<1>12. CASE w' = AskOverwrite([s EXCEPT !.current = one], s.ask + 1)
 <2> DEFINE u == [s EXCEPT !.current = one]
            from == s.ask + 1
 <2>1. one \in Acts /\ one.type = "EXTRACT" /\ Agreed(one) /\ AgreedBefore(one, from)
       /\ from \in Nat \ {0}
  BY <1>9, OfferOne
 <2> HIDE DEF one, u, from
 <2>2. Between(u) /\ Doing(u).type = "EXTRACT_INTERACT" /\ u.current = one BY <1>10, <2>1 DEF u
 <2>3. Inv(AskOverwrite(u, from)) BY <2>1, <2>2, AskOverwriteBatch
 <2> QED BY <1>2, <1>12, <2>3, NoWaitResumes DEF u, from
<1>13. CASE w' = AskOverwrite([s EXCEPT !.current = others], s.ask)
 <2> DEFINE u == [s EXCEPT !.current = others]
            from == s.ask
 <2>1. others \in Acts /\ others.type = "EXTRACT" /\ Agreed(others) /\ AgreedBefore(others, from)
       /\ from \in Nat \ {0}
  BY <1>9, OfferOthers
 <2> HIDE DEF others, u, from
 <2>2. Between(u) /\ Doing(u).type = "EXTRACT_INTERACT" /\ u.current = others BY <1>10, <2>1 DEF u
 <2>3. Inv(AskOverwrite(u, from)) BY <2>1, <2>2, AskOverwriteBatch
 <2> QED BY <1>2, <1>13, <2>3, NoWaitResumes DEF u, from
<1>14. CASE w' = StopBatch(n)
 <2>1. TypeOK(n) BY <1>3 DEF TypeOK, Fields
 <2>2. Same(n, s, {"ask"}) BY <1>3 DEF TypeOK, Same, Fields
 <2> HIDE DEF n
 <2> USE <2>1, <2>2 DEF Same, Fields
 <2>3. Quiet(n) /\ Quiet(s) BY <1>2 DEF Between, Quiet
 <2>4. Held(n) BY <1>2, <2>3 DEF Quiet, Between, Held, Goes, Untold, Batch, Extraction, Asking, Replaces
 <2>5. Position(n) BY <1>2 DEF Between, Position, Doing, IsDone
 <2>6. Between(n) BY <2>3, <2>4, <2>5 DEF Between
 <2> QED BY <1>14, <2>6, StopBetween, NoWaitResumes
<1> QED BY <1>4, <1>5, <1>6, <1>7, <1>11, <1>12, <1>13, <1>14

LEMMA RequestStopBatch ==
    ASSUME Inv(w), BatchSound(w), RequestStop
    PROVE  Inv(w') /\ Resumes(w', w)
<1> DEFINE op == [w.op EXCEPT !.stopped = TRUE]
           t == [w EXCEPT !.op = op]
           s == IF w.op = None \/ w.op.action \in {"LOADING", "GETTING_FILE_LIST"} THEN w ELSE t
<1>1. Sound /\ w.todo = "nothing" /\ w.dialogs = {} BY DEF RequestStop, Idle
<1>2. Held(w) /\ Position(w) /\ Stage(w) BY <1>1, BatchGoes DEF DoomedOn, Doomed
<1>3. ~w.converting /\ w.converted = None /\ TypeOK(w) BY <1>2 DEF Held, Batch
<1>4. w.op # None BY <1>3, WindowAssumption DEF RequestStop
<1>5. w' = s BY <1>3 DEF RequestStop
<1>6. w.asker = "nothing" /\ Fits(w, Doing(w)) /\ ~w.op.unasked /\ ~w.installing
 BY <1>1, <1>2, <1>4 DEF Stage
<1>7. w.op \in Ops BY <1>3, <1>4 DEF TypeOK
<1>8. /\ op \in Ops /\ op.action = w.op.action /\ op.files = w.op.files
      /\ op.replaced = w.op.replaced /\ op.unasked = w.op.unasked
 BY <1>7 DEF Ops
<1>9. op # None BY <1>8, OpsAreSome
<1> HIDE DEF op
<1>10. TypeOK(t) BY <1>3, <1>8 DEF TypeOK, Fields
<1>11. Same(t, w, {"op"}) /\ t.op = op BY <1>3 DEF TypeOK, Same, Fields
<1> HIDE DEF t
<1>12. Inv(t)
 <2> USE <1>1, <1>2, <1>4, <1>6, <1>8, <1>9, <1>10, <1>11 DEF Same, Fields
 <2>1. Held(t) BY DEF Held, Goes, Untold, Batch, Extraction, Asking, Replaces
 <2>2. Position(t) BY DEF Position, Doing, IsDone
 <2>3. Doing(t) = Doing(w) BY DEF Doing
 <2>4. Fits(t, Doing(t)) BY <2>3 DEF Fits
 <2>5. Stage(t) BY <2>4 DEF Stage
 <2> QED BY <2>1, <2>2, <2>5, BatchIsInv
<1> QED BY <1>5, <1>6, <1>12, NoWaitResumes

----
(* Every step, of either window. *)

\* A window for a batch that is sound is not shown, or has its error to tell.
LEMMA NotAskedBatch ==
    ASSUME Inv(w), BatchSound(w), MayAsk
    PROVE  FALSE
BY DEF BatchSound, Doomed, MayAsk

\* No batch asks for a new archive by that dialog.
LEMMA AnswerNewBatch ==
    ASSUME Inv(w), BatchSound(w), AnswerNew
    PROVE  FALSE
<1>1. Sound /\ "new" \in w.dialogs BY DEF AnswerNew, Answers, Idle
<1> QED BY <1>1, AnsweredBatch DEF Dialogs, Shows

LEMMA BatchStep ==
    ASSUME Inv(w), BatchSound(w), Next
    PROVE  Inv(w') /\ Resumes(w', w)
<1>1. CASE ExecNextAction BY <1>1, ExecNextActionBatch
<1>2. CASE OperationEnds BY <1>2, OperationEndsBatch
<1>3. CASE LoadEnds BY <1>3, LoadEndsBatch
<1>4. CASE FileListEnds BY <1>4, FileListEndsBatch
<1>5. CASE ConversionEnds BY <1>5, ConversionEndsBatch
<1>6. CASE InstallEnds BY <1>6, InstallEndsBatch
<1>7. CASE AnswerError BY <1>7, AnswerErrorBatch
<1>8. CASE AnswerPassword BY <1>8, AnswerPasswordBatch
<1>9. CASE AnswerInstall BY <1>9, AnswerInstallBatch
<1>10. CASE AnswerOverwrite BY <1>10, AnswerOverwriteBatch
<1>11. CASE AnswerExtract BY <1>11, AnswerExtractBatch
<1>12. CASE AnswerBatchAdd BY <1>12, AnswerBatchAddBatch
<1>13. CASE AnswerNew BY <1>13, AnswerNewBatch
<1>14. CASE RequestOpen \/ RequestNew \/ RequestDrop \/ RequestRemove \/ RequestExtract
              \/ RequestDragOut \/ RequestTest \/ RequestSaveAs \/ RequestReload \/ RequestClose
 <2> QED
  BY <1>14, NotAskedBatch DEF RequestOpen, RequestNew, RequestDrop, RequestRemove, RequestExtract,
     RequestDragOut, RequestTest, RequestSaveAs, RequestReload, RequestClose, CanExtract,
     AsksArchive, AsksIdle
<1>15. CASE RequestStop BY <1>15, RequestStopBatch
<1> QED BY <1>1, <1>2, <1>3, <1>4, <1>5, <1>6, <1>7, <1>8, <1>9, <1>10, <1>11, <1>12, <1>13,
          <1>14, <1>15 DEF Next

LEMMA ReachesInv ==
    ASSUME NEW t, NEW s, Reaches(t, s)
    PROVE  Inv(t) /\ Resumes(t, s)
BY KeepsResumes DEF Reaches

LEMMA UserStep ==
    ASSUME Inv(w), UserSound(w), Next
    PROVE  Inv(w') /\ Resumes(w', w)
<1>1. CASE ExecNextAction BY <1>1, ExecNextActionUser, ReachesInv
<1>2. CASE OperationEnds BY <1>2, OperationEndsUser, ReachesInv
<1>3. CASE LoadEnds BY <1>3, LoadEndsUser, ReachesInv
<1>4. CASE FileListEnds BY <1>4, FileListEndsUser, ReachesInv
<1>5. CASE ConversionEnds BY <1>5, ConversionEndsUser, ReachesInv
<1>6. CASE InstallEnds BY <1>6, InstallEndsUser
<1>7. CASE AnswerError BY <1>7, AnswerErrorUser, ReachesInv
<1>8. CASE AnswerPassword BY <1>8, AnswerPasswordUser
<1>9. CASE AnswerInstall BY <1>9, AnswerInstallUser, ReachesInv
<1>10. CASE AnswerOverwrite BY <1>10, AnswerOverwriteUser, ReachesInv
<1>11. CASE AnswerExtract BY <1>11, AnswerExtractUser, ReachesInv
<1>12. CASE AnswerBatchAdd BY <1>12, AnswerBatchAddUser
<1>13. CASE AnswerNew BY <1>13, AnswerNewUser, ReachesInv
<1>14. CASE RequestOpen BY <1>14, RequestOpenUser, ReachesInv
<1>15. CASE RequestNew BY <1>15, RequestNewUser, ReachesInv
<1>16. CASE RequestDrop BY <1>16, RequestDropUser, ReachesInv
<1>17. CASE RequestRemove BY <1>17, RequestRemoveUser, ReachesInv
<1>18. CASE RequestExtract BY <1>18, RequestExtractUser, ReachesInv
<1>19. CASE RequestDragOut BY <1>19, RequestDragOutUser, ReachesInv
<1>20. CASE RequestTest BY <1>20, RequestTestUser, ReachesInv
<1>21. CASE RequestSaveAs BY <1>21, RequestSaveAsUser, ReachesInv
<1>22. CASE RequestReload BY <1>22, RequestReloadUser, ReachesInv
<1>23. CASE RequestClose BY <1>23, RequestCloseUser
<1>24. CASE RequestStop BY <1>24, RequestStopUser, ReachesInv
<1> QED BY <1>1, <1>2, <1>3, <1>4, <1>5, <1>6, <1>7, <1>8, <1>9, <1>10, <1>11, <1>12, <1>13,
          <1>14, <1>15, <1>16, <1>17, <1>18, <1>19, <1>20, <1>21, <1>22, <1>23, <1>24 DEF Next

\* Whatever is done, the program is not yet at the end of a fault.
LEMMA NextGoes ==
    ASSUME Next
    PROVE  Goes(w)
BY DEF Next, Goes, Sound, Idle, Answers, ExecNextAction, OperationEnds, LoadEnds, FileListEnds,
       ConversionEnds, InstallEnds, AnswerError, AnswerPassword, AnswerInstall, AnswerOverwrite,
       AnswerExtract, AnswerBatchAdd, AnswerNew, RequestOpen, RequestNew, RequestDrop,
       RequestRemove, RequestExtract, RequestDragOut, RequestTest, RequestSaveAs, RequestReload,
       RequestClose, RequestStop, MayAsk, CanExtract, AsksArchive, AsksIdle

LEMMA WindowStep ==
    ASSUME WindowInv, Next
    PROVE  WindowInv' /\ Resumes(w', w)
<1>1. Inv(w) /\ (BatchSound(w) \/ UserSound(w)) BY NextGoes DEF WindowInv, Inv
<1> QED BY <1>1, BatchStep, UserStep DEF WindowInv

----
(* How a window begins. *)

\* Sequences of one and of two, one after the other: the recursion is of a function, of
\* which the few values there are can be given.
LEMMA FlattenOne ==
    ASSUME NEW a
    PROVE  FlattenSeq(<<a>>) = a
<1> DEFINE seqs == <<a>>
           F(f) == [i \in 1 .. Len(seqs) |-> IF i = 1 THEN seqs[i] ELSE f[i - 1] \o seqs[i]]
           c == CHOOSE f : f = F(f)
           g == [i \in 1 .. Len(seqs) |-> a]
<1>1. Len(seqs) = 1 /\ seqs[1] = a OBVIOUS
<1>2. FlattenSeq(seqs) = c[Len(seqs)] BY <1>1 DEF FlattenSeq
<1>3. g = F(g) BY <1>1
<1>4. c = F(c)
 <2> HIDE DEF g, F
 <2> QED BY <1>3
<1>5. c[1] = seqs[1]
 <2> HIDE DEF c
 <2>1. F(c)[1] = seqs[1] BY <1>1
 <2> HIDE DEF F
 <2> QED BY <1>4, <2>1
<1> QED BY <1>1, <1>2, <1>5

LEMMA FlattenTwo ==
    ASSUME NEW a, NEW b
    PROVE  FlattenSeq(<<a, b>>) = a \o b
<1> DEFINE seqs == <<a, b>>
           F(f) == [i \in 1 .. Len(seqs) |-> IF i = 1 THEN seqs[i] ELSE f[i - 1] \o seqs[i]]
           c == CHOOSE f : f = F(f)
           g == [i \in 1 .. Len(seqs) |-> IF i = 1 THEN a ELSE a \o b]
<1>1. Len(seqs) = 2 /\ seqs[1] = a /\ seqs[2] = b OBVIOUS
<1>2. FlattenSeq(seqs) = c[Len(seqs)] BY <1>1 DEF FlattenSeq
<1> HIDE DEF seqs
<1>3. g = F(g)
 <2>1. g[1] = a /\ F(g)[1] = a BY <1>1
 <2>2. g[2] = a \o b BY <1>1
 <2>3. F(g)[2] = g[1] \o b
  <3>1. 2 \in 1 .. Len(seqs) /\ 2 # 1 /\ 2 - 1 = 1 BY <1>1
  <3>2. F(g)[2] = (IF 2 = 1 THEN seqs[2] ELSE g[2 - 1] \o seqs[2]) BY <3>1
  <3> QED BY <1>1, <3>1, <3>2
 <2>4. \A i \in 1 .. 2 : i = 1 \/ i = 2 OBVIOUS
 <2>5. \A i \in 1 .. 2 : g[i] = F(g)[i] BY <2>1, <2>2, <2>3, <2>4
 <2> QED BY <1>1, <2>5
<1>4. c = F(c)
 <2> HIDE DEF g, F
 <2> QED BY <1>3
<1>5. F(c)[1] = a /\ F(c)[2] = c[1] \o b
 <2> HIDE DEF c
 <2>1. 2 \in 1 .. Len(seqs) /\ 1 \in 1 .. Len(seqs) /\ 2 # 1 /\ 2 - 1 = 1 BY <1>1
 <2>2. F(c)[2] = (IF 2 = 1 THEN seqs[2] ELSE c[2 - 1] \o seqs[2]) BY <2>1
 <2>3. F(c)[1] = seqs[1] BY <2>1
 <2> QED BY <1>1, <2>1, <2>2, <2>3
<1>6. c[1] = a /\ c[2] = a \o b
 <2> HIDE DEF c, F
 <2>1. c[1] = a BY <1>4, <1>5
 <2> QED BY <1>4, <1>5, <2>1
<1> QED BY <1>1, <1>2, <1>6 DEF seqs

LEMMA ActIs ==
    ASSUME NEW type \in ActTypes \ {"LOAD"}, NEW archive \in Names
    PROVE  /\ Act(type, archive) \in Acts /\ Plain(Act(type, archive))
           /\ Act(type, archive).type = type /\ Act(type, archive).archive = archive
<1> QED BY ActTyped DEF Act, Plain

LEMMA LoadIs ==
    ASSUME NEW archive \in Archives
    PROVE  /\ Act("LOAD", archive) \in Acts /\ Plain(Act("LOAD", archive))
           /\ Act("LOAD", archive).type = "LOAD" /\ Act("LOAD", archive).archive = archive
<1> QED BY ActTyped DEF Act, Plain, ActTypes, Names

\* The batches are what IsBatch says of them.
LEMMA AddIsBatch ==
    ASSUME NEW archive \in Names
    PROVE  AddBatch(archive) \in Seq(Acts) /\ IsBatch(AddBatch(archive))
<1> DEFINE first == IF archive = None THEN Act("OPEN", None) ELSE Act("LOAD", archive)
           add == Act("ADD", archive)
           close == Act("CLOSE", None)
           quit == Act("QUIT", None)
           list == <<first, add, close, quit>>
<1>1. AddBatch(archive) = list BY DEF AddBatch
<1>2. /\ add \in Acts /\ Plain(add) /\ add.type = "ADD" /\ add.archive = archive
      /\ close \in Acts /\ Plain(close) /\ close.type = "CLOSE"
      /\ quit \in Acts /\ Plain(quit) /\ quit.type = "QUIT"
 BY ActIs DEF ActTypes, Names, Working
<1>3. /\ first \in Acts /\ Plain(first)
      /\ first.type \in {"LOAD", "OPEN"} /\ Follows(first, add)
 <2>1. CASE archive = None BY <1>2, <2>1, ActIs DEF ActTypes, Names, Follows, Working
 <2>2. CASE archive # None
  <3>1. archive \in Archives BY <2>2 DEF Names
  <3> QED BY <1>2, <2>2, <3>1, LoadIs DEF Follows, Working
 <2> QED BY <2>1, <2>2
<1>4. Follows(add, close) /\ Follows(close, quit) BY <1>2 DEF Follows, Working
<1> HIDE DEF first, add, close, quit
<1>5. /\ list \in Seq(Acts) /\ Len(list) = 4 /\ list # <<>> /\ DOMAIN list = 1 .. 4
      /\ list[1] = first /\ list[2] = add /\ list[3] = close /\ list[4] = quit
 BY <1>2, <1>3
<1> HIDE DEF list
<1>6. \A i \in 1 .. 4 : i = 1 \/ i = 2 \/ i = 3 \/ i = 4 OBVIOUS
<1>7. \A i \in DOMAIN list : Plain(list[i]) BY <1>2, <1>3, <1>5, <1>6
<1>8. \A i \in 1 .. Len(list) - 1 : Follows(list[i], list[i + 1])
 <2>1. \A i \in 1 .. Len(list) - 1 : i = 1 \/ i = 2 \/ i = 3 BY <1>5
 <2>2. 1 + 1 = 2 /\ 2 + 1 = 3 /\ 3 + 1 = 4 OBVIOUS
 <2> QED BY <1>3, <1>4, <1>5, <2>1, <2>2
<1> QED BY <1>1, <1>2, <1>3, <1>5, <1>7, <1>8 DEF IsBatch

\* What is done with one archive.
ForOne(type, archive) == << Act("LOAD", archive), Act(type, archive), Act("CLOSE", None) >>

\* What is left of a batch after that.
IsRest(list) ==
    /\ list # <<>> /\ list[1].type \in {"LOAD", "QUIT"}
    /\ \A i \in DOMAIN list : Plain(list[i])
    /\ \A i \in 1 .. Len(list) - 1 : Follows(list[i], list[i + 1])
    /\ list[Len(list)].type = "QUIT"

LEMMA MoreIsBatch ==
    ASSUME NEW type \in Working, NEW archive \in Archives, NEW rest \in Seq(Acts), IsRest(rest)
    PROVE  LET list == ForOne(type, archive) \o rest
           IN  list \in Seq(Acts) /\ IsBatch(list) /\ list[1].type = "LOAD"
<1> DEFINE load == Act("LOAD", archive)
           work == Act(type, archive)
           close == Act("CLOSE", None)
           one == <<load, work, close>>
           list == one \o rest
           n == Len(rest)
<1>1. /\ work \in Acts /\ Plain(work) /\ work.type = type /\ work.archive = archive
      /\ close \in Acts /\ Plain(close) /\ close.type = "CLOSE"
 BY ActIs DEF ActTypes, Names, Working
<1>2. load \in Acts /\ Plain(load) /\ load.type = "LOAD" /\ load.archive = archive BY LoadIs
<1>3. Follows(load, work) /\ Follows(work, close) /\ Follows(close, rest[1])
 BY <1>1, <1>2 DEF Follows, Working, IsRest
<1>4. ForOne(type, archive) = one BY DEF ForOne
<1> HIDE DEF load, work, close
<1>5. one \in Seq(Acts) /\ Len(one) = 3 /\ one[1] = load /\ one[2] = work /\ one[3] = close
 BY <1>1, <1>2
<1>6. n \in Nat /\ n > 0 /\ DOMAIN rest = 1 .. n
 <2> QED BY EmptySeq DEF IsRest
<1> HIDE DEF one
<1>7. /\ list \in Seq(Acts) /\ Len(list) = 3 + n /\ DOMAIN list = 1 .. 3 + n
      /\ list[1] = load /\ list[2] = work /\ list[3] = close
      /\ \A i \in 1 .. n : list[i + 3] = rest[i]
 <2>1. /\ list \in Seq(Acts) /\ Len(list) = Len(one) + Len(rest)
       /\ \A i \in 1 .. Len(one) + Len(rest) :
            list[i] = IF i <= Len(one) THEN one[i] ELSE rest[i - Len(one)]
  <3> QED BY <1>5, ConcatProperties
 <2> HIDE DEF list
 <2>2. Len(list) = 3 + n /\ DOMAIN list = 1 .. 3 + n BY <1>5, <1>6, <2>1
 <2>4. list[1] = load /\ list[2] = work /\ list[3] = close
  <3>1. \A i \in {1, 2, 3} : i \in 1 .. Len(one) + Len(rest) /\ i <= Len(one) BY <1>5, <1>6
  <3> QED BY <1>5, <2>1, <3>1
 <2>3. \A i \in 1 .. n : list[i + 3] = rest[i]
  <3>1. ASSUME NEW i \in 1 .. n PROVE list[i + 3] = rest[i]
   <4>1. i + 3 \in 1 .. Len(one) + Len(rest) /\ ~(i + 3 <= Len(one)) /\ (i + 3) - Len(one) = i
    BY <1>5, <1>6
   <4> QED BY <2>1, <4>1
  <3> QED BY <3>1
 <2> QED BY <2>1, <2>2, <2>3, <2>4
<1> HIDE DEF list, n
<1>8. \A i \in 1 .. 3 + n : i \in {1, 2, 3} \/ i - 3 \in 1 .. n BY <1>6
<1>9. \A i \in DOMAIN list : Plain(list[i])
 <2>1. ASSUME NEW i \in 1 .. 3 + n PROVE Plain(list[i])
  <3>1. CASE i \in {1, 2, 3} BY <1>1, <1>2, <1>7, <3>1
  <3>2. CASE i - 3 \in 1 .. n
   <4>1. (i - 3) + 3 = i BY <1>6
   <4>2. list[i] = rest[i - 3] BY <1>7, <3>2, <4>1
   <4> QED BY <1>6, <3>2, <4>2 DEF IsRest
  <3> QED BY <1>8, <3>1, <3>2
 <2> QED BY <1>7, <2>1
<1>10. \A i \in 1 .. Len(list) - 1 : Follows(list[i], list[i + 1])
 <2>1. ASSUME NEW i \in 1 .. 2 + n PROVE Follows(list[i], list[i + 1])
  <3>1. 1 + 1 = 2 /\ 2 + 1 = 3 /\ 1 \in 1 .. n /\ 1 + 3 = 4 /\ 3 + 1 = 4 BY <1>6
  <3>2. list[4] = rest[1] BY <1>7, <3>1
  <3>3. CASE i \in {1, 2, 3} BY <1>3, <1>7, <3>1, <3>2, <3>3
  <3>4. CASE i - 3 \in 1 .. n - 1
   <4>1. /\ (i - 3) + 3 = i /\ (i - 3) + 1 \in 1 .. n /\ ((i - 3) + 1) + 3 = i + 1
         /\ i - 3 \in 1 .. n
    BY <1>6, <3>4
   <4>2. list[i] = rest[i - 3] /\ list[i + 1] = rest[(i - 3) + 1] BY <1>7, <4>1
   <4>3. Follows(rest[i - 3], rest[(i - 3) + 1]) BY <3>4 DEF IsRest, n
   <4> QED BY <4>2, <4>3
  <3>5. i \in {1, 2, 3} \/ i - 3 \in 1 .. n - 1 BY <1>6
  <3> QED BY <3>3, <3>4, <3>5
 <2>2. Len(list) - 1 = 2 + n BY <1>6, <1>7
 <2> QED BY <2>1, <2>2
<1>11. list[Len(list)].type = "QUIT"
 <2>1. n \in 1 .. n /\ n + 3 = 3 + n BY <1>6
 <2>2. list[3 + n] = rest[n] BY <1>7, <2>1
 <2> QED BY <1>7, <2>2 DEF IsRest, n
<1>12. list # <<>> BY <1>6, <1>7, EmptySeq
<1>13. IsBatch(list) BY <1>2, <1>7, <1>9, <1>10, <1>11, <1>12 DEF IsBatch
<1> QED BY <1>2, <1>4, <1>7, <1>13 DEF list

LEMMA ExtractIsBatch ==
    ASSUME NEW type \in Working, NEW archives \in SeqOf(Archives, 2) \ {<<>>}
    PROVE  ExtractBatch(type, archives) \in Seq(Acts) /\ IsBatch(ExtractBatch(type, archives))
<1> DEFINE quit == Act("QUIT", None)
           each == [i \in DOMAIN archives |-> ForOne(type, archives[i])]
<1>1. ExtractBatch(type, archives) = FlattenSeq(each) \o <<quit>> BY DEF ExtractBatch, ForOne
<1>2. quit \in Acts /\ Plain(quit) /\ quit.type = "QUIT" BY ActIs DEF ActTypes, Names
<1>3. <<quit>> \in Seq(Acts) /\ IsRest(<<quit>>)
 <2> HIDE DEF quit
 <2>1. <<quit>> \in Seq(Acts) /\ Len(<<quit>>) = 1 /\ <<quit>>[1] = quit /\ <<quit>> # <<>>
       /\ DOMAIN <<quit>> = 1 .. 1
  BY <1>2
 <2> QED BY <1>2, <2>1 DEF IsRest
<1>4. PICK m \in 0 .. 2 : archives \in [1 .. m -> Archives] BY DEF SeqOf
<1>5. m # 0
 <2>1. SUFFICES ASSUME m = 0 PROVE FALSE OBVIOUS
 <2>2. archives \in Seq(Archives) BY <1>4
 <2>3. DOMAIN archives = {} BY <1>4, <2>1
 <2> QED BY <2>2, <2>3, EmptySeq
<1> HIDE DEF quit
<1>6. CASE m = 1
 <2> DEFINE a == ForOne(type, archives[1])
 <2>1. archives[1] \in Archives /\ DOMAIN archives = 1 .. 1 BY <1>4, <1>6
 <2>2. each = <<a>> BY <2>1
 <2> HIDE DEF each, a
 <2>3. FlattenSeq(each) = a BY <2>2, FlattenOne
 <2>4. a \o <<quit>> \in Seq(Acts) /\ IsBatch(a \o <<quit>>) BY <1>3, <2>1, MoreIsBatch DEF a
 <2> QED BY <1>1, <2>3, <2>4
<1>7. CASE m = 2
 <2> DEFINE a == ForOne(type, archives[1])
            b == ForOne(type, archives[2])
            rest == b \o <<quit>>
 <2>1. archives[1] \in Archives /\ archives[2] \in Archives /\ DOMAIN archives = 1 .. 2
  BY <1>4, <1>7
 <2>2. each = <<a, b>> BY <2>1
 <2>3. a \in Seq(Acts) /\ b \in Seq(Acts)
  <3>1. \A x \in Archives : ForOne(type, x) \in Seq(Acts)
   <4>1. ASSUME NEW x \in Archives PROVE ForOne(type, x) \in Seq(Acts)
    <5>1. Act("LOAD", x) \in Acts BY LoadIs
    <5>2. Act(type, x) \in Acts /\ Act("CLOSE", None) \in Acts
     BY ActIs DEF ActTypes, Names, Working
    <5> QED BY <5>1, <5>2 DEF ForOne
   <4> QED BY <4>1
  <3> QED BY <2>1, <3>1
 <2> HIDE DEF each, a, b
 <2>4. FlattenSeq(each) = a \o b BY <2>2, FlattenTwo
 <2>5. rest \in Seq(Acts) /\ IsBatch(rest) /\ rest[1].type = "LOAD"
  BY <1>3, <2>1, MoreIsBatch DEF b
 <2>6. (a \o b) \o <<quit>> = a \o rest BY <1>3, <2>3, ConcatAssociative
 <2> HIDE DEF rest
 <2>7. IsRest(rest) BY <2>5 DEF IsBatch, IsRest
 <2>8. a \o rest \in Seq(Acts) /\ IsBatch(a \o rest) BY <2>1, <2>5, <2>7, MoreIsBatch DEF a
 <2> QED BY <1>1, <2>4, <2>6, <2>8
<1> QED BY <1>4, <1>5, <1>6, <1>7

LEMMA BatchesAre ==
    ASSUME NEW batch \in Batches
    PROVE  batch \in Seq(Acts) /\ IsBatch(batch)
<1>1. CASE \E archive \in Archives \cup {None} : batch = AddBatch(archive)
 <2>1. PICK archive \in Names : batch = AddBatch(archive) BY <1>1 DEF Names
 <2> QED BY <2>1, AddIsBatch
<1>2. CASE \E type \in Working \ {"ADD"}, archives \in SeqOf(Archives, 2) \ {<<>>} :
             batch = ExtractBatch(type, archives)
 <2>1. PICK type \in Working, archives \in SeqOf(Archives, 2) \ {<<>>} :
              batch = ExtractBatch(type, archives)
  BY <1>2
 <2> QED BY <2>1, ExtractIsBatch
<1> QED BY <1>1, <1>2 DEF Batches

LEMMA WindowTyped ==
    ASSUME NEW batch \in Seq(Acts), NEW use_progress_dialog \in BOOLEAN
    PROVE  TypeOK(Window(batch, use_progress_dialog))
<1> DEFINE s == Window(batch, use_progress_dialog)
<1>1. DOMAIN s = Fields BY DEF Window, Fields
<1>2. s.current \in Acts BY NoActTyped DEF Window
<1>3. s.replies \in Seq({"error", "done"}) BY EmptySeq DEF Window
<1> QED BY <1>1, <1>2, <1>3 DEF Window, TypeOK, Names, Askers

LEMMA NewUserWindow == Inv(Window(<<>>, TRUE))
<1> DEFINE s == Window(<<>>, TRUE)
<1>1. TypeOK(s)
 <2> QED BY EmptySeq, WindowTyped
<1>2. /\ s.alive /\ s.shown /\ ~s.non_interactive /\ ~s.batch_mode /\ s.list = <<>>
      /\ s.todo = "nothing" /\ s.current.type = "NONE" /\ s.current.files = <<>>
      /\ ~s.use_default_dir /\ ~s.present
      /\ s.op = None /\ ~s.converting /\ s.converted = None /\ s.dialogs = {}
      /\ ~s.showing_error_dialog /\ ~s.destroy_with_error_dialog /\ ~s.installing /\ ~s.hung
      /\ s.replies = <<>> /\ ~s.touched /\ s.orphaned = "no" /\ ~s.overlap /\ s.asker = "nothing"
      /\ ~s.meanwhile
 BY DEF Window, NoAct, Act
<1> HIDE DEF s
<1> USE <1>2
<1>3. Goes(s) /\ Untold(s) /\ Users(s) /\ DropList(s) BY DEF Goes, Untold, Users, DropList
<1>4. Extraction(s) BY DEF Extraction, Agreed, Asking, Replaces
<1>5. OneDialog(s) /\ Waits(s) /\ Alone(s)
 BY DEF OneDialog, Waits, Alone, Under, LoadOnly, NoDialog, Dialogs
<1>6. OneThing(s) /\ Converts(s) /\ OnShown(s)
 BY DEF OneThing, Converts, OnShown, Pursued, NoDialog, LoadOnly
<1>7. Noted(s) /\ Supported(s) /\ Asked(s) BY DEF Noted, Supported, Asked, Under, LoadOnly
<1>8. UserOn(s) BY <1>1, <1>3, <1>4, <1>5, <1>6, <1>7 DEF UserOn, UserBase
<1>9. WillBeWhole(s) BY DEF WillBeWhole, Whole
<1> QED BY <1>8, <1>9, UserIsInv DEF s

LEMMA NewBatchWindow ==
    ASSUME NEW batch \in Batches, NEW use_progress_dialog \in BOOLEAN
    PROVE  Inv(Window(batch, use_progress_dialog))
<1> DEFINE s == Window(batch, use_progress_dialog)
<1>1. batch \in Seq(Acts) /\ IsBatch(batch) /\ batch # <<>> BY BatchesAre DEF IsBatch
<1>2. TypeOK(s) BY <1>1, WindowTyped
<1>3. /\ s.alive /\ ~s.shown /\ s.non_interactive /\ s.batch_mode /\ s.list = batch
      /\ s.batch_action = 1 /\ s.todo = "list" /\ s.current.type = "NONE" /\ s.current.files = <<>>
      /\ ~s.present /\ s.op = None /\ ~s.converting /\ s.converted = None /\ s.dialogs = {}
      /\ ~s.showing_error_dialog /\ ~s.installing /\ ~s.hung
      /\ s.replies = <<>> /\ ~s.touched /\ s.orphaned = "no" /\ ~s.overlap /\ s.asker = "nothing"
      /\ ~s.meanwhile
 BY <1>1 DEF Window, NoAct, Act
<1> HIDE DEF s
<1>4. Held(s)
 <2>1. Goes(s) /\ Untold(s) /\ Batch(s) BY <1>1, <1>3 DEF Goes, Untold, Batch
 <2>2. Extraction(s) BY <1>3 DEF Extraction, Agreed, Asking, Replaces
 <2> QED BY <1>2, <1>3, <2>1, <2>2 DEF Held
<1>5. Position(s)
 <2>1. 1 \in DOMAIN batch BY <1>1, EmptySeq
 <2>2. Doing(s).type \in {"LOAD", "OPEN"} BY <1>1, <1>3 DEF Doing, IsBatch
 <2>3. Doing(s).type \notin Working BY <2>2 DEF Working
 <2>4. \A i \in 1 .. s.batch_action - 1 : FALSE BY <1>3
 <2> QED BY <1>3, <2>1, <2>3, <2>4 DEF Position
<1>6. Stage(s) BY <1>3 DEF Stage
<1> QED BY <1>4, <1>5, <1>6, BatchIsInv DEF s

LEMMA InitInv == Init => WindowInv
BY NewUserWindow, NewBatchWindow DEF Init, WindowInv

----
(* The theorems. *)

\* What a window keeps through every operation, dialog and fault: of what it was asked,
\* of what was told, and of what goes on, as far as each of them depends on the others.
THEOREM WindowIsSound == Spec => []WindowInv
<1>1. WindowInv /\ [Next]_w => WindowInv'
 <2> SUFFICES ASSUME WindowInv, [Next]_w PROVE WindowInv' OBVIOUS
 <2>1. CASE Next BY <2>1, WindowStep
 <2>2. CASE UNCHANGED w BY <2>2 DEF WindowInv
 <2> QED BY <2>1, <2>2
<1> QED BY <1>1, InitInv, PTL DEF Spec

LEMMA SoundIsProper == WindowInv => Proper(w)
BY DEF WindowInv, Inv

\* Files are added to the archive they were meant for, and one operation at a time is
\* under way, unless files were dropped or the window used while a package was searched.
THEOREM AddsWhatWasAsked == Spec => []AddsAskedAndOneAtATimeUnless
<1> QED
 BY SoundIsProper, WindowIsSound, PTL DEF Proper, AddsAskedAndOneAtATimeUnless, Dropped, DropsFiles

\* An extraction of chosen files replaces none that the user did not agree to.
THEOREM OverwritesOnlyAllowed == Spec => []OverwritesOnlyAllowedUnlessAll
<1> QED BY SoundIsProper, WindowIsSound, PTL DEF Proper, OverwritesOnlyAllowedUnlessAll

\* A batch that is told to be done was done, each of its actions on its archive, and told
\* once; a conversion goes on with all that the first archive holds.
THEOREM DoneIsDone == Spec => []DoneMeansDone
<1> QED BY SoundIsProper, WindowIsSound, PTL DEF Proper, DoneMeansDone, IsDone

\* A batch without a window goes on or shows a dialog till it is gone, and no window is
\* used when it was freed, but for the known ways that it is.
THEOREM LivesWhileNeeded == Spec => []LivesWhileNeededUnless
<1> QED BY SoundIsProper, WindowIsSound, PTL DEF Proper, LivesWhileNeededUnless, Dropped, DropsFiles

\* What is begun again after a password or a package is what waited for it.
THEOREM ResumesWhatAsked == Spec => ResumesWhatAskedUnlessEdit
<1> DEFINE Step ==
      w.asker # "nothing" /\ w'.asker = "nothing" /\ w'.todo # "nothing" =>
        \/ (IF w'.todo = "list" THEN w.list[w'.batch_action] ELSE w'.current).type \in AskedBy(w.asker)
        \/ ~w.batch_mode /\ (w.meanwhile \/ (w.asker = "LISTING" /\ w.present)
                              \/ w.asker \in {"ADDING", "DELETING"})
<1>1. WindowInv /\ [Next]_w => [Step]_w
 <2> SUFFICES ASSUME WindowInv, Next PROVE Step OBVIOUS
 <2> QED BY WindowStep DEF Resumes
<1>2. ResumesWhatAskedUnlessEdit <=> [][Step]_w BY DEF ResumesWhatAskedUnlessEdit
<1> HIDE DEF Step
<1> QED BY <1>1, <1>2, WindowIsSound, PTL DEF Spec
====

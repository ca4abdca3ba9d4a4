---- MODULE AthenaExtensionsProofs ----
(* What the extensions of Athena claim, each on its own: first DropboxFiles and DropboxEmblems,
   for any files, names and bounds (the two tables stay each other's inverse and hold no dead
   object, and a file for which nothing is under way shows what the daemon said of it last); then
   AthenaPython, for any files of extensions, any classes in them and whatever their methods do;
   last AthenaMenus, for any files, preferences and offers of the daemon. *)
EXTENDS DropboxEmblems, AthenaPython, AthenaMenus, FiniteSetTheorems, SequenceTheorems,
        WellFoundedInduction, TLAPS


Requests == [file : Files, answered : BOOLEAN, emblems : SUBSET (Names \cup {None})]

TypeOK ==
    /\ name \in [Files -> Names \cup {None}]
    /\ obj2filename \in [Files -> Names \cup {None}]
    /\ filename2obj \in [Names -> Files \cup {None}]
    /\ weak_refs \in [Files -> Nat]
    /\ requests \in Seq(Requests)
    /\ shown \in [Files -> SUBSET (Names \cup {None})]

\* What is in a table lives, and takes itself out when it dies.
Watched == \A f \in Files : obj2filename[f] # None => f \in alive /\ weak_refs[f] > 0

Tables == TwoWay /\ Watched /\ ~touched_dead

\* A file that is not to be asked for again shows what was said of the name that is stored
\* for it, or will.
Says(emblems, f) == emblems \cap {obj2filename[f], None} # {}
Expected(f) == \E i \in DOMAIN requests :
    requests[i].file = f /\ (requests[i].answered => Says(requests[i].emblems, f))
Told ==
    \A f \in alive \ invalid :
        (f \in Files /\ obj2filename[f] # None /\ obj2filename[f] \notin touches) =>
            Says(shown[f], f) \/ Expected(f)

IInv == TypeOK /\ (~missed => Tables /\ (linked => Told))

----
(* The tables, one lemma for each way they change. *)

\* The last weak reference of a file that is known takes out both its entries.
LEMMA DieKeeps ==
    ASSUME TypeOK, Tables, NEW f \in Files, Die(f)
    PROVE  TwoWay' /\ Watched' /\ ~touched_dead'
<1>1. obj2filename[f] = None \/ (obj2filename[f] \in Names /\ weak_refs[f] > 0)
 BY DEF TypeOK, Tables, Watched
<1>2. CASE obj2filename[f] = None
 BY <1>2, ConstantsAssumption DEF Die, tables, TypeOK, Tables, TwoWay, Watched
<1>3. CASE obj2filename[f] \in Names /\ weak_refs[f] > 0
 <2>1. /\ filename2obj' = [filename2obj EXCEPT ![obj2filename[f]] = None]
       /\ obj2filename' = [obj2filename EXCEPT ![f] = None]
       /\ weak_refs' = [weak_refs EXCEPT ![f] = 0]
       /\ alive' = alive \ {f} /\ touched_dead' = touched_dead
  BY <1>3, ConstantsAssumption DEF Die
 <2>. QED BY <1>3, <2>1, ConstantsAssumption DEF TypeOK, Tables, TwoWay, Watched
<1>. QED BY <1>1, <1>2, <1>3

\* "changed" moves a file to its name, or takes it out.
LEMMA ChangedKeeps ==
    ASSUME TypeOK, Tables, NEW f \in Files, Changed(f)
    PROVE  TwoWay' /\ Watched' /\ ~touched_dead'
<1>1. obj2filename[f] \in Names /\ name[f] \in Names \cup {None} /\ touched_dead' = touched_dead
      /\ alive' = alive
 BY DEF TypeOK, Changed
<1>2. CASE name[f] = None
 BY <1>1, <1>2, ConstantsAssumption DEF Changed, Forget, Unref, TypeOK, Tables, TwoWay, Watched
<1>3. CASE name[f] # None
 <2>. DEFINE freed == [filename2obj EXCEPT ![obj2filename[f]] = None]
             f2 == freed[name[f]]
 <2>1. /\ filename2obj' = [freed EXCEPT ![name[f]] = f]
       /\ obj2filename' = [g \in Files |-> IF g = f2 THEN None
                                           ELSE IF g = f THEN name[f] ELSE obj2filename[g]]
       /\ weak_refs' = weak_refs
  BY <1>1, <1>3 DEF Changed, Move, TypeOK
 <2>2. f2 = filename2obj[name[f]] /\ f2 # f BY <1>1, <1>3 DEF Changed, TypeOK, Tables, TwoWay
 <2>3. TwoWay' BY <1>1, <1>3, <2>1, <2>2, ConstantsAssumption DEF TypeOK, Tables, TwoWay
 <2>. QED BY <1>1, <2>1, <2>3, ConstantsAssumption DEF TypeOK, Tables, Watched
<1>. QED BY <1>1, <1>2, <1>3

\* A file that is asked for is put in; an older one of its name is taken out.
LEMMA AskKeeps ==
    ASSUME TypeOK, Tables, NEW f \in Files, UpdateFileInfo(f), ~missed'
    PROVE  TwoWay' /\ Watched' /\ ~touched_dead'
<1>1. name[f] \in Names /\ f \in alive /\ alive' = alive BY DEF TypeOK, UpdateFileInfo
<1>2. CASE AlreadyThere(f) BY <1>1, <1>2 DEF AlreadyThere, tables, TypeOK, Tables, TwoWay, Watched
<1>3. CASE Add(f)
 <2>. DEFINE n == name[f]
             f2 == filename2obj[n]
 <2>1. /\ obj2filename[f] = None
       /\ touched_dead' = (touched_dead \/ f2 \notin alive \cup {None})
       /\ filename2obj' = [filename2obj EXCEPT ![n] = f]
       /\ obj2filename' = [g \in Files |->
                             IF g = f THEN n ELSE IF g = f2 THEN None ELSE obj2filename[g]]
       /\ weak_refs' = [[g \in Files |-> IF g = f2 THEN Unref(g) ELSE weak_refs[g]] EXCEPT ![f] = @ + 1]
  BY <1>3 DEF Add
 <2>2. f2 # f /\ (f2 = None \/ (f2 \in alive /\ f2 \in Files /\ obj2filename[f2] = n))
  BY <1>1, <2>1, ConstantsAssumption DEF TypeOK, Tables, TwoWay, Watched
 <2>3. ~touched_dead' BY <2>1, <2>2 DEF Tables
 <2>4. TwoWay' BY <1>1, <2>1, <2>2, ConstantsAssumption DEF TypeOK, Tables, TwoWay
 <2>5. \A g \in Files : weak_refs'[g] = IF g = f THEN weak_refs[f] + 1
                                       ELSE IF g = f2 THEN Unref(g) ELSE weak_refs[g]
  BY <2>1, <2>2
 <2>6. Watched' BY <1>1, <2>1, <2>2, <2>5 DEF TypeOK, Tables, Watched
 <2>. QED BY <2>3, <2>4, <2>6
<1>4. CASE AddRenamed(f) BY <1>4 DEF AddRenamed
<1>. QED BY <1>2, <1>3, <1>4 DEF UpdateFileInfo

\* Touching files invalidates them: those that are in a table live.
LEMMA ResetKeeps ==
    ASSUME TypeOK, Tables, NEW reset, reset \subseteq alive, ResetFiles(reset)
    PROVE  TwoWay' /\ Watched' /\ ~touched_dead' /\ invalid' = invalid \cup reset
BY DEF ResetFiles, tables, Tables, TwoWay, Watched

----
(* The types. *)

LEMMA TablesTyped ==
    ASSUME TypeOK, NEW f \in Files,
           Die(f) \/ Changed(f) \/ UpdateFileInfo(f)
    PROVE  /\ name' = name
           /\ obj2filename' \in [Files -> Names \cup {None}]
           /\ filename2obj' \in [Names -> Files \cup {None}]
           /\ weak_refs' \in [Files -> Nat]
<1>1. CASE Die(f) BY <1>1 DEF Die, tables, TypeOK
<1>2. CASE Changed(f)
 <2>1. CASE name[f] = None
  <3>1. Unref(f) \in Nat BY DEF Unref, TypeOK
  <3>2. Forget(f) /\ name' = name /\ obj2filename[f] \in Names BY <1>2, <2>1 DEF Changed, TypeOK
  <3>. QED BY <3>1, <3>2 DEF Forget, TypeOK
 <2>2. CASE name[f] # None BY <1>2, <2>2 DEF Changed, Move, TypeOK
 <2>. QED BY <2>1, <2>2
<1>3. CASE UpdateFileInfo(f)
 <2>1. CASE Add(f) BY <1>3, <2>1 DEF UpdateFileInfo, Add, Unref, TypeOK
 <2>2. CASE AddRenamed(f)
  <3>1. PICK removed \in BOOLEAN :
          filename2obj' = [n \in Names |-> CASE n = name[f] -> f
                                             [] n = obj2filename[f] /\ removed -> None
                                             [] OTHER -> filename2obj[n]]
   BY <2>2 DEF AddRenamed
  <3>2. filename2obj' \in [Names -> Files \cup {None}] BY <3>1, Zenon DEF TypeOK
  <3>. QED BY <1>3, <2>2, <3>2 DEF UpdateFileInfo, AddRenamed, TypeOK
 <2>3. CASE AlreadyThere(f) BY <1>3, <2>3 DEF UpdateFileInfo, AlreadyThere, tables, TypeOK
 <2>. QED BY <1>3, <2>1, <2>2, <2>3 DEF UpdateFileInfo
<1>. QED BY <1>1, <1>2, <1>3

\* A list of requests is a function; so is one that is made of it place by place.
LEMMA RequestsAreFunction ==
    ASSUME TypeOK
    PROVE  /\ Len(requests) \in Nat /\ DOMAIN requests = 1..Len(requests)
           /\ requests \in [1..Len(requests) -> Requests]
           /\ \A r \in [1..Len(requests) -> Requests] : r \in Seq(Requests)
<1>1. requests \in Seq(Requests) BY DEF TypeOK
<1>. HIDE DEF Requests
<1>. QED BY <1>1, LenProperties, SeqDef

LEMMA StepTyped == TypeOK /\ [EmblemNext]_emblem_vars => TypeOK'
<1>. SUFFICES ASSUME TypeOK, [EmblemNext]_emblem_vars PROVE TypeOK' OBVIOUS
<1>. USE DEF asking
<1>1. CASE FileManager
 <2>1. PICK f \in Files : Die(f) \/ Changed(f) \/ \E n \in Names \cup {None} : Rename(f, n)
  BY <1>1 DEF FileManager
 <2>2. CASE Die(f) \/ Changed(f) BY <1>1, <2>2, TablesTyped DEF FileManager, TypeOK
 <2>3. CASE \E n \in Names \cup {None} : Rename(f, n)
  BY <1>1, <2>3 DEF FileManager, Rename, tables, TypeOK
 <2>. QED BY <2>1, <2>2, <2>3
<1>2. CASE NewFile BY <1>2 DEF NewFile, Create, tables, TypeOK
<1>3. CASE Answer
 <2>1. PICK i \in DOMAIN requests :
         requests' = [requests EXCEPT ![i].answered = TRUE, ![i].emblems = {Emblem(requests[i].file)}]
  BY <1>3 DEF Answer
 <2>2. requests[i] \in Requests BY RequestsAreFunction
 <2>3. Emblem(requests[i].file) \in Names \cup {None} BY <2>2 DEF Emblem, TypeOK, Requests
 <2>4. requests' = [requests EXCEPT ![i] = [requests[i] EXCEPT !.answered = TRUE,
                                                !.emblems = {Emblem(requests[i].file)}]]
  BY <2>1
 <2>5. [requests[i] EXCEPT !.answered = TRUE, !.emblems = {Emblem(requests[i].file)}] \in Requests
  BY <2>2, <2>3 DEF Requests
 <2>6. requests' \in Seq(Requests) BY <2>4, <2>5, RequestsAreFunction
 <2>. QED BY <1>3, <2>6 DEF Answer, vars, tables, TypeOK
<1>4. CASE FinishFileInfoCommand
 <2>1. Head(requests) \in Requests /\ Tail(requests) \in Seq(Requests)
  BY <1>4, HeadTailProperties DEF FinishFileInfoCommand, TypeOK
 <2>2. Head(requests).emblems \in SUBSET (Names \cup {None}) BY <2>1 DEF Requests
 <2>. QED BY <1>4, <2>1, <2>2 DEF FinishFileInfoCommand, vars, tables, TypeOK
<1>5. CASE LinkChanges
 <2>1. \A i \in DOMAIN requests : [requests[i] EXCEPT !.answered = TRUE] \in Requests
  BY RequestsAreFunction DEF Requests
 <2>2. requests' = requests \/ requests' \in [1..Len(requests) -> Requests]
  BY <1>5, <2>1, RequestsAreFunction DEF LinkChanges, Connects, Disconnects
 <2>. QED BY <1>5, <2>2, RequestsAreFunction DEF LinkChanges, ResetAllFiles, ResetFiles, tables, TypeOK
<1>6. CASE \E f \in Files : Ask(f)
 <2>1. PICK f \in Files : Ask(f) BY <1>6
 <2>2. [file |-> f, answered |-> FALSE, emblems |-> {}] \in Requests BY DEF Requests
 <2>3. requests' \in Seq(Requests) BY <2>1, <2>2, AppendProperties DEF Ask, TypeOK
 <2>. QED BY <2>1, <2>3, TablesTyped DEF Ask, TypeOK
<1>7. CASE \E n \in Names : Sync(n)
 <2>1. PICK n \in Names : Sync(n) BY <1>7
 <2>2. \A i \in DOMAIN requests : [requests[i] EXCEPT !.emblems = @ \ {n}] \in Requests
  BY RequestsAreFunction DEF Requests
 <2>3. requests' \in Seq(Requests) BY <2>1, <2>2, RequestsAreFunction DEF Sync
 <2>. QED BY <2>1, <2>3 DEF Sync, vars, tables, TypeOK
<1>8. CASE \E n \in Names : Touched(n) BY <1>8 DEF Touched, ShellTouch, ResetFiles, tables, TypeOK
<1>9. CASE UNCHANGED emblem_vars BY <1>9 DEF emblem_vars, vars, tables, TypeOK
<1>. QED BY <1>1, <1>2, <1>3, <1>4, <1>5, <1>6, <1>7, <1>8, <1>9 DEF EmblemNext, Over

----
(* What files show. *)

\* Nothing but the list of requests is read by Expected: what becomes of one of a file.
LEMMA ToldStays ==
    ASSUME Told, requests' = requests, shown' = shown, touches \subseteq touches',
           \A f \in Files : f \in alive' \ invalid' /\ obj2filename'[f] # None =>
               f \in alive \ invalid /\ obj2filename'[f] = obj2filename[f]
    PROVE  Told'
<1>. SUFFICES ASSUME NEW f \in Files, f \in alive' \ invalid',
                     obj2filename'[f] # None, obj2filename'[f] \notin touches'
              PROVE  Says(shown[f], f)' \/ Expected(f)'
 BY DEF Told, Says, Expected
<1>1. Says(shown[f], f) \/ Expected(f) BY DEF Told
<1>. QED BY <1>1 DEF Says, Expected

LEMMA AskTold ==
    ASSUME TypeOK, Tables, Told, linked, NEW f \in Files, Ask(f), ~missed'
    PROVE  Told'
<1>1. /\ requests' = Append(requests, [file |-> f, answered |-> FALSE, emblems |-> {}])
      /\ shown' = [shown EXCEPT ![f] = {}] /\ touches' = touches
      /\ alive' = alive /\ invalid' = invalid \ {f} /\ requests \in Seq(Requests)
 BY DEF Ask, UpdateFileInfo, TypeOK
<1>2. \A g \in Files : g # f => obj2filename'[g] \in {None, obj2filename[g]}
 BY DEF Ask, UpdateFileInfo, Add, AddRenamed, AlreadyThere, tables, TypeOK
<1>. SUFFICES ASSUME NEW g \in Files, g \in alive' \ invalid',
                     obj2filename'[g] # None, obj2filename'[g] \notin touches'
              PROVE  Says(shown[g], g)' \/ Expected(g)'
 BY DEF Told, Says, Expected
<1>3. CASE g = f
 <2>. DEFINE i == Len(requests) + 1
 <2>1. i \in DOMAIN requests' /\ requests'[i].file = f /\ ~requests'[i].answered BY <1>1
 <2>. QED BY <1>3, <2>1 DEF Expected
<1>4. CASE g # f
 <2>1. obj2filename'[g] = obj2filename[g] /\ shown'[g] = shown[g] BY <1>1, <1>2, <1>4 DEF TypeOK
 <2>2. Says(shown[g], g) \/ Expected(g) BY <1>1, <1>4, <2>1 DEF Told
 <2>3. \A i \in DOMAIN requests : i \in DOMAIN requests' /\ requests'[i] = requests[i] BY <1>1
 <2>. QED BY <2>1, <2>2, <2>3 DEF Says, Expected
<1>. QED BY <1>3, <1>4

LEMMA AnswerTold ==
    ASSUME TypeOK, Told, Answer
    PROVE  Told'
<1>1. PICK i \in DOMAIN requests :
        requests' = [requests EXCEPT ![i].answered = TRUE, ![i].emblems = {Emblem(requests[i].file)}]
 BY DEF Answer
<1>2. UNCHANGED <<alive, invalid, obj2filename, touches, shown>> BY DEF Answer, vars, tables
<1>. SUFFICES ASSUME NEW f \in Files, f \in alive' \ invalid',
                     obj2filename'[f] # None, obj2filename'[f] \notin touches'
              PROVE  Says(shown[f], f)' \/ Expected(f)'
 BY DEF Told, Says, Expected
<1>3. CASE Says(shown[f], f) BY <1>2, <1>3 DEF Says
<1>4. CASE Expected(f)
 <2>1. PICK j \in DOMAIN requests :
         requests[j].file = f /\ (requests[j].answered => Says(requests[j].emblems, f))
  BY <1>4 DEF Expected
 <2>2. CASE j = i
  <3>1. requests[i] \in Requests BY RequestsAreFunction
  <3>2. requests' = [requests EXCEPT ![i] = [requests[i] EXCEPT !.answered = TRUE,
                                                 !.emblems = {Emblem(requests[i].file)}]]
   BY <1>1
  <3>3. /\ i \in DOMAIN requests' /\ requests'[i].file = f
        /\ requests'[i].emblems = {Emblem(f)}
   BY <2>1, <2>2, <3>1, <3>2 DEF Requests
  <3>. QED BY <1>2, <3>3 DEF Says, Expected, Emblem
 <2>3. CASE j # i BY <1>1, <1>2, <2>1, <2>3 DEF Says, Expected
 <2>. QED BY <2>2, <2>3
<1>. QED BY <1>2, <1>3, <1>4 DEF Told

LEMMA FinishTold ==
    ASSUME TypeOK, Told, FinishFileInfoCommand
    PROVE  Told'
<1>. requests \in Seq(Requests) /\ requests # <<>> /\ Head(requests) = requests[1]
 BY DEF FinishFileInfoCommand, TypeOK
<1>1. /\ requests[1].answered
      /\ shown' = [shown EXCEPT ![requests[1].file] = @ \cup requests[1].emblems]
      /\ requests' = Tail(requests)
      /\ UNCHANGED <<alive, invalid, obj2filename, touches>>
 BY DEF FinishFileInfoCommand, vars, tables
<1>. SUFFICES ASSUME NEW f \in Files, f \in alive' \ invalid',
                     obj2filename'[f] # None, obj2filename'[f] \notin touches'
              PROVE  Says(shown[f], f)' \/ Expected(f)'
 BY DEF Told, Says, Expected
<1>2. shown[f] \subseteq shown'[f] /\ (requests[1].file = f => requests[1].emblems \subseteq shown'[f])
 BY <1>1 DEF TypeOK
<1>3. CASE Says(shown[f], f) BY <1>1, <1>2, <1>3 DEF Says
<1>4. CASE Expected(f)
 <2>1. PICK j \in DOMAIN requests :
         requests[j].file = f /\ (requests[j].answered => Says(requests[j].emblems, f))
  BY <1>4 DEF Expected
 <2>2. CASE j = 1 BY <1>1, <1>2, <2>1, <2>2 DEF Says
 <2>3. CASE j # 1
  <3>1. j - 1 \in DOMAIN requests' /\ requests'[j - 1] = requests[j] BY <1>1, <2>1, <2>3
  <3>. QED BY <1>1, <2>1, <3>1 DEF Says, Expected
 <2>. QED BY <2>2, <2>3
<1>. QED BY <1>1, <1>3, <1>4 DEF Told

LEMMA SyncTold ==
    ASSUME TypeOK, Told, linked, NEW n \in Names, Sync(n)
    PROVE  Told'
<1>1. /\ shown' = [f \in Files |-> shown[f] \ {n}]
      /\ requests' = [i \in DOMAIN requests |-> [requests[i] EXCEPT !.emblems = @ \ {n}]]
      /\ touches' = touches \cup {n}
      /\ UNCHANGED <<alive, invalid, obj2filename>>
 BY DEF Sync, vars, tables
<1>. SUFFICES ASSUME NEW f \in Files, f \in alive' \ invalid',
                     obj2filename'[f] # None, obj2filename'[f] \notin touches'
              PROVE  Says(shown[f], f)' \/ Expected(f)'
 BY DEF Told, Says, Expected
<1>2. obj2filename[f] # n /\ None # n BY <1>1, ConstantsAssumption
<1>3. CASE Says(shown[f], f) BY <1>1, <1>2, <1>3 DEF Says
<1>4. CASE Expected(f)
 <2>1. PICK j \in DOMAIN requests :
         requests[j].file = f /\ (requests[j].answered => Says(requests[j].emblems, f))
  BY <1>4 DEF Expected
 <2>. requests[j] \in Requests BY RequestsAreFunction
 <2>2. /\ j \in DOMAIN requests' /\ requests'[j].file = f
       /\ requests'[j].answered = requests[j].answered
       /\ requests'[j].emblems = requests[j].emblems \ {n}
  BY <1>1, <2>1 DEF Requests
 <2>. QED BY <1>1, <1>2, <2>1, <2>2 DEF Says, Expected
<1>. QED BY <1>1, <1>3, <1>4 DEF Told

\* A touch invalidates the file that has the name.
LEMMA TouchedTold ==
    ASSUME TypeOK, Tables, Told, NEW n \in Names, Touched(n)
    PROVE  Told'
<1>1. /\ touches' = touches \ {n} /\ requests' = requests /\ shown' = shown
      /\ invalid' = invalid \cup ({filename2obj[n]} \ {None})
      /\ UNCHANGED <<alive, obj2filename>>
 BY DEF Touched, ShellTouch, ResetFiles, tables
<1>. SUFFICES ASSUME NEW f \in Files, f \in alive' \ invalid',
                     obj2filename'[f] # None, obj2filename'[f] \notin touches'
              PROVE  Says(shown[f], f)' \/ Expected(f)'
 BY DEF Told, Says, Expected
<1>2. obj2filename[f] # n BY <1>1, ConstantsAssumption DEF Tables, TwoWay
<1>3. Says(shown[f], f) \/ Expected(f) BY <1>1, <1>2 DEF Told
<1>. QED BY <1>1, <1>3 DEF Says, Expected

----
(* The invariant. *)

LEMMA InitInv == EmblemInit => IInv
BY EmptySeq, ConstantsAssumption DEF EmblemInit, Init, IInv, TypeOK, Tables, TwoWay, Watched, Told

LEMMA StepTables ==
    ASSUME TypeOK, Tables, [EmblemNext]_emblem_vars, ~missed, ~missed'
    PROVE  Tables'
<1>. USE DEF asking, Tables
<1>1. CASE FileManager
 <2>1. PICK f \in Files : Die(f) \/ Changed(f) \/ \E n \in Names \cup {None} : Rename(f, n)
  BY <1>1 DEF FileManager
 <2>2. CASE \E n \in Names \cup {None} : Rename(f, n) BY <2>2 DEF Rename, tables, TwoWay, Watched
 <2>. QED BY <2>1, <2>2, DieKeeps, ChangedKeeps
<1>2. CASE NewFile BY <1>2 DEF NewFile, Create, tables, TwoWay, Watched
<1>3. CASE \E f \in Files : Ask(f) BY <1>3, AskKeeps DEF Ask
<1>4. CASE LinkChanges BY <1>4, ResetKeeps DEF LinkChanges, ResetAllFiles, Watched
<1>5. CASE \E n \in Names : Touched(n)
 <2>1. PICK n \in Names : Touched(n) BY <1>5
 <2>2. {filename2obj[n]} \ {None} \subseteq alive
  BY ConstantsAssumption DEF TypeOK, TwoWay, Watched
 <2>. QED BY <2>1, <2>2, ResetKeeps DEF Touched, ShellTouch
<1>6. CASE UNCHANGED vars BY <1>6 DEF vars, tables, TwoWay, Watched
<1>7. Answer \/ FinishFileInfoCommand \/ (\E n \in Names : Sync(n)) \/ Over => UNCHANGED vars
 BY DEF Answer, FinishFileInfoCommand, Sync, Over, emblem_vars
<1>. QED BY <1>1, <1>2, <1>3, <1>4, <1>5, <1>6, <1>7 DEF EmblemNext, emblem_vars

LEMMA StepTold ==
    ASSUME TypeOK, Tables, linked => Told, [EmblemNext]_emblem_vars, ~missed, ~missed', linked'
    PROVE  Told'
<1>. USE DEF asking
<1>1. CASE FileManager
 <2>1. PICK f \in Files : Die(f) \/ Changed(f) \/ \E n \in Names \cup {None} : Rename(f, n)
  BY <1>1 DEF FileManager
 <2>2. UNCHANGED <<linked, touches, requests, shown>> /\ Told BY <1>1 DEF FileManager
 <2>3. CASE Die(f) BY <2>2, <2>3, ToldStays DEF Die, tables, TypeOK
 <2>4. CASE Changed(f)
  <3>1. \A g \in Files : g # f => obj2filename'[g] \in {None, obj2filename[g]}
   BY <2>4 DEF Changed, Forget, Move, TypeOK
  <3>. QED BY <2>2, <2>4, <3>1, ToldStays DEF Changed
 <2>5. CASE \E n \in Names \cup {None} : Rename(f, n) BY <2>2, <2>5, ToldStays DEF Rename, tables
 <2>. QED BY <2>1, <2>3, <2>4, <2>5
<1>2. CASE NewFile
 <2>1. PICK f \in Files, n \in Names \cup {None} : Create(f, n) /\ shown' = [shown EXCEPT ![f] = {}]
                                                    /\ UNCHANGED <<linked, touches, requests>>
  BY <1>2 DEF NewFile
 <2>2. obj2filename[f] = None BY <2>1 DEF Create, Tables, Watched
 <2>3. \A g \in alive' \ invalid' : g # f => g \in alive \ invalid BY <2>1 DEF Create
 <2>. QED BY <2>1, <2>2, <2>3 DEF Create, tables, Told, Says, Expected, TypeOK
<1>3. CASE \E f \in Files : Ask(f) BY <1>3, AskTold DEF Ask
<1>4. CASE LinkChanges
 BY <1>4 DEF LinkChanges, Connects, Disconnects, ResetAllFiles, ResetFiles, tables, Told
<1>5. CASE \E n \in Names : Touched(n) BY <1>5, TouchedTold DEF Touched
<1>6. CASE \E n \in Names : Sync(n) BY <1>6, SyncTold DEF Sync
<1>7. CASE Answer BY <1>7, AnswerTold DEF Answer
<1>8. CASE FinishFileInfoCommand BY <1>8, FinishTold DEF FinishFileInfoCommand
<1>9. CASE UNCHANGED emblem_vars BY <1>9, ToldStays DEF emblem_vars, vars, tables
<1>. QED BY <1>1, <1>2, <1>3, <1>4, <1>5, <1>6, <1>7, <1>8, <1>9 DEF EmblemNext, Over

\* What was missed stays missed.
LEMMA MissedStays == missed /\ [EmblemNext]_emblem_vars => missed'
BY DEF EmblemNext, Over, emblem_vars, vars

LEMMA StepInv == IInv /\ [EmblemNext]_emblem_vars => IInv'
BY StepTyped, StepTables, StepTold, MissedStays DEF IInv

LEMMA Invariance == EmblemSpec => []IInv
BY InitInv, StepInv, PTL DEF EmblemSpec

\* The tables stay each other's inverse and no dead file object is used, for any number
\* of files, as long as no file was found renamed without its "changed" (athena-dropbox.c).
THEOREM TablesAreInverse == EmblemSpec => []TwoWayUnlessMissed
<1>1. IInv => TwoWayUnlessMissed BY DEF IInv, Tables, TwoWayUnlessMissed
<1>. QED BY <1>1, Invariance, PTL

\* A file for which nothing is under way shows what the daemon says of its name, for any
\* number of files and requests (athena_dropbox_update_file_info, handle_shell_touch).
THEOREM EmblemsAreCurrent == EmblemSpec => []EmblemsCurrentUnless
<1>1. IInv => EmblemsCurrentUnless
 <2>. SUFFICES ASSUME IInv, ~missed, linked, NEW f \in Files, Settled(f), name[f] # None
               PROVE  shown[f] \cap {name[f], None} # {}
  BY DEF EmblemsCurrentUnless
 <2>1. ~Expected(f) BY DEF Settled, RequestsOf, Expected
 <2>. QED BY <2>1 DEF IInv, Told, Settled, Says
<1>. QED BY <1>1, Invariance, PTL

----
(* AthenaPython.  Sequences of classes, one after the other. *)

LEMMA SmallestOf ==
    ASSUME NEW T \in SUBSET Nat, T # {}
    PROVE  \E x \in T : \A y \in T : ~(y < x)
<1>1. PICK x \in T : \A y \in T : ~(<<y, x>> \in OpToRel(<, Nat)) BY NatLessThanWellFounded, WFMin
<1>2. \A y \in T : y < x => <<y, x>> \in OpToRel(<, Nat) BY DEF OpToRel
<1> QED BY <1>1, <1>2

\* What a sequence holds, of what is in some sequences.
MadeOf(flat, seqs, n) ==
    /\ \A k \in 1 .. Len(flat) : \E i \in 1 .. n : \E h \in 1 .. Len(seqs[i]) : flat[k] = seqs[i][h]
    /\ \A i \in 1 .. n : \A h \in 1 .. Len(seqs[i]) : \E k \in 1 .. Len(flat) : flat[k] = seqs[i][h]

Flattens(f, seqs, n) ==
    f = [i \in 1 .. n |-> IF i = 1 THEN seqs[i] ELSE f[i - 1] \o seqs[i]]

\* There is such a function, as far as one likes.
LEMMA FlattensTo ==
    ASSUME NEW S, NEW seqs \in Seq(Seq(S))
    PROVE  \A n \in 1 .. Len(seqs) : \E f : Flattens(f, seqs, n)
<1> DEFINE Fails == {n \in 1 .. Len(seqs) : ~\E f : Flattens(f, seqs, n)}
<1>1. SUFFICES ASSUME Fails # {} PROVE FALSE OBVIOUS
<1>2. Fails \in SUBSET Nat OBVIOUS
<1>3. PICK n \in Fails : \A m \in Fails : ~(m < n) BY <1>1, <1>2, SmallestOf
<1>4. CASE n = 1
 <2> DEFINE f == [i \in 1 .. 1 |-> seqs[i]]
 <2>1. f = [i \in 1 .. 1 |-> IF i = 1 THEN seqs[i] ELSE f[i - 1] \o seqs[i]] OBVIOUS
 <2>2. Flattens(f, seqs, n) BY <1>4, <2>1 DEF Flattens
 <2> QED BY <2>2
<1>5. CASE n # 1
 <2>1. n - 1 \in 1 .. Len(seqs) /\ n - 1 < n /\ n \in Nat BY <1>5
 <2>2. n - 1 \notin Fails BY <1>3, <2>1
 <2>3. PICK g : Flattens(g, seqs, n - 1) BY <2>1, <2>2
 <2>4. g = [i \in 1 .. n - 1 |-> IF i = 1 THEN seqs[i] ELSE g[i - 1] \o seqs[i]]
  BY <2>3 DEF Flattens
 <2> DEFINE f == [i \in 1 .. n |-> IF i = n THEN g[n - 1] \o seqs[n] ELSE g[i]]
 <2>5. ASSUME NEW i \in 1 .. n
       PROVE  f[i] = IF i = 1 THEN seqs[i] ELSE f[i - 1] \o seqs[i]
  <3>1. CASE i = n
   <4>1. n - 1 \in 1 .. n /\ n - 1 # n /\ n \in 1 .. n BY <2>1
   <4>2. f[n] = g[n - 1] \o seqs[n] /\ f[n - 1] = g[n - 1] BY <4>1
   <4>3. f[n] = f[n - 1] \o seqs[n] BY <4>2
   <4> HIDE DEF f
   <4> QED BY <1>5, <3>1, <4>3
  <3>2. CASE i # n
   <4>1. i \in 1 .. n - 1 /\ (i # 1 => i - 1 \in 1 .. n - 1) BY <2>1, <3>2
   <4>2. f[i] = g[i] /\ (i # 1 => f[i - 1] = g[i - 1]) BY <2>1, <3>2, <4>1
   <4>3. g[i] = IF i = 1 THEN seqs[i] ELSE g[i - 1] \o seqs[i] BY <2>4, <4>1
   <4> QED BY <4>2, <4>3
  <3> QED BY <3>1, <3>2
 <2>6. f = [i \in 1 .. n |-> IF i = 1 THEN seqs[i] ELSE f[i - 1] \o seqs[i]] BY <2>5
 <2> HIDE DEF f
 <2>7. Flattens(f, seqs, n) BY <2>6 DEF Flattens
 <2> QED BY <2>7
<1> QED BY <1>4, <1>5

\* What each of its values is.
LEMMA FlattenedSoFar ==
    ASSUME NEW S, NEW seqs \in Seq(Seq(S)), NEW n \in 1 .. Len(seqs), NEW f, Flattens(f, seqs, n)
    PROVE  \A i \in 1 .. n : f[i] \in Seq(S) /\ MadeOf(f[i], seqs, i)
<1> DEFINE Fails == {i \in 1 .. n : ~(f[i] \in Seq(S) /\ MadeOf(f[i], seqs, i))}
<1>1. SUFFICES ASSUME Fails # {} PROVE FALSE OBVIOUS
<1>2. Fails \in SUBSET Nat OBVIOUS
<1>3. PICK i \in Fails : \A m \in Fails : ~(m < i) BY <1>1, <1>2, SmallestOf
<1>4. i \in 1 .. n /\ i \in 1 .. Len(seqs) /\ seqs[i] \in Seq(S) OBVIOUS
<1>5. f[i] = IF i = 1 THEN seqs[i] ELSE f[i - 1] \o seqs[i] BY <1>4 DEF Flattens
<1>6. CASE i = 1
 <2>1. f[i] = seqs[i] BY <1>5, <1>6
 <2>2. MadeOf(seqs[i], seqs, i) BY <1>4, <1>6 DEF MadeOf
 <2> QED BY <1>3, <1>4, <2>1, <2>2
<1>7. CASE i # 1
 <2>1. i - 1 \in 1 .. n /\ i - 1 < i /\ i - 1 \notin Fails BY <1>3, <1>4, <1>7
 <2>2. f[i - 1] \in Seq(S) /\ MadeOf(f[i - 1], seqs, i - 1) BY <2>1
 <2> DEFINE s == f[i - 1] t == seqs[i] u == s \o t
 <2> HIDE DEF s, t, u
 <2>3. /\ s \in Seq(S) /\ t \in Seq(S)
       /\ MadeOf(s, seqs, i - 1)
       /\ t = seqs[i] /\ f[i] = u
  BY <1>4, <1>5, <1>7, <2>2 DEF s, t, u
 <2>4. /\ u \in Seq(S) /\ Len(u) = Len(s) + Len(t) /\ Len(s) \in Nat /\ Len(t) \in Nat
       /\ \A k \in 1 .. Len(s) : u[k] = s[k]
       /\ \A k \in 1 .. Len(t) : u[Len(s) + k] = t[k]
  <3>1. s \in Seq(S) /\ t \in Seq(S) BY <2>3
  <3> QED BY <3>1 DEF u
 <2>5. ASSUME NEW k \in 1 .. Len(u)
       PROVE  \E m \in 1 .. i : \E h \in 1 .. Len(seqs[m]) : u[k] = seqs[m][h]
  <3>1. CASE k \in 1 .. Len(s)
   <4>1. PICK m \in 1 .. i - 1 : \E h \in 1 .. Len(seqs[m]) : s[k] = seqs[m][h]
    BY <2>3, <3>1 DEF MadeOf
   <4>2. m \in 1 .. i BY <1>4
   <4> QED BY <2>4, <3>1, <4>1, <4>2
  <3>2. CASE k \notin 1 .. Len(s)
   <4>1. k - Len(s) \in 1 .. Len(t) /\ k = Len(s) + (k - Len(s)) BY <2>4, <3>2
   <4>2. u[k] = t[k - Len(s)] BY <2>4, <4>1
   <4>3. i \in 1 .. i BY <1>4
   <4> QED BY <2>3, <4>1, <4>2, <4>3
  <3> QED BY <3>1, <3>2
 <2>6. ASSUME NEW m \in 1 .. i, NEW h \in 1 .. Len(seqs[m])
       PROVE  \E k \in 1 .. Len(u) : u[k] = seqs[m][h]
  <3>1. CASE m = i
   <4>1. h \in 1 .. Len(t) /\ Len(s) + h \in 1 .. Len(u) BY <2>3, <2>4, <3>1
   <4> QED BY <2>3, <2>4, <3>1, <4>1
  <3>2. CASE m # i
   <4>1. m \in 1 .. i - 1 BY <1>4, <3>2
   <4>2. PICK k \in 1 .. Len(s) : s[k] = seqs[m][h] BY <2>3, <4>1 DEF MadeOf
   <4>3. k \in 1 .. Len(u) BY <2>4
   <4> QED BY <2>4, <4>2, <4>3
  <3> QED BY <3>1, <3>2
 <2>7. MadeOf(f[i], seqs, i) BY <2>3, <2>5, <2>6 DEF MadeOf
 <2> QED BY <1>3, <2>3, <2>4, <2>7
<1> QED BY <1>6, <1>7

\* What one of the sequences has, and has once, all of them have once.
OnceIn(s, x) == \A h, k \in 1 .. Len(s) : s[h] = x /\ s[k] = x => h = k

Alone(seqs, n, x) ==
    /\ \A i, m \in 1 .. n : \A h \in 1 .. Len(seqs[i]), k \in 1 .. Len(seqs[m]) :
           seqs[i][h] = x /\ seqs[m][k] = x => i = m
    /\ \A i \in 1 .. n : OnceIn(seqs[i], x)

LEMMA JoinedOnce ==
    ASSUME NEW S, NEW s \in Seq(S), NEW t \in Seq(S), NEW x, OnceIn(s, x), OnceIn(t, x),
           ~(\E h \in 1 .. Len(s) : s[h] = x) \/ ~(\E h \in 1 .. Len(t) : t[h] = x)
    PROVE  OnceIn(s \o t, x)
<1> DEFINE u == s \o t
<1>1. /\ Len(u) = Len(s) + Len(t) /\ Len(s) \in Nat /\ Len(t) \in Nat
      /\ \A k \in 1 .. Len(s) : u[k] = s[k]
      /\ \A k \in 1 .. Len(t) : u[Len(s) + k] = t[k]
 OBVIOUS
<1> HIDE DEF u
<1>2. ASSUME NEW h \in 1 .. Len(u), NEW k \in 1 .. Len(u), u[h] = x, u[k] = x
      PROVE  h = k
 <2>1. CASE h \in 1 .. Len(s) /\ k \in 1 .. Len(s) BY <1>1, <1>2, <2>1 DEF OnceIn
 <2>2. CASE h \notin 1 .. Len(s) /\ k \notin 1 .. Len(s)
  <3>1. /\ h - Len(s) \in 1 .. Len(t) /\ k - Len(s) \in 1 .. Len(t)
        /\ h = Len(s) + (h - Len(s)) /\ k = Len(s) + (k - Len(s))
   BY <1>1, <2>2
  <3>2. t[h - Len(s)] = x /\ t[k - Len(s)] = x BY <1>1, <1>2, <3>1
  <3> QED BY <1>1, <3>1, <3>2 DEF OnceIn
 <2>3. CASE h \in 1 .. Len(s) /\ k \notin 1 .. Len(s)
  <3>1. k - Len(s) \in 1 .. Len(t) /\ k = Len(s) + (k - Len(s)) BY <1>1, <2>3
  <3> QED BY <1>1, <1>2, <2>3, <3>1
 <2>4. CASE h \notin 1 .. Len(s) /\ k \in 1 .. Len(s)
  <3>1. h - Len(s) \in 1 .. Len(t) /\ h = Len(s) + (h - Len(s)) BY <1>1, <2>4
  <3> QED BY <1>1, <1>2, <2>4, <3>1
 <2> QED BY <2>1, <2>2, <2>3, <2>4
<1> QED BY <1>2 DEF OnceIn, u

LEMMA OnceSoFar ==
    ASSUME NEW S, NEW seqs \in Seq(Seq(S)), NEW n \in 1 .. Len(seqs), NEW f, Flattens(f, seqs, n),
           NEW x, Alone(seqs, n, x)
    PROVE  \A i \in 1 .. n : OnceIn(f[i], x)
<1> DEFINE Fails == {i \in 1 .. n : ~OnceIn(f[i], x)}
<1>1. SUFFICES ASSUME Fails # {} PROVE FALSE OBVIOUS
<1>2. Fails \in SUBSET Nat OBVIOUS
<1>3. PICK i \in Fails : \A m \in Fails : ~(m < i) BY <1>1, <1>2, SmallestOf
<1>4. i \in 1 .. n /\ i \in 1 .. Len(seqs) /\ seqs[i] \in Seq(S) /\ OnceIn(seqs[i], x) BY DEF Alone
<1>5. f[i] = IF i = 1 THEN seqs[i] ELSE f[i - 1] \o seqs[i] BY <1>4 DEF Flattens
<1>6. i # 1 BY <1>3, <1>4, <1>5
<1>7. i - 1 \in 1 .. n /\ i - 1 < i /\ i - 1 \notin Fails BY <1>3, <1>4, <1>6
<1>8. OnceIn(f[i - 1], x) /\ f[i - 1] \in Seq(S) /\ MadeOf(f[i - 1], seqs, i - 1)
 BY <1>7, FlattenedSoFar
<1> DEFINE s == f[i - 1]
<1> HIDE DEF s
<1>9. s \in Seq(S) /\ OnceIn(s, x) /\ MadeOf(s, seqs, i - 1) /\ f[i] = s \o seqs[i]
 BY <1>5, <1>6, <1>8 DEF s
<1>10. ~(\E h \in 1 .. Len(s) : s[h] = x) \/ ~(\E h \in 1 .. Len(seqs[i]) : seqs[i][h] = x)
 <2> SUFFICES ASSUME NEW h \in 1 .. Len(s), s[h] = x, NEW k \in 1 .. Len(seqs[i]), seqs[i][k] = x
              PROVE  FALSE
  OBVIOUS
 <2>1. PICK m \in 1 .. i - 1 : \E g \in 1 .. Len(seqs[m]) : s[h] = seqs[m][g] BY <1>9 DEF MadeOf
 <2>2. PICK g \in 1 .. Len(seqs[m]) : s[h] = seqs[m][g] BY <2>1
 <2>3. m \in 1 .. n /\ m # i BY <1>4
 <2> QED BY <1>4, <2>2, <2>3 DEF Alone
<1>11. OnceIn(s \o seqs[i], x) BY <1>4, <1>9, <1>10, JoinedOnce
<1> QED BY <1>3, <1>9, <1>11

\* All that sequences hold, one after the other.
LEMMA Flattened ==
    ASSUME NEW S, NEW seqs \in Seq(Seq(S))
    PROVE  /\ FlattenSeq(seqs) \in Seq(S)
           /\ MadeOf(FlattenSeq(seqs), seqs, Len(seqs))
           /\ \A x : Alone(seqs, Len(seqs), x) => OnceIn(FlattenSeq(seqs), x)
<1>1. CASE Len(seqs) = 0
 <2>1. FlattenSeq(seqs) = seqs BY <1>1 DEF FlattenSeq
 <2>2. seqs = <<>> BY <1>1
 <2> QED BY <2>1, <2>2 DEF MadeOf, OnceIn
<1>2. CASE Len(seqs) # 0
 <2> DEFINE n == Len(seqs)
            f == CHOOSE f : f = [i \in 1 .. n |-> IF i = 1 THEN seqs[i] ELSE f[i - 1] \o seqs[i]]
 <2>1. n \in 1 .. Len(seqs) BY <1>2
 <2>2. \E g : g = [i \in 1 .. n |-> IF i = 1 THEN seqs[i] ELSE g[i - 1] \o seqs[i]]
  BY <2>1, FlattensTo DEF Flattens
 <2>3. Flattens(f, seqs, n) BY <2>2 DEF Flattens
 <2>4. FlattenSeq(seqs) = f[n] BY <1>2 DEF FlattenSeq
 <2> HIDE DEF f, n
 <2>5. n \in 1 .. n /\ n \in 1 .. Len(seqs) BY <2>1
 <2>6. f[n] \in Seq(S) /\ MadeOf(f[n], seqs, n) BY <2>3, <2>5, FlattenedSoFar
 <2>7. \A x : Alone(seqs, n, x) => OnceIn(f[n], x) BY <2>3, <2>5, OnceSoFar
 <2> QED BY <2>4, <2>6, <2>7 DEF n
<1> QED BY <1>1, <1>2

\* A set as a sequence.
LEMMA SetInOrder ==
    ASSUME NEW S, IsFiniteSet(S)
    PROVE  SetToSeq(S) \in Seq(S) /\ \A x : OnceIn(SetToSeq(S), x)
<1> DEFINE n == Cardinality(S)
<1>1. n \in Nat /\ ExistsBijection(1 .. n, S) BY FS_CardinalityType
<1>2. \E f \in [1 .. n -> S] : IsInjective(f)
 <2>1. PICK f : f \in Bijection(1 .. n, S) BY <1>1 DEF ExistsBijection
 <2> QED BY <2>1 DEF Bijection, Injection
<1>3. SetToSeq(S) \in [1 .. n -> S] /\ IsInjective(SetToSeq(S)) BY <1>2 DEF SetToSeq
<1> DEFINE q == SetToSeq(S)
<1> HIDE DEF q
<1>4. q \in [1 .. n -> S] /\ IsInjective(q) BY <1>3 DEF q
<1>5. q \in Seq(S) /\ Len(q) = n /\ DOMAIN q = 1 .. n BY <1>1, <1>4
<1> QED BY <1>4, <1>5 DEF q, OnceIn, IsInjective

LEMMA LargestOf ==
    ASSUME NEW n \in Nat, NEW T \in SUBSET (1 .. n), T # {}
    PROVE  \E x \in T : \A y \in T : y <= x
<1> DEFINE U == {k \in 0 .. n : n - k \in T}
<1>1. U \in SUBSET Nat /\ \A y \in T : y \in Nat /\ n - y \in U OBVIOUS
<1>2. PICK k \in U : \A m \in U : ~(m < k) BY <1>1, SmallestOf
<1>3. \A y \in T : ~(n - y < k) BY <1>1, <1>2
<1>4. n - k \in T /\ k \in Nat BY <1>2
<1> QED BY <1>1, <1>3, <1>4

----
(* athena_python_load_dir: what is loaded of a directory. *)

LEMMA ClassesAre ==
    ASSUME NEW S, IsFiniteSet(S), NEW dir \in Seq(SUBSET S), NEW failing
    PROVE  /\ Classes(dir, failing) \in Seq(S)
           /\ \A k \in 1 .. Len(Classes(dir, failing)) :
                  \E i \in DOMAIN dir : Classes(dir, failing)[k] \in dir[i]
           /\ \A x : (\A i, m \in DOMAIN dir : x \in dir[i] /\ x \in dir[m] => i = m) =>
                  OnceIn(Classes(dir, failing), x)
<1> DEFINE seqs == [i \in DOMAIN dir |-> IF i \in failing THEN <<>> ELSE SetToSeq(dir[i])]
<1>1. ASSUME NEW i \in DOMAIN dir
      PROVE  seqs[i] \in Seq(dir[i]) /\ \A x : OnceIn(seqs[i], x)
 <2>1. IsFiniteSet(dir[i]) BY FS_Subset
 <2>2. CASE i \in failing BY <2>2 DEF OnceIn
 <2>3. CASE i \notin failing BY <2>1, <2>3, SetInOrder
 <2> QED BY <2>2, <2>3
<1>2. ASSUME NEW i \in DOMAIN dir
      PROVE  seqs[i] \in Seq(S)
 <2>1. seqs[i] \in Seq(dir[i]) /\ dir[i] \subseteq S BY <1>1
 <2> DEFINE q == seqs[i]
 <2> HIDE DEF seqs
 <2>2. q \in Seq(dir[i]) BY <2>1
 <2> HIDE DEF q
 <2>3. q \in Seq(S) BY <2>1, <2>2
 <2> QED BY <2>3 DEF q
<1>3. DOMAIN dir = 1 .. Len(dir) /\ Len(dir) \in Nat OBVIOUS
<1>4. Len(seqs) = Len(dir) /\ DOMAIN seqs = 1 .. Len(dir) BY <1>3
<1>5. Classes(dir, failing) = FlattenSeq(seqs) BY DEF Classes
<1> DEFINE Q == Seq(S)
<1>10. seqs = [i \in 1 .. Len(dir) |-> seqs[i]] /\ \A i \in 1 .. Len(dir) : seqs[i] \in Q
 BY <1>2, <1>3
<1> HIDE DEF seqs, Q
<1>11. seqs \in Seq(Q) BY <1>3, <1>10
<1>6. seqs \in Seq(Seq(S)) BY <1>11 DEF Q
<1> DEFINE flat == FlattenSeq(seqs)
<1>7. /\ flat \in Seq(S) /\ MadeOf(flat, seqs, Len(seqs))
      /\ \A x : Alone(seqs, Len(seqs), x) => OnceIn(flat, x)
 BY <1>6, Flattened
<1> HIDE DEF flat
<1>8. ASSUME NEW k \in 1 .. Len(flat)
      PROVE  \E i \in DOMAIN dir : flat[k] \in dir[i]
 <2>1. PICK i \in 1 .. Len(seqs) : \E h \in 1 .. Len(seqs[i]) : flat[k] = seqs[i][h]
  BY <1>7 DEF MadeOf
 <2>2. i \in DOMAIN dir /\ seqs[i] \in Seq(dir[i]) BY <1>1, <1>3, <1>4
 <2> QED BY <2>1, <2>2
<1>9. ASSUME NEW x, \A i, m \in DOMAIN dir : x \in dir[i] /\ x \in dir[m] => i = m
      PROVE  OnceIn(flat, x)
 <2>1. ASSUME NEW i \in 1 .. Len(seqs), NEW m \in 1 .. Len(seqs),
              NEW h \in 1 .. Len(seqs[i]), NEW k \in 1 .. Len(seqs[m]), seqs[i][h] = x, seqs[m][k] = x
       PROVE  i = m
  <3>1. i \in DOMAIN dir /\ m \in DOMAIN dir /\ seqs[i] \in Seq(dir[i]) /\ seqs[m] \in Seq(dir[m])
   BY <1>1, <1>3, <1>4
  <3>2. x \in dir[i] /\ x \in dir[m] BY <2>1, <3>1
  <3> QED BY <1>9, <3>1, <3>2
 <2>2. \A i \in 1 .. Len(seqs) : OnceIn(seqs[i], x) BY <1>1, <1>3, <1>4
 <2>3. Alone(seqs, Len(seqs), x) BY <2>1, <2>2 DEF Alone
 <2> QED BY <1>7, <2>3
<1> QED BY <1>5, <1>7, <1>8, <1>9 DEF flat

LEMMA RegisteredAs ==
    ASSUME NEW S, NEW classes \in Seq(S)
    PROVE  /\ DOMAIN get_type(classes) = DOMAIN registered
           /\ \A n \in DOMAIN registered :
                  \/ \E i \in DOMAIN classes : get_type(classes)[n] = classes[i] /\ classes[i].name = n
                  \/ /\ get_type(classes)[n] = registered[n]
                     /\ ~\E i \in DOMAIN classes : classes[i].name = n
<1> SUFFICES ASSUME NEW n \in DOMAIN registered
             PROVE  \/ \E i \in DOMAIN classes : get_type(classes)[n] = classes[i] /\ classes[i].name = n
                    \/ /\ get_type(classes)[n] = registered[n]
                       /\ ~\E i \in DOMAIN classes : classes[i].name = n
 BY DEF get_type
<1> DEFINE named == {i \in DOMAIN classes : classes[i].name = n}
           last == CHOOSE i \in named : \A h \in named : h <= i
<1>1. get_type(classes)[n] = IF named = {} THEN registered[n] ELSE classes[last] BY DEF get_type
<1>2. CASE named # {}
 <2>1. Len(classes) \in Nat /\ named \in SUBSET (1 .. Len(classes)) OBVIOUS
 <2>2. \E i \in named : \A h \in named : h <= i BY <1>2, <2>1, LargestOf
 <2>3. last \in named BY <2>2
 <2> QED BY <1>1, <1>2, <2>3
<1>3. CASE named = {} BY <1>1, <1>3
<1> QED BY <1>2, <1>3

Both == directories[1] \in Seq(SUBSET InFiles(directories)) /\ directories[2] \in Seq(SUBSET InFiles(directories))

\* A class of which one is known is in one file.
LEMMA KnownOnce ==
    ASSUME Both, NEW class, Known(class) = 1
    PROVE  /\ \A i, m \in DOMAIN directories[1] : class \in directories[1][i] /\ class \in directories[1][m] => i = m
           /\ \A i, m \in DOMAIN directories[2] : class \in directories[2][i] /\ class \in directories[2][m] => i = m
           /\ \A i \in DOMAIN directories[1], m \in DOMAIN directories[2] :
                  ~(class \in directories[1][i] /\ class \in directories[2][m])
<1> DEFINE A == {i \in DOMAIN directories[1] : class \in directories[1][i]}
           B == {i \in DOMAIN directories[2] : class \in directories[2][i]}
<1>1. IsFiniteSet(A) /\ IsFiniteSet(B)
 <2>1. /\ DOMAIN directories[1] = 1 .. Len(directories[1]) /\ Len(directories[1]) \in Int
       /\ DOMAIN directories[2] = 1 .. Len(directories[2]) /\ Len(directories[2]) \in Int
  BY DEF Both
 <2>2. IsFiniteSet(DOMAIN directories[1]) /\ IsFiniteSet(DOMAIN directories[2])
  BY <2>1, FS_Interval
 <2>3. A \in SUBSET DOMAIN directories[1] /\ B \in SUBSET DOMAIN directories[2] OBVIOUS
 <2> QED BY <2>2, <2>3, FS_Subset
<1>2. Known(class) = Cardinality(A) + Cardinality(B) BY DEF Known
<1> HIDE DEF A, B
<1>3. Cardinality(A) \in Nat /\ Cardinality(B) \in Nat BY <1>1, FS_CardinalityType
<1>4. \/ Cardinality(A) = 1 /\ Cardinality(B) = 0
      \/ Cardinality(A) = 0 /\ Cardinality(B) = 1
 BY <1>2, <1>3
<1>5. \/ (\E x : A = {x}) /\ B = {}
      \/ A = {} /\ \E x : B = {x}
 BY <1>1, <1>4, FS_EmptySet, FS_Singleton
<1> QED BY <1>5 DEF A, B

----
(* The inductive invariant. *)

PythonTyped ==
    /\ directories \in Directories
    /\ stage \in {"global", "user", "made", "running", "over"}
    /\ interpreter \in {"none", "half", "ready", "finalized"}
    /\ DOMAIN registered = {class.name : class \in InFiles(directories)}
    /\ all_types \in Seq(DOMAIN registered)
    /\ found \subseteq InFiles(directories)
    /\ wrapped \subseteq Shown /\ pending \in BOOLEAN /\ crashed \in BOOLEAN
    /\ pages \in Seq((SUBSET Shown) \ {{}})

\* Each name that is listed has a class that was loaded; of one that is alone, there is one.
Listed ==
    /\ \A i \in DOMAIN all_types :
           registered[all_types[i]] \in found /\ registered[all_types[i]].name = all_types[i]
    /\ \A class \in found : \E i \in DOMAIN all_types : all_types[i] = class.name

Single(class) == Known(class) = 1 /\ \A other \in found : other.name = class.name => other = class

ListedOnce == \A class \in found : Single(class) => OnceIn(all_types, class.name)

\* The directories are loaded one after the other.
FromFirst ==
    /\ stage = "global" => all_types = <<>> /\ found = {}
    /\ stage = "user" => \A class \in found : \E i \in DOMAIN directories[1] : class \in directories[1][i]

Providers == [class : InFiles(directories), instance : BOOLEAN, refs : Int]

Provided ==
    IF stage \in {"running", "over"}
    THEN /\ providers \in [DOMAIN all_types -> Providers]
         /\ \A p \in DOMAIN all_types :
                /\ providers[p].class = registered[all_types[p]]
                /\ ~providers[p].instance => providers[p].class.raises
                /\ providers[p].instance => providers[p].refs = 1
    ELSE providers = <<>> /\ wrapped = {} /\ pages = <<>> /\ called = NoCall

WrappedForPages ==
    wrapped # {} => \E p \in DOMAIN providers : "get_property_pages" \in providers[p].class.methods

\* What the last call has brought.
Answered ==
    /\ called.did = "items" /\ ~called.disturbed => called.got = 2
    /\ called.method = "on_selection_changed" => called.got \in 1 .. Len(pages)
    /\ called.method = "on_selection_changed" /\ called.got = Len(pages) =>
           \E chosen : \A f \in pages[called.got] : emblem[f] = chosen

PythonInv ==
    /\ PythonTyped /\ Listed /\ ListedOnce /\ FromFirst /\ Provided /\ WrappedForPages /\ Answered
    /\ PythonSafeUnless

LEMMA BothAre ==
    ASSUME PythonTyped
    PROVE  Both /\ IsFiniteSet(InFiles(directories)) /\ \A class \in InFiles(directories) : class.raises \in BOOLEAN
  BY PythonAssumption DEF PythonTyped, Both

LEMMA PythonInvInit == PythonInit => PythonInv
<1> SUFFICES ASSUME PythonInit PROVE PythonInv OBVIOUS
<1>1. PythonTyped
 <2>1. DOMAIN registered = {class.name : class \in InFiles(directories)} BY DEF PythonInit
 <2>2. all_types \in Seq(DOMAIN registered) /\ pages \in Seq((SUBSET Shown) \ {{}})
  BY DEF PythonInit
 <2>3. /\ directories \in Directories /\ found \subseteq InFiles(directories)
       /\ stage \in {"global", "user", "made", "running", "over"}
       /\ interpreter \in {"none", "half", "ready", "finalized"}
       /\ wrapped \subseteq Shown /\ pending \in BOOLEAN /\ crashed \in BOOLEAN
  BY DEF PythonInit
 <2> QED BY <2>1, <2>2, <2>3 DEF PythonTyped
<1>2. Listed /\ ListedOnce /\ FromFirst /\ Provided /\ WrappedForPages /\ PythonSafeUnless
 BY DEF PythonInit, Listed, ListedOnce, FromFirst, Provided, WrappedForPages, PythonSafeUnless
<1>3. Answered BY DEF PythonInit, Answered, NoCall
<1> QED BY <1>1, <1>2, <1>3 DEF PythonInv

\* What a directory brings: classes that are in its files, those that are in one file once.
Brought(classes, d) ==
    /\ classes \in Seq(InFiles(directories))
    /\ \A k \in 1 .. Len(classes) : \E i \in DOMAIN directories[d] : classes[k] \in directories[d][i]
    /\ \A class : Known(class) = 1 => OnceIn(classes, class)

Loads(classes) ==
    /\ all_types' = all_types \o [i \in DOMAIN classes |-> classes[i].name]
    /\ registered' = get_type(classes)
    /\ found' = found \cup ToSet(classes)

LEMMA NothingBrought == ASSUME NEW d PROVE Brought(<<>>, d)
  BY DEF Brought, OnceIn

LEMMA ClassesBrought ==
    ASSUME PythonTyped, NEW d \in {1, 2}, NEW failing
    PROVE  Brought(Classes(directories[d], failing), d)
<1>1. Both /\ IsFiniteSet(InFiles(directories)) BY BothAre
<1>2. directories[d] \in Seq(SUBSET InFiles(directories)) BY <1>1 DEF Both
<1>3. \A class : Known(class) = 1 =>
          \A i, m \in DOMAIN directories[d] : class \in directories[d][i] /\ class \in directories[d][m] => i = m
 BY <1>1, KnownOnce
<1> DEFINE classes == Classes(directories[d], failing) dir == directories[d] S == InFiles(directories)
<1>4. /\ classes \in Seq(S)
      /\ \A k \in 1 .. Len(classes) : \E i \in DOMAIN dir : classes[k] \in dir[i]
      /\ \A x : (\A i, m \in DOMAIN dir : x \in dir[i] /\ x \in dir[m] => i = m) => OnceIn(classes, x)
 BY <1>1, <1>2, ClassesAre
<1> HIDE DEF classes
<1> QED BY <1>3, <1>4 DEF Brought, classes

\* The types stay those of the classes loaded.
LEMMA LoadsTypes ==
    ASSUME PythonTyped, Listed, ListedOnce, FromFirst, NEW d \in {1, 2},
           d = 1 <=> stage = "global", d = 2 <=> stage = "user",
           NEW classes, Brought(classes, d), Loads(classes), UNCHANGED directories
    PROVE  /\ DOMAIN registered' = DOMAIN registered
           /\ all_types' \in Seq(DOMAIN registered)
           /\ found' \subseteq InFiles(directories)
           /\ Listed' /\ ListedOnce'
           /\ d = 1 => \A class \in found' : \E i \in DOMAIN directories[1] : class \in directories[1][i]
<1> DEFINE S == InFiles(directories)
           names == [i \in DOMAIN classes |-> classes[i].name]
           N == DOMAIN registered
<1>1. classes \in Seq(S) /\ Len(classes) \in Nat /\ DOMAIN classes = 1 .. Len(classes)
 BY DEF Brought
<1>2. N = {class.name : class \in S} /\ all_types \in Seq(N) /\ found \subseteq S BY DEF PythonTyped
<1>3. \A k \in 1 .. Len(classes) : classes[k] \in S /\ classes[k].name \in N BY <1>1, <1>2
<1>4. /\ names \in Seq(N) /\ Len(names) = Len(classes)
      /\ \A k \in 1 .. Len(classes) : names[k] = classes[k].name
 BY <1>1, <1>3
<1> HIDE DEF names
<1>5. /\ all_types' = all_types \o names
      /\ found' = found \cup {classes[k] : k \in 1 .. Len(classes)}
 BY <1>1 DEF Loads, ToSet, names
<1>7. /\ DOMAIN registered' = N
      /\ \A n \in N :
             \/ \E i \in DOMAIN classes : registered'[n] = classes[i] /\ classes[i].name = n
             \/ registered'[n] = registered[n] /\ ~\E i \in DOMAIN classes : classes[i].name = n
 <2>1. registered' = get_type(classes) BY DEF Loads
 <2>2. /\ DOMAIN get_type(classes) = DOMAIN registered
       /\ \A n \in DOMAIN registered :
              \/ \E i \in DOMAIN classes : get_type(classes)[n] = classes[i] /\ classes[i].name = n
              \/ get_type(classes)[n] = registered[n] /\ ~\E i \in DOMAIN classes : classes[i].name = n
  BY <1>1, RegisteredAs
 <2> QED BY <2>1, <2>2
<1> HIDE DEF N
<1>6. /\ all_types' \in Seq(N) /\ Len(all_types') = Len(all_types) + Len(names)
      /\ Len(all_types) \in Nat /\ Len(names) \in Nat
      /\ \A k \in 1 .. Len(all_types) : all_types'[k] = all_types[k]
      /\ \A k \in 1 .. Len(names) : all_types'[Len(all_types) + k] = names[k]
 <2>1. all_types \in Seq(N) /\ names \in Seq(N) BY <1>2, <1>4
 <2> QED BY <1>5, <2>1
<1>8. found' \subseteq S BY <1>2, <1>3, <1>5
\* A name that is listed is one of before or one that was brought.
<1>9. ASSUME NEW k \in DOMAIN all_types'
      PROVE  \/ k \in DOMAIN all_types /\ all_types'[k] = all_types[k]
             \/ \E h \in 1 .. Len(classes) : k = Len(all_types) + h /\ all_types'[k] = classes[h].name
 <2>1. k \in 1 .. Len(all_types) + Len(names) BY <1>6
 <2>2. CASE k <= Len(all_types) BY <1>2, <1>6, <2>1, <2>2
 <2>3. CASE ~(k <= Len(all_types))
  <3>1. k - Len(all_types) \in 1 .. Len(names) /\ k = Len(all_types) + (k - Len(all_types))
   BY <1>6, <2>1, <2>3
  <3> QED BY <1>4, <1>6, <3>1
 <2> QED BY <2>2, <2>3
<1>10. Listed'
 <2>1. ASSUME NEW k \in DOMAIN all_types'
       PROVE  registered'[all_types'[k]] \in found' /\ registered'[all_types'[k]].name = all_types'[k]
  <3> DEFINE n == all_types'[k]
  <3>1. n \in N BY <1>6
  <3>2. CASE \E i \in DOMAIN classes : registered'[n] = classes[i] /\ classes[i].name = n
   BY <1>1, <1>5, <3>2
  <3>3. CASE registered'[n] = registered[n] /\ ~\E i \in DOMAIN classes : classes[i].name = n
   <4>1. k \in DOMAIN all_types /\ n = all_types[k] BY <1>1, <1>9, <3>3
   <4>2. registered[n] \in found /\ registered[n].name = n BY <4>1 DEF Listed
   <4> QED BY <1>5, <3>3, <4>2
  <3> QED BY <1>7, <3>1, <3>2, <3>3
 <2>2. ASSUME NEW class \in found'
       PROVE  \E k \in DOMAIN all_types' : all_types'[k] = class.name
  <3>1. CASE class \in found
   <4>1. PICK k \in DOMAIN all_types : all_types[k] = class.name BY <3>1 DEF Listed
   <4>2. k \in 1 .. Len(all_types) /\ k \in DOMAIN all_types' BY <1>2, <1>6
   <4> QED BY <1>6, <4>1, <4>2
  <3>2. CASE class \notin found
   <4>1. PICK h \in 1 .. Len(classes) : class = classes[h] BY <1>5, <3>2
   <4>2. h \in 1 .. Len(names) /\ Len(all_types) + h \in DOMAIN all_types' BY <1>4, <1>6
   <4> QED BY <1>4, <1>6, <4>1, <4>2
  <3> QED BY <3>1, <3>2
 <2> QED BY <2>1, <2>2 DEF Listed
<1>11. ASSUME d = 1, NEW class \in found'
       PROVE  \E i \in DOMAIN directories[1] : class \in directories[1][i]
 <2>1. found = {} BY <1>11 DEF FromFirst
 <2>2. PICK k \in 1 .. Len(classes) : class = classes[k] BY <1>5, <2>1
 <2> QED BY <1>11, <2>2 DEF Brought
<1>12. ASSUME NEW class \in found', Known(class) = 1,
              \A other \in found' : other.name = class.name => other = class
       PROVE  OnceIn(all_types', class.name)
 <2> DEFINE x == class.name
 <2>1. OnceIn(names, x)
  <3>1. OnceIn(classes, class) BY <1>12 DEF Brought
  <3>2. \A k \in 1 .. Len(classes) : names[k] = x => classes[k] = class BY <1>4, <1>5, <1>12
  <3> QED BY <1>4, <3>1, <3>2 DEF OnceIn
 <2>2. \A h \in 1 .. Len(all_types) : all_types[h] = x => class \in found
  <3> SUFFICES ASSUME NEW h \in 1 .. Len(all_types), all_types[h] = x PROVE class \in found
   OBVIOUS
  <3>1. registered[x] \in found /\ registered[x].name = x BY <1>2 DEF Listed
  <3> QED BY <1>5, <1>12, <3>1
 <2>3. OnceIn(all_types, x)
  <3>1. CASE class \in found
   <4>1. Single(class) BY <1>5, <1>12 DEF Single
   <4> QED BY <3>1, <4>1 DEF ListedOnce
  <3>2. CASE class \notin found BY <2>2, <3>2 DEF OnceIn
  <3> QED BY <3>1, <3>2
 <2>4. ~(\E h \in 1 .. Len(all_types) : all_types[h] = x) \/ ~(\E h \in 1 .. Len(names) : names[h] = x)
  <3> SUFFICES ASSUME NEW h \in 1 .. Len(all_types), all_types[h] = x,
                      NEW k \in 1 .. Len(names), names[k] = x
               PROVE  FALSE
   OBVIOUS
  <3>1. class \in found BY <2>2
  <3>2. d = 2 BY <3>1 DEF FromFirst
  <3>3. PICK i \in DOMAIN directories[1] : class \in directories[1][i] BY <3>1, <3>2 DEF FromFirst
  <3>4. classes[k] = class /\ k \in 1 .. Len(classes) BY <1>4, <1>5, <1>12
  <3>5. PICK m \in DOMAIN directories[2] : class \in directories[2][m] BY <3>2, <3>4 DEF Brought
  <3>6. Both BY BothAre
  <3> QED BY <1>12, <3>3, <3>5, <3>6, KnownOnce
 <2>5. OnceIn(all_types \o names, x) BY <1>2, <1>4, <2>1, <2>3, <2>4, JoinedOnce
 <2> QED BY <1>5, <2>5
<1>13. ListedOnce' BY <1>12 DEF ListedOnce, Single, Known
<1> QED BY <1>6, <1>7, <1>8, <1>10, <1>11, <1>13 DEF N

----
(* The steps. *)

Alike == UNCHANGED <<directories, providers, pending, wrapped, called, Page>>

LEMMA LoadStep ==
    ASSUME PythonInv, ~crashed, NEW d \in {1, 2}, d = 1 <=> stage = "global", d = 2 <=> stage = "user",
           stage' = IF d = 1 THEN "user" ELSE "made", Alike,
           NEW started \in BOOLEAN, NEW failing, LoadDir(directories[d], started, failing)
    PROVE  PythonInv'
<1> DEFINE dir == directories[d]
           python == IF dir = <<>> THEN interpreter ELSE InitPython(started)
           given_up == interpreter = "none" /\ python = "half"
           classes == IF given_up THEN <<>> ELSE Classes(dir, failing)
<1>1. PythonTyped /\ Listed /\ ListedOnce /\ FromFirst /\ Provided /\ WrappedForPages /\ Answered
 BY DEF PythonInv
<1>2. Brought(classes, d) BY <1>1, NothingBrought, ClassesBrought
<1>3. /\ interpreter' = python
      /\ IF python = "half" /\ classes # <<>>
         THEN crashed' = TRUE /\ UNCHANGED <<all_types, registered, found>>
         ELSE Loads(classes) /\ UNCHANGED crashed
 BY DEF LoadDir, Loads
<1>4. python \in {"none", "half", "ready", "finalized"} BY <1>1 DEF InitPython, PythonTyped
<1> HIDE DEF python, classes
<1>5. UNCHANGED directories /\ UNCHANGED <<providers, pending, wrapped, called, pages, emblem>>
 BY DEF Alike, Page
<1>6. providers = <<>> /\ wrapped = {} /\ pages = <<>> /\ called = NoCall BY <1>1 DEF Provided
<1>7. Provided' /\ WrappedForPages' BY <1>5, <1>6 DEF Provided, WrappedForPages
<1>8. Answered' BY <1>1, <1>5 DEF Answered
<1>9. ASSUME DOMAIN registered' = DOMAIN registered, all_types' \in Seq(DOMAIN registered),
             found' \subseteq InFiles(directories), crashed' \in BOOLEAN
      PROVE  PythonTyped'
 BY <1>1, <1>3, <1>4, <1>5, <1>9 DEF PythonTyped
<1>10. CASE python = "half" /\ classes # <<>>
 <2>1. UNCHANGED <<all_types, registered, found>> /\ crashed' /\ interpreter' = "half"
  BY <1>3, <1>10
 <2>2. PythonTyped'
  <3>1. all_types \in Seq(DOMAIN registered) /\ found \subseteq InFiles(directories)
   BY <1>1 DEF PythonTyped
  <3> QED BY <1>3, <1>9, <1>10, <2>1, <3>1
 <2>3. Listed' /\ ListedOnce' BY <1>1, <1>5, <2>1 DEF Listed, ListedOnce, Single, Known
 <2>4. FromFirst' BY <1>1, <1>5, <2>1 DEF FromFirst
 <2>5. PythonSafeUnless' BY <2>1 DEF PythonSafeUnless
 <2> QED BY <1>7, <1>8, <2>2, <2>3, <2>4, <2>5 DEF PythonInv
<1>11. CASE ~(python = "half" /\ classes # <<>>)
 <2>1. Loads(classes) /\ UNCHANGED crashed BY <1>3, <1>11
 <2>2. /\ DOMAIN registered' = DOMAIN registered
       /\ all_types' \in Seq(DOMAIN registered)
       /\ found' \subseteq InFiles(directories)
       /\ Listed' /\ ListedOnce'
       /\ d = 1 => \A class \in found' : \E i \in DOMAIN directories[1] : class \in directories[1][i]
  BY <1>1, <1>2, <1>5, <2>1, LoadsTypes
 <2>3. PythonTyped'
  <3>1. crashed' \in BOOLEAN BY <1>1, <2>1 DEF PythonTyped
  <3> QED BY <1>9, <2>2, <3>1
 <2>4. FromFirst' BY <1>5, <2>2 DEF FromFirst
 <2>5. PythonSafeUnless' BY <2>1 DEF PythonSafeUnless
 <2> QED BY <1>7, <1>8, <2>2, <2>3, <2>4, <2>5 DEF PythonInv
<1> QED BY <1>10, <1>11

LEMMA ModuleInitializeStep ==
    ASSUME PythonInv, ~crashed, ModuleInitialize
    PROVE  PythonInv'
<1>1. Alike BY DEF ModuleInitialize, Alike
<1>2. ASSUME NEW started \in BOOLEAN, stage = "global", stage' = "user",
             NEW failing \in SUBSET DOMAIN directories[1], LoadDir(directories[1], started, failing)
      PROVE  PythonInv'
 <2>1. 1 \in {1, 2} /\ (1 = 1 <=> stage = "global") /\ (1 = 2 <=> stage = "user") /\ stage' = IF 1 = 1 THEN "user" ELSE "made"
  BY <1>2
 <2> QED BY <1>1, <1>2, <2>1, LoadStep
<1>3. ASSUME NEW started \in BOOLEAN, stage = "user", stage' = "made",
             NEW failing \in SUBSET DOMAIN directories[2], LoadDir(directories[2], started, failing)
      PROVE  PythonInv'
 <2>1. 2 \in {1, 2} /\ (2 = 1 <=> stage = "global") /\ (2 = 2 <=> stage = "user") /\ stage' = IF 2 = 1 THEN "user" ELSE "made"
  BY <1>3
 <2> QED BY <1>1, <1>3, <2>1, LoadStep
<1> QED BY <1>2, <1>3 DEF ModuleInitialize

\* What is loaded stays so.
LEMMA LoadedStays ==
    ASSUME PythonInv, UNCHANGED <<directories, all_types, registered, found>>,
           stage' \notin {"global", "user"}
    PROVE  Listed' /\ ListedOnce' /\ FromFirst'
<1>1. Listed' /\ ListedOnce' BY DEF PythonInv, Listed, ListedOnce, Single, Known
<1>2. FromFirst' BY DEF FromFirst
<1> QED BY <1>1, <1>2

LEMMA MakeProvidersStep ==
    ASSUME PythonInv, ~crashed, MakeProviders
    PROVE  PythonInv'
<1>1. /\ stage = "made" /\ stage' = "running"
      /\ UNCHANGED <<directories, interpreter, all_types, registered, found, pending, wrapped, called,
                     pages, emblem, crashed>>
 BY DEF MakeProviders, Page
<1>2. PythonTyped /\ Listed /\ Provided /\ Answered BY DEF PythonInv
<1>3. Listed' /\ ListedOnce' /\ FromFirst' BY <1>1, LoadedStays
<1>4. PythonTyped' BY <1>1, <1>2 DEF PythonTyped
<1>5. Provided'
 <2>1. ASSUME NEW i \in DOMAIN all_types
       PROVE  registered[all_types[i]] \in InFiles(directories) /\ registered[all_types[i]].raises \in BOOLEAN
  <3>1. registered[all_types[i]] \in InFiles(directories) BY <1>2 DEF Listed, PythonTyped
  <3> QED BY <1>2, <3>1, BothAre
 <2>2. providers' = [i \in DOMAIN all_types |->
                       [class |-> registered[all_types[i]], instance |-> ~registered[all_types[i]].raises, refs |-> 1]]
  BY DEF MakeProviders
 <2> DEFINE made == [i \in DOMAIN all_types |->
                       [class |-> registered[all_types[i]], instance |-> ~registered[all_types[i]].raises, refs |-> 1]]
 <2>4. ASSUME NEW i \in DOMAIN all_types
       PROVE  /\ made[i] \in Providers
              /\ made[i].class = registered[all_types[i]]
              /\ ~made[i].instance => made[i].class.raises
              /\ made[i].refs = 1
  <3> DEFINE class == registered[all_types[i]] raises == class.raises
  <3>1. class \in InFiles(directories) /\ raises \in BOOLEAN BY <2>1
  <3>2. made[i] = [class |-> class, instance |-> ~raises, refs |-> 1] OBVIOUS
  <3> HIDE DEF made, class, raises
  <3>3. made[i] \in Providers /\ made[i].class = class /\ made[i].refs = 1
   BY <3>1, <3>2 DEF Providers
  <3>4. made[i].instance = ~raises BY <3>2
  <3> QED BY <3>1, <3>3, <3>4 DEF class, raises
 <2>3. /\ made \in [DOMAIN all_types -> Providers]
       /\ providers' = made
  BY <2>2, <2>4
 <2> HIDE DEF made
 <2> QED BY <1>1, <2>3, <2>4 DEF Provided, Providers
<1>6. WrappedForPages' /\ PythonSafeUnless'
 BY <1>1, <1>2 DEF WrappedForPages, PythonSafeUnless, Provided
<1>7. Answered' BY <1>1, <1>2 DEF Answered
<1> QED BY <1>3, <1>4, <1>5, <1>6, <1>7 DEF PythonInv

LEMMA ModuleShutdownStep ==
    ASSUME PythonInv, ~crashed, ModuleShutdown
    PROVE  PythonInv'
<1>1. /\ stage = "running" /\ stage' = "over"
      /\ interpreter' = IF interpreter = "none" THEN "none" ELSE "finalized"
      /\ crashed' = (wrapped # {} /\ interpreter # "none")
      /\ UNCHANGED <<directories, all_types, registered, found, providers, pending, wrapped, called, pages, emblem>>
 BY DEF ModuleShutdown, Page
<1>2. PythonTyped /\ Listed /\ Provided /\ Answered /\ WrappedForPages BY DEF PythonInv
<1>3. Listed' /\ ListedOnce' /\ FromFirst' BY <1>1, LoadedStays
<1>4. PythonTyped' BY <1>1, <1>2 DEF PythonTyped
<1>5. Provided' /\ WrappedForPages' BY <1>1, <1>2 DEF Provided, Providers, WrappedForPages
<1>6. PythonSafeUnless' BY <1>1, <1>2 DEF WrappedForPages, PythonSafeUnless
<1>7. Answered' BY <1>1, <1>2 DEF Answered
<1> QED BY <1>3, <1>4, <1>5, <1>6, <1>7 DEF PythonInv

\* An object that is still called lives, if its constructor did not raise.
LEMMA ProviderIs ==
    ASSUME PythonInv, stage = "running", NEW p \in DOMAIN providers
    PROVE  /\ p \in DOMAIN all_types /\ providers[p] \in Providers
           /\ providers[p].class \in found
           /\ ~providers[p].instance => providers[p].class.raises
           /\ providers[p].instance => providers[p].refs = 1
<1>1. Provided /\ Listed BY DEF PythonInv
<1>2. /\ providers \in [DOMAIN all_types -> Providers]
      /\ \A q \in DOMAIN all_types :
             /\ providers[q].class = registered[all_types[q]]
             /\ ~providers[q].instance => providers[q].class.raises
             /\ providers[q].instance => providers[q].refs = 1
 BY <1>1 DEF Provided
<1> QED BY <1>1, <1>2 DEF Listed

\* A call that leaves the objects as they are.
LEMMA CalledWell ==
    ASSUME PythonInv, stage = "running", UNCHANGED <<directories, stage, interpreter, all_types, registered, found>>,
           UNCHANGED providers, UNCHANGED crashed, ~crashed, pending' \in BOOLEAN,
           wrapped' \subseteq Shown, pages' \in Seq((SUBSET Shown) \ {{}}),
           WrappedForPages', Answered'
    PROVE  PythonInv'
<1>1. Listed' /\ ListedOnce' /\ FromFirst' BY LoadedStays
<1>2. PythonTyped' BY DEF PythonInv, PythonTyped
<1>3. Provided' BY DEF PythonInv, Provided, Providers
<1>4. PythonSafeUnless' BY DEF PythonSafeUnless
<1> QED BY <1>1, <1>2, <1>3, <1>4 DEF PythonInv

LEMMA WithoutInstanceStep ==
    ASSUME PythonInv, stage = "running", ~crashed, NEW p \in DOMAIN providers, WithoutInstance(p),
           UNCHANGED Loaded, UNCHANGED crashed
    PROVE  PythonInv'
<1>1. /\ ~providers[p].instance
      /\ providers' = [providers EXCEPT ![p].refs = @ - 1]
      /\ UNCHANGED <<pending, wrapped, called, pages, emblem>>
      /\ UNCHANGED <<directories, stage, interpreter, all_types, registered, found>>
 BY DEF WithoutInstance, Loaded
<1>2. Provided BY DEF PythonInv
<1>3. /\ providers \in [DOMAIN all_types -> Providers]
      /\ \A q \in DOMAIN all_types :
             /\ providers[q].class = registered[all_types[q]]
             /\ ~providers[q].instance => providers[q].class.raises
             /\ providers[q].instance => providers[q].refs = 1
 BY <1>2 DEF Provided
<1>4. providers[p] \in Providers /\ p \in DOMAIN all_types BY <1>3
<1> DEFINE given_up == [providers[p] EXCEPT !.refs = @ - 1]
<1>5. given_up \in Providers /\ given_up.class = providers[p].class /\ given_up.instance = providers[p].instance
 BY <1>4 DEF Providers
<1>6. providers' = [providers EXCEPT ![p] = given_up] BY <1>1
<1> HIDE DEF given_up
<1>7. /\ providers' \in [DOMAIN all_types -> Providers]
      /\ \A q \in DOMAIN all_types :
             /\ providers'[q].class = providers[q].class
             /\ providers'[q].instance = providers[q].instance
             /\ providers'[q].instance => providers'[q].refs = 1
 <2>1. providers' \in [DOMAIN all_types -> Providers] BY <1>3, <1>5, <1>6
 <2>2. ASSUME NEW q \in DOMAIN all_types
       PROVE  /\ providers'[q].class = providers[q].class
              /\ providers'[q].instance = providers[q].instance
              /\ providers'[q].instance => providers'[q].refs = 1
  <3>1. CASE q = p BY <1>1, <1>3, <1>5, <1>6, <3>1
  <3>2. CASE q # p BY <1>3, <1>6, <3>2
  <3> QED BY <3>1, <3>2
 <2> QED BY <2>1, <2>2
<1>8. Provided' BY <1>1, <1>3, <1>7 DEF Provided, Providers
<1>9. WrappedForPages' BY <1>1, <1>3, <1>7 DEF PythonInv, WrappedForPages
<1>10. Listed' /\ ListedOnce' /\ FromFirst' BY <1>1, LoadedStays
<1>11. PythonTyped' /\ Answered' BY <1>1 DEF PythonInv, PythonTyped, Answered
<1>12. PythonSafeUnless' BY DEF PythonSafeUnless
<1> QED BY <1>8, <1>9, <1>10, <1>11, <1>12 DEF PythonInv

LEMMA CallStep ==
    ASSUME PythonInv, ~crashed, NEW p \in DOMAIN providers, Call(p)
    PROVE  PythonInv'
<1>1. stage = "running" /\ UNCHANGED <<directories, stage, interpreter, all_types, registered, found>>
 BY DEF Call, Loaded
<1>2. /\ PythonTyped /\ Answered /\ WrappedForPages
      /\ wrapped \subseteq Shown /\ pending \in BOOLEAN /\ pages \in Seq((SUBSET Shown) \ {{}})
 BY DEF PythonInv, PythonTyped
\* Only the object of a class that raised may be gone.
<1>3. CASE providers[p].refs = 0
 <2>1. crashed' = TRUE /\ UNCHANGED <<providers, pending, wrapped, called, pages, emblem>>
  BY <1>3 DEF Call, Page
 <2>2. \E class \in found : class.raises BY <1>1, <1>3, ProviderIs
 <2>3. Listed' /\ ListedOnce' /\ FromFirst' BY <1>1, LoadedStays
 <2>4. PythonTyped' /\ Answered' BY <1>1, <1>2, <2>1 DEF PythonTyped, Answered
 <2>5. Provided' /\ WrappedForPages'
  BY <1>1, <2>1 DEF PythonInv, Provided, Providers, WrappedForPages
 <2>6. PythonSafeUnless' BY <1>1, <2>2 DEF PythonSafeUnless
 <2> QED BY <2>3, <2>4, <2>5, <2>6 DEF PythonInv
<1>4. CASE providers[p].refs # 0
 <2>1. UNCHANGED crashed BY <1>4 DEF Call
 <2>2. CASE WithoutInstance(p) BY <1>1, <2>1, <2>2, WithoutInstanceStep DEF Call
 <2>3. CASE CancelUpdate(p)
  <3>1. pending' = TRUE /\ UNCHANGED <<providers, wrapped, called, pages, emblem>>
   BY <2>3 DEF CancelUpdate
  <3>2. WrappedForPages' /\ Answered' BY <1>2, <3>1 DEF WrappedForPages, Answered
  <3> QED BY <1>1, <1>2, <2>1, <3>1, <3>2, CalledWell
 <2>4. ASSUME NEW method \in {"get_property_pages", "get_file_items", "update_file_info"},
              NEW of \in (SUBSET Shown) \ {{}}, NoMethod(p, method, of)
       PROVE  PythonInv'
  <3>1. UNCHANGED <<providers, pending, called, pages, emblem>> /\ wrapped' \subseteq wrapped
   BY <2>4 DEF NoMethod, Unwrap
  <3>2. WrappedForPages' /\ Answered' BY <1>2, <3>1 DEF WrappedForPages, Answered
  <3> QED BY <1>1, <1>2, <2>1, <3>1, <3>2, CalledWell
 <2>5. ASSUME NEW method \in {"get_property_pages", "get_file_items", "update_file_info"},
              NEW of \in (SUBSET Shown) \ {{}}, NEW did \in Doings, NEW disturbed \in {FALSE, pending},
              Method(p, method, of, did, disturbed)
       PROVE  PythonInv'
  <3> DEFINE does == IF disturbed THEN "raises" ELSE did
  <3>1. /\ method \in providers[p].class.methods
        /\ called' = [method |-> method, did |-> did, got |-> Got(does), disturbed |-> disturbed]
        /\ pending' = Left(does)
        /\ wrapped' = Unwrap(method, of)
        /\ UNCHANGED <<providers, emblem>>
        /\ pages' = Append(pages, of) \/ UNCHANGED pages
   BY <2>5 DEF Method
  <3>2. pending' \in BOOLEAN BY <1>2, <2>5, <3>1 DEF Left, Doings
  <3>3. wrapped' \subseteq Shown BY <1>2, <2>5, <3>1 DEF Unwrap
  <3>4. pages' \in Seq((SUBSET Shown) \ {{}}) BY <1>2, <2>5, <3>1
  <3>5. WrappedForPages'
   <4>1. CASE method = "get_property_pages" BY <3>1, <4>1 DEF WrappedForPages
   <4>2. CASE method # "get_property_pages" BY <1>2, <3>1, <4>2 DEF WrappedForPages, Unwrap
   <4> QED BY <4>1, <4>2
  <3>6. Answered'
   <4>1. called'.did = did /\ called'.disturbed = disturbed /\ called'.got = Got(does) /\ called'.method = method
    BY <3>1
   <4>2. did = "items" /\ ~disturbed => Got(does) = 2 BY DEF Got
   <4>3. method # "on_selection_changed" OBVIOUS
   <4> QED BY <4>1, <4>2, <4>3 DEF Answered
  <3> QED BY <1>1, <2>1, <3>1, <3>2, <3>3, <3>4, <3>5, <3>6, CalledWell
 <2> QED BY <1>4, <2>2, <2>3, <2>4, <2>5 DEF Call
<1> QED BY <1>3, <1>4

LEMMA SelectionStep ==
    ASSUME PythonInv, ~crashed, NEW page \in 1 .. MaxPages, NEW chosen, OnSelectionChanged(page, chosen)
    PROVE  PythonInv'
<1>1. /\ stage = "running" /\ page \in DOMAIN pages
      /\ emblem' = [f \in Shown |-> IF f \in Last(pages) THEN chosen ELSE emblem[f]]
      /\ called' = [method |-> "on_selection_changed", did |-> "emblem", got |-> page, disturbed |-> FALSE]
      /\ UNCHANGED <<directories, stage, interpreter, all_types, registered, found>>
      /\ UNCHANGED <<providers, pending, wrapped, pages, crashed>>
 BY DEF OnSelectionChanged, Loaded
<1>2. /\ WrappedForPages
      /\ wrapped \subseteq Shown /\ pending \in BOOLEAN /\ pages \in Seq((SUBSET Shown) \ {{}})
 BY DEF PythonInv, PythonTyped
<1>3. Answered'
 <2>1. called'.did = "emblem" /\ called'.method = "on_selection_changed" /\ called'.got = page
  BY <1>1
 <2>2. page \in 1 .. Len(pages') BY <1>1, <1>2
 <2>3. page = Len(pages') => \A f \in pages'[page] : emblem'[f] = chosen
  <3> SUFFICES ASSUME page = Len(pages'), NEW f \in pages'[page] PROVE emblem'[f] = chosen OBVIOUS
  <3>1. pages'[page] = Last(pages) /\ f \in Shown BY <1>1, <1>2 DEF Last
  <3> QED BY <1>1, <3>1
 <2> QED BY <2>1, <2>2, <2>3 DEF Answered
<1>4. WrappedForPages' BY <1>1, <1>2 DEF WrappedForPages
<1> QED BY <1>1, <1>2, <1>3, <1>4, CalledWell

\* Every step keeps the invariant.
LEMMA PythonInvStep == PythonInv /\ [PythonNext]_python_vars => PythonInv'
<1> SUFFICES ASSUME PythonInv, [PythonNext]_python_vars PROVE PythonInv' OBVIOUS
<1>1. CASE UNCHANGED python_vars
 <2>1. UNCHANGED <<directories, stage, interpreter, all_types, registered, found>>
       /\ UNCHANGED <<providers, pending, wrapped, called, pages, emblem, crashed>>
  BY <1>1 DEF python_vars
 <2>2. Listed' /\ ListedOnce' /\ FromFirst'
  BY <2>1 DEF PythonInv, Listed, ListedOnce, Single, Known, FromFirst
 <2>3. PythonTyped' /\ Answered' /\ WrappedForPages' /\ PythonSafeUnless'
  BY <2>1 DEF PythonInv, PythonTyped, Answered, WrappedForPages, PythonSafeUnless
 <2>4. Provided' BY <2>1 DEF PythonInv, Provided, Providers
 <2> QED BY <2>2, <2>3, <2>4 DEF PythonInv
<1>2. CASE PythonOver BY <1>1, <1>2 DEF PythonOver
<1>3. CASE ~crashed /\ ModuleInitialize BY <1>3, ModuleInitializeStep
<1>4. CASE ~crashed /\ MakeProviders BY <1>4, MakeProvidersStep
<1>5. CASE ~crashed /\ ModuleShutdown BY <1>5, ModuleShutdownStep
<1>6. ASSUME ~crashed, NEW p \in DOMAIN providers, Call(p) PROVE PythonInv' BY <1>6, CallStep
<1>7. ASSUME ~crashed, NEW page \in 1 .. MaxPages, NEW chosen \in Emblems, OnSelectionChanged(page, chosen)
      PROVE  PythonInv'
 BY <1>7, SelectionStep
<1> QED BY <1>1, <1>2, <1>3, <1>4, <1>5, <1>6, <1>7 DEF PythonNext

LEMMA PythonInvariance == PythonSpec => []PythonInv
<1> QED BY PythonInvInit, PythonInvStep, PTL DEF PythonSpec

\* Of the extensions in Python only those that the property names end the file manager: one
\* whose constructor raised, one loaded into an interpreter that is half there, or one that
\* makes pages of properties (athena-python.c, athena-python-object.c); for any files of
\* extensions, any classes in them and any answers of their methods.
THEOREM PythonIsSafe == PythonSpec => []PythonSafeUnless
<1>1. PythonInv => PythonSafeUnless BY DEF PythonInv
<1> QED BY <1>1, PythonInvariance, PTL

LEMMA InvAnswers == PythonInv => PythonAnswersUnless
<1> SUFFICES ASSUME PythonInv, stage = "running" PROVE PythonAnswersUnless
 BY DEF PythonAnswersUnless
<1>1. PythonTyped /\ Listed /\ ListedOnce /\ Provided /\ Answered BY DEF PythonInv
<1>2. /\ providers \in [DOMAIN all_types -> Providers]
      /\ \A p \in DOMAIN all_types : providers[p].class = registered[all_types[p]]
 BY <1>1 DEF Provided
<1>3. ASSUME NEW class \in found, Known(class) = 1,
             \A other \in found : other.name = class.name => other = class
      PROVE  Cardinality({p \in DOMAIN providers : providers[p].class = class}) = 1
 <2>1. OnceIn(all_types, class.name) BY <1>1, <1>3 DEF ListedOnce, Single
 <2>2. PICK i \in DOMAIN all_types : all_types[i] = class.name BY <1>1 DEF Listed
 <2>3. DOMAIN all_types = 1 .. Len(all_types) BY <1>1 DEF PythonTyped
 <2>4. ASSUME NEW p \in DOMAIN providers
       PROVE  providers[p].class = class <=> p = i
  <3>1. p \in DOMAIN all_types /\ providers[p].class = registered[all_types[p]] BY <1>2
  <3>2. registered[all_types[p]] \in found /\ registered[all_types[p]].name = all_types[p]
   BY <1>1, <3>1 DEF Listed
  <3>3. CASE p = i BY <1>3, <2>2, <3>1, <3>2, <3>3
  <3>4. CASE providers[p].class = class
   <4>1. all_types[p] = class.name BY <3>1, <3>2, <3>4
   <4> QED
    <5> DEFINE x == class.name
    <5>1. /\ p \in 1 .. Len(all_types) /\ i \in 1 .. Len(all_types)
          /\ all_types[p] = x /\ all_types[i] = x /\ OnceIn(all_types, x)
     BY <2>1, <2>2, <2>3, <3>1, <4>1
    <5> HIDE DEF x
    <5> QED BY <3>4, <5>1 DEF OnceIn
  <3> QED BY <3>3, <3>4
 <2>5. {p \in DOMAIN providers : providers[p].class = class} = {i} BY <1>2, <2>2, <2>4
 <2> QED BY <2>5, FS_Singleton
<1>4. called.did = "items" /\ ~called.disturbed => called.got = 2 BY <1>1 DEF Answered
<1>5. ASSUME called.method = "on_selection_changed", called.got = Len(pages)
      PROVE  Cardinality({emblem[f] : f \in pages[called.got]}) = 1
 <2>1. called.got \in 1 .. Len(pages) BY <1>1, <1>5 DEF Answered
 <2>2. PICK chosen : \A f \in pages[called.got] : emblem[f] = chosen BY <1>1, <1>5 DEF Answered
 <2>3. pages[called.got] # {}
  <3>1. pages \in Seq((SUBSET Shown) \ {{}}) BY <1>1 DEF PythonTyped
  <3>2. \A k \in 1 .. Len(pages) : pages[k] \in (SUBSET Shown) \ {{}} BY <3>1
  <3>3. pages[called.got] \in (SUBSET Shown) \ {{}} BY <2>1, <3>2
  <3> QED BY <3>3
 <2>4. {emblem[f] : f \in pages[called.got]} = {chosen} BY <2>2, <2>3
 <2> QED BY <2>4, FS_Singleton
<1> QED BY <1>3, <1>4, <1>5 DEF PythonAnswersUnless

\* A class that was loaded from one file only, and whose name no other has, has one object;
\* what its methods return is what the file manager gets, unless an error was left set; and an
\* emblem is chosen for the files of the page that was opened last.
THEOREM PythonAnswersRightly == PythonSpec => []PythonAnswersUnless
<1> QED BY InvAnswers, PythonInvariance, PTL

----
(* AthenaMenus.  What is understood of an offer: there is one such function, since menus are
   nested so deep only. *)

OptionOf(f, option) ==
    IF option.kind = "item" THEN <<[verb |-> option.verb, greyed |-> option.greyed]>>
    ELSE IF option.kind = "menu" THEN f[option.inner] ELSE <<>>
ParsedFrom(f, options) == FlattenSeq([i \in DOMAIN options |-> OptionOf(f, options[i])])
Parses(f, D) == f = [options \in D |-> ParsedFrom(f, options)]

Understood ==
    UNION {{[verb |-> options[i].verb, greyed |-> options[i].greyed] :
               i \in {k \in DOMAIN options : options[k].kind = "item"}} : options \in Offers}

\* How deep the menus of an offer are nested.
Deep(depth) ==
    /\ depth \in [Offers -> 0 .. MaxNested]
    /\ \A options \in Offers : \A i \in DOMAIN options :
         /\ options[i].kind \in {"item", "menu", "not understood"}
         /\ options[i].kind = "menu" => options[i].inner \in Offers /\ depth[options[i].inner] < depth[options]

Below(depth, n) == {options \in Offers : depth[options] < n}

LEMMA DepthTyped ==
    ASSUME NEW depth, Deep(depth), NEW options \in Offers
    PROVE  MaxNested \in Nat /\ depth[options] \in Nat /\ depth[options] <= MaxNested
<1>1. MaxNested \in Nat BY OffersAssumption, Zenon
<1>2. depth \in [Offers -> 0 .. MaxNested] BY Zenon DEF Deep
<1>3. depth[options] \in 0 .. MaxNested BY <1>2
<1> QED BY <1>1, <1>3

\* Only what menus in it are matters.
LEMMA ParsedAlike ==
    ASSUME NEW options \in Offers, NEW f, NEW g,
           \A i \in DOMAIN options : options[i].kind \in {"item", "menu", "not understood"},
           \A i \in DOMAIN options : options[i].kind = "menu" => f[options[i].inner] = g[options[i].inner]
    PROVE  ParsedFrom(f, options) = ParsedFrom(g, options)
<1>1. ASSUME NEW i \in DOMAIN options
      PROVE  OptionOf(f, options[i]) = OptionOf(g, options[i])
 <2>1. CASE options[i].kind = "item" BY <2>1 DEF OptionOf
 <2>2. CASE options[i].kind = "menu" BY <2>2 DEF OptionOf
 <2>3. CASE options[i].kind = "not understood" BY <2>3 DEF OptionOf
 <2> QED BY <2>1, <2>2, <2>3
<1> DEFINE s == [i \in DOMAIN options |-> OptionOf(f, options[i])]
           t == [i \in DOMAIN options |-> OptionOf(g, options[i])]
<1>2. s = t BY <1>1
<1> QED BY <1>2 DEF ParsedFrom

\* There is such a function for the offers that are not nested deeper than one likes.
LEMMA ParsesTo ==
    ASSUME NEW depth, Deep(depth)
    PROVE  \A n \in Nat : \E f : Parses(f, Below(depth, n))
<1> DEFINE Fails == {n \in Nat : ~\E f : Parses(f, Below(depth, n))}
<1>1. SUFFICES ASSUME Fails # {} PROVE FALSE OBVIOUS
<1>2. PICK n \in Fails : \A m \in Fails : ~(m < n) BY <1>1, SmallestOf
<1>3. CASE n = 0
 <2>1. Below(depth, n) = {} BY <1>3, DepthTyped DEF Below
 <2> DEFINE f == [options \in {} |-> {}]
 <2>2. f = [options \in {} |-> ParsedFrom(f, options)] OBVIOUS
 <2> HIDE DEF f
 <2>3. Parses(f, Below(depth, n)) BY <2>1, <2>2 DEF Parses
 <2> QED BY <1>2, <2>3
<1>4. CASE n # 0
 <2>1. n \in Nat /\ n - 1 \in Nat /\ n - 1 < n BY <1>2, <1>4
 <2>2. n - 1 \notin Fails BY <1>2, <2>1
 <2>3. PICK g : Parses(g, Below(depth, n - 1)) BY <2>1, <2>2
 <2> DEFINE C == Below(depth, n - 1)
            D == Below(depth, n)
            f == [options \in D |-> ParsedFrom(g, options)]
 <2>4. C \subseteq D /\ D \subseteq Offers BY <2>1, DepthTyped DEF Below
 <2>5. \A options \in C : g[options] = ParsedFrom(g, options) BY <2>3 DEF Parses
 <2>6. \A options \in C : f[options] = g[options] BY <2>4, <2>5
 <2>7. ASSUME NEW options \in D
       PROVE  ParsedFrom(g, options) = ParsedFrom(f, options)
  <3>1. options \in Offers /\ depth[options] < n /\ depth[options] \in Nat BY DepthTyped DEF Below
  <3>2. ASSUME NEW i \in DOMAIN options, options[i].kind = "menu"
        PROVE  options[i].inner \in C
   <4>1. options[i].inner \in Offers /\ depth[options[i].inner] < depth[options]
    BY <3>1, <3>2 DEF Deep
   <4>2. depth[options[i].inner] \in Nat BY <4>1, DepthTyped
   <4>3. depth[options[i].inner] < n - 1 BY <2>1, <3>1, <4>1, <4>2
   <4> QED BY <4>1, <4>3 DEF Below
  <3>3. \A i \in DOMAIN options : options[i].kind = "menu" => g[options[i].inner] = f[options[i].inner]
   BY <2>6, <3>2
  <3>4. \A i \in DOMAIN options : options[i].kind \in {"item", "menu", "not understood"}
   BY <3>1 DEF Deep
  <3> HIDE DEF f, C, D
  <3> QED BY <3>1, <3>3, <3>4, ParsedAlike
 <2>8. f = [options \in D |-> ParsedFrom(f, options)]
  <3> DEFINE h == [options \in D |-> ParsedFrom(f, options)]
  <3>1. \A options \in D : h[options] = f[options] BY <2>7
  <3> QED BY <3>1
 <2> HIDE DEF f
 <2>9. Parses(f, Below(depth, n)) BY <2>8 DEF Parses
 <2> QED BY <1>2, <2>9
<1> QED BY <1>3, <1>4

LEMMA ParseMenuIs == Parses(parse_menu, Offers)
<1>1. PICK depth : Deep(depth) BY OffersAssumption DEF Deep
<1>2. Below(depth, MaxNested + 1) = Offers BY <1>1, DepthTyped DEF Below
<1>3. MaxNested + 1 \in Nat
 <2>1. MaxNested \in Nat BY OffersAssumption, Zenon
 <2> QED BY <2>1
<1>4. \E f : Parses(f, Offers) BY <1>1, <1>2, <1>3, ParsesTo
<1>5. parse_menu = CHOOSE f : Parses(f, Offers) BY DEF parse_menu, Parses, ParsedFrom, OptionOf
<1> QED BY <1>4, <1>5

\* What is understood of an offer is a sequence of items.
LEMMA ParseMenuTyped == \A options \in Offers : parse_menu[options] \in Seq(Understood)
<1>1. PICK depth : Deep(depth) BY OffersAssumption DEF Deep
<1> DEFINE Fails == {options \in Offers : parse_menu[options] \notin Seq(Understood)}
           Depths == {depth[options] : options \in Fails}
<1>2. SUFFICES ASSUME Fails # {} PROVE FALSE OBVIOUS
<1>3. Depths \in SUBSET Nat /\ Depths # {} BY <1>1, <1>2, DepthTyped
<1>4. PICK d \in Depths : \A e \in Depths : ~(e < d) BY <1>3, SmallestOf
<1>5. PICK options \in Fails : depth[options] = d BY <1>4
<1>6. options \in Offers /\ \A inner \in Offers : depth[inner] < depth[options] => parse_menu[inner] \in Seq(Understood)
 BY <1>4, <1>5
<1> DEFINE seqs == [i \in DOMAIN options |-> OptionOf(parse_menu, options[i])]
<1>7. ASSUME NEW i \in DOMAIN options
      PROVE  OptionOf(parse_menu, options[i]) \in Seq(Understood)
 <2>1. /\ options[i].kind \in {"item", "menu", "not understood"}
       /\ options[i].kind = "menu" => options[i].inner \in Offers /\ depth[options[i].inner] < depth[options]
  BY <1>1, <1>6 DEF Deep
 <2>2. CASE options[i].kind = "item"
  <3> DEFINE r == [verb |-> options[i].verb, greyed |-> options[i].greyed]
  <3>1. r \in Understood BY <1>6, <2>2 DEF Understood
  <3>2. OptionOf(parse_menu, options[i]) = <<r>> BY <2>2 DEF OptionOf
  <3> HIDE DEF r
  <3>3. <<r>> \in Seq(Understood) BY <3>1
  <3> QED BY <3>2, <3>3
 <2>3. CASE options[i].kind = "menu"
  <3>1. options[i].inner \in Offers /\ depth[options[i].inner] < depth[options] BY <2>1, <2>3
  <3>2. parse_menu[options[i].inner] \in Seq(Understood) BY <1>6, <3>1
  <3>3. OptionOf(parse_menu, options[i]) = parse_menu[options[i].inner] BY <2>3 DEF OptionOf
  <3> QED BY <3>2, <3>3
 <2>4. CASE options[i].kind = "not understood"
  <3>1. OptionOf(parse_menu, options[i]) = <<>> BY <2>4 DEF OptionOf
  <3> QED BY <3>1
 <2> QED BY <2>1, <2>2, <2>3, <2>4
<1>8. options \in Seq(ToSet(options)) BY <1>6, OffersAssumption
<1>9. seqs \in Seq(Seq(Understood))
 <2>1. DOMAIN options = 1 .. Len(options) /\ Len(options) \in Nat BY <1>8
 <2>2. seqs \in [1 .. Len(options) -> Seq(Understood)] BY <1>7, <2>1
 <2> HIDE DEF seqs
 <2> QED BY <2>1, <2>2
<1>10. parse_menu[options] = FlattenSeq(seqs) BY <1>6, ParseMenuIs DEF Parses, ParsedFrom
<1> HIDE DEF seqs
<1>11. parse_menu[options] \in Seq(Understood) BY <1>9, <1>10, Flattened
<1> QED BY <1>5, <1>11

----
(* What is in a menu. *)

Selections == {<<1>>, <<1, 2>>}
Acts == {"shell", "mc", "open_as_root", "extract_here", "extract_to", "add"} \cup {u.verb : u \in Understood}
Greyed == {FALSE} \cup {u.greyed : u \in Understood}
MenuItem ==
    [ext : {"terminal", "gksu", "fileroller", "dropbox"},
     act : Acts,
     of : Selections, told : {"", "here", "local", "remote"}, remote : BOOLEAN,
     greyed : Greyed, for : Selections]
PopUps ==
    [state : {"none", "waiting", "shown", "done", "crashed"}, of : Selections \cup {<<>>},
     fuse : BOOLEAN, background : BOOLEAN, count : Nat]

\* A terminal item tells of a place that was there when the menu popped up.
WasThere(p, item) ==
    LET scheme == files[p.of[1]].scheme
    IN \/ item.act = "mc" /\ ~p.background
       \/ item.told = "remote" /\ scheme = "sftp" /\ item.remote
       \/ item.told # "remote" /\ scheme = "desktop"
       \/ /\ item.told # "remote" /\ ~(scheme = "sftp" /\ item.remote)
          /\ scheme = "file" \/ (scheme \in {"sftp", "other"} /\ p.fuse)

\* Items of some of the extensions, in the menu that popped up so.
ItemsOf(p, exts) ==
    {item \in MenuItem : /\ item.ext \in exts /\ item.of = p.of /\ item.for = p.of
                         /\ item.ext = "terminal" => WasThere(p, item)}

Distinct(items) == \A i, j \in DOMAIN items : items[i] = items[j] => i = j
Twice(p) == p.background /\ files[p.of[1]].scheme = "other"

HasFileRoller(p, items) ==
    files[p.of[1]].scheme # "trash" =>
        /\ \E i \in DOMAIN items : items[i].ext = "fileroller"
        /\ Len(p.of) = 1 /\ files[p.of[1]].mime = "derived" => \E i \in DOMAIN items : items[i].act = "add"

LEMMA NoneDistinct == Distinct(<<>>) /\ \A S : <<>> \in Seq(S)
BY DEF Distinct

LEMMA OneDistinct ==
    ASSUME NEW S, NEW x \in S
    PROVE  <<x>> \in Seq(S) /\ Distinct(<<x>>)
<1>1. <<x>> \in Seq(S) /\ DOMAIN <<x>> = {1} OBVIOUS
<1> QED BY <1>1 DEF Distinct

LEMMA JoinedDistinct ==
    ASSUME NEW S, NEW s \in Seq(S), NEW t \in Seq(S), Distinct(s), Distinct(t),
           \A i \in DOMAIN s : \A j \in DOMAIN t : s[i] # t[j]
    PROVE  s \o t \in Seq(S) /\ Distinct(s \o t)
<1> DEFINE m == Len(s) n == Len(t) u == s \o t
<1>1. /\ m \in Nat /\ n \in Nat /\ u \in Seq(S) /\ Len(u) = m + n
      /\ DOMAIN s = 1 .. m /\ DOMAIN t = 1 .. n /\ DOMAIN u = 1 .. m + n
 OBVIOUS
<1>2. \A i \in 1 .. m + n : u[i] = IF i <= m THEN s[i] ELSE t[i - m] OBVIOUS
<1> SUFFICES ASSUME NEW i \in DOMAIN u, NEW j \in DOMAIN u, u[i] = u[j]
             PROVE  i = j
 BY <1>1 DEF Distinct
<1> HIDE DEF m, n, u
<1>3. i \in 1 .. m + n /\ j \in 1 .. m + n BY <1>1
<1>4. CASE i <= m /\ j <= m BY <1>1, <1>2, <1>3, <1>4 DEF Distinct
<1>5. CASE i <= m /\ ~(j <= m)
 <2>1. i \in DOMAIN s /\ j - m \in DOMAIN t BY <1>1, <1>3, <1>5
 <2>2. u[i] = s[i] /\ u[j] = t[j - m] BY <1>2, <1>3, <1>5
 <2> QED BY <2>1, <2>2
<1>6. CASE ~(i <= m) /\ j <= m
 <2>1. j \in DOMAIN s /\ i - m \in DOMAIN t BY <1>1, <1>3, <1>6
 <2>2. u[j] = s[j] /\ u[i] = t[i - m] BY <1>2, <1>3, <1>6
 <2> QED BY <2>1, <2>2
<1>7. CASE ~(i <= m) /\ ~(j <= m)
 <2>1. j - m \in DOMAIN t /\ i - m \in DOMAIN t BY <1>1, <1>3, <1>7
 <2>2. u[j] = t[j - m] /\ u[i] = t[i - m] BY <1>2, <1>3, <1>7
 <2>3. i - m = j - m BY <2>1, <2>2 DEF Distinct
 <2> QED BY <1>1, <1>3, <2>3
<1> QED BY <1>4, <1>5, <1>6, <1>7

LEMMA Wider ==
    ASSUME NEW S, NEW T, S \subseteq T, NEW s \in Seq(S)
    PROVE  s \in Seq(T)
OBVIOUS

\* Items of different extensions.
LEMMA JoinedItems ==
    ASSUME NEW p, NEW A, NEW B, A \cap B = {},
           NEW s \in Seq(ItemsOf(p, A)), NEW t \in Seq(ItemsOf(p, B)), Distinct(s), Distinct(t)
    PROVE  s \o t \in Seq(ItemsOf(p, A \cup B)) /\ Distinct(s \o t)
<1>1. ItemsOf(p, A) \subseteq ItemsOf(p, A \cup B) /\ ItemsOf(p, B) \subseteq ItemsOf(p, A \cup B)
 BY DEF ItemsOf
<1>2. s \in Seq(ItemsOf(p, A \cup B)) /\ t \in Seq(ItemsOf(p, A \cup B)) BY <1>1, Wider
<1>3. ASSUME NEW i \in DOMAIN s, NEW j \in DOMAIN t
      PROVE  s[i] # t[j]
 <2>1. s[i] \in ItemsOf(p, A) /\ t[j] \in ItemsOf(p, B) OBVIOUS
 <2> QED BY <2>1 DEF ItemsOf
<1> QED BY <1>2, <1>3, JoinedDistinct

\* Two items that differ in what an extension does, or where.
LEMMA JoinedUnlike ==
    ASSUME NEW p, NEW A, NEW s \in Seq(ItemsOf(p, A)), NEW t \in Seq(ItemsOf(p, A)), Distinct(s), Distinct(t),
           \A i \in DOMAIN s : \A j \in DOMAIN t : s[i] # t[j]
    PROVE  s \o t \in Seq(ItemsOf(p, A)) /\ Distinct(s \o t)
BY JoinedDistinct

----
LEMMA TerminalItemIs ==
    ASSUME NEW i, NEW program \in {"shell", "mc"}, NEW remote \in BOOLEAN
    PROVE  LET item == TerminalItem(i, program, remote)
           IN /\ item = [ext |-> "terminal", act |-> program, of |-> <<i>>, told |-> item.told,
                         remote |-> remote, greyed |-> FALSE, for |-> <<i>>]
              /\ item.told \in {"here", "local", "remote"}
              /\ item.told = "remote" <=> program = "shell" /\ files[i].scheme = "sftp" /\ remote
<1> DEFINE place == IF program = "mc" \/ files[i].scheme # "sftp" THEN "here"
                    ELSE IF remote THEN "remote" ELSE "local"
<1>1. TerminalItem(i, program, remote) =
        [ext |-> "terminal", act |-> program, of |-> <<i>>, told |-> place, remote |-> remote,
         greyed |-> FALSE, for |-> <<i>>]
 <2>1. TerminalItem(i, program, remote) = [Item("terminal", program, <<i>>) EXCEPT !.told = place, !.remote = remote]
  BY DEF TerminalItem, get_terminal_file_info
 <2> HIDE DEF place
 <2> QED BY <2>1 DEF Item
<1>2. /\ place \in {"here", "local", "remote"}
      /\ place = "remote" <=> program = "shell" /\ files[i].scheme = "sftp" /\ remote
 OBVIOUS
<1> HIDE DEF place
<1> QED BY <1>1, <1>2

LEMMA TerminalItemsAre ==
    ASSUME NEW p, NEW selected \in Selections, p.of = selected, ~p.background, p.fuse = fuse
    PROVE  TerminalItems(selected) \in Seq(ItemsOf(p, {"terminal"})) /\ Distinct(TerminalItems(selected))
<1> DEFINE i == selected[1]
           scheme == files[i].scheme
           local == uri_has_local_path(i)
           S == ItemsOf(p, {"terminal"})
           sftp == scheme = "sftp"
           first == IF sftp \/ local THEN <<TerminalItem(i, "shell", sftp)>> ELSE <<>>
           second == IF sftp /\ local THEN <<TerminalItem(i, "shell", FALSE)>> ELSE <<>>
           third == IF "mc" \in prefs /\ local THEN <<TerminalItem(i, "mc", TRUE)>> ELSE <<>>
<1>1. CASE TerminalItems(selected) = <<>> BY <1>1, NoneDistinct
<1>2. CASE TerminalItems(selected) # <<>>
 <2>1. Len(selected) = 1 /\ TerminalItems(selected) = first \o second \o third
  BY <1>2 DEF TerminalItems, get_terminal_file_info
 <2>2. selected = <<1>> /\ i = 1 /\ <<i>> = selected BY <2>1 DEF Selections
 <2>3. p.of[1] = i BY <2>2
 <2>4. local <=> scheme = "file" \/ (scheme \in {"sftp", "other"} /\ fuse)
  BY DEF uri_has_local_path
 <2>5. ASSUME NEW program \in {"shell", "mc"}, NEW remote \in BOOLEAN,
              program = "mc" \/ (sftp /\ remote) \/ (local /\ ~remote)
       PROVE  TerminalItem(i, program, remote) \in S
  <3> DEFINE item == TerminalItem(i, program, remote)
  <3>1. /\ item = [ext |-> "terminal", act |-> program, of |-> <<i>>, told |-> item.told,
                       remote |-> remote, greyed |-> FALSE, for |-> <<i>>]
        /\ item.told \in {"here", "local", "remote"}
        /\ item.told = "remote" <=> program = "shell" /\ scheme = "sftp" /\ remote
   BY TerminalItemIs
  <3> HIDE DEF item
  <3>2. /\ item.ext = "terminal" /\ item.act = program /\ item.of = selected /\ item.for = selected
        /\ item.remote = remote
   BY <2>2, <3>1
  <3>3. item \in MenuItem
   <4>1. program \in Acts /\ FALSE \in Greyed BY DEF Acts, Greyed
   <4> DEFINE told == item.told
   <4>2. told \in {"", "here", "local", "remote"} BY <3>1
   <4>3. item = [ext |-> "terminal", act |-> program, of |-> selected, told |-> told,
                 remote |-> remote, greyed |-> FALSE, for |-> selected]
    BY <2>2, <3>1
   <4> HIDE DEF told
   <4> QED BY <4>1, <4>2, <4>3 DEF MenuItem
  <3>4. WasThere(p, item)
   <4> HIDE DEF local, i
   <4>1. CASE program = "mc" BY <3>2, <4>1 DEF WasThere
   <4>2. CASE program = "shell" /\ sftp /\ remote BY <2>3, <3>1, <3>2, <4>2 DEF WasThere
   <4>3. CASE program = "shell" /\ local /\ ~remote BY <2>3, <2>4, <3>1, <3>2, <4>3 DEF WasThere
   <4> QED BY <2>5, <4>1, <4>2, <4>3
  <3> QED BY <3>2, <3>3, <3>4 DEF ItemsOf, item
 <2>6. first \in Seq(S) /\ Distinct(first)
  <3>1. CASE sftp \/ local
   <4>1. TerminalItem(i, "shell", sftp) \in S BY <2>5, <3>1
   <4> QED BY <3>1, <4>1, OneDistinct
  <3>2. CASE ~(sftp \/ local) BY <3>2, NoneDistinct
  <3> QED BY <3>1, <3>2
 <2>7. second \in Seq(S) /\ Distinct(second)
  <3>1. CASE sftp /\ local
   <4>1. TerminalItem(i, "shell", FALSE) \in S BY <2>5, <3>1
   <4> QED BY <3>1, <4>1, OneDistinct
  <3>2. CASE ~(sftp /\ local) BY <3>2, NoneDistinct
  <3> QED BY <3>1, <3>2
 <2>8. third \in Seq(S) /\ Distinct(third)
  <3>1. CASE "mc" \in prefs /\ local
   <4>1. TerminalItem(i, "mc", TRUE) \in S BY <2>5
   <4> QED BY <3>1, <4>1, OneDistinct
  <3>2. CASE ~("mc" \in prefs /\ local) BY <3>2, NoneDistinct
  <3> QED BY <3>1, <3>2
 <2>9. /\ \A k \in DOMAIN first : first[k].act = "shell" /\ first[k].remote = sftp
       /\ \A k \in DOMAIN second : second[k].act = "shell" /\ second[k].remote = FALSE /\ sftp
       /\ \A k \in DOMAIN third : third[k].act = "mc"
  <3>1. /\ TerminalItem(i, "shell", sftp).act = "shell" /\ TerminalItem(i, "shell", sftp).remote = sftp
        /\ TerminalItem(i, "shell", FALSE).act = "shell" /\ TerminalItem(i, "shell", FALSE).remote = FALSE
        /\ TerminalItem(i, "mc", TRUE).act = "mc"
   BY DEF TerminalItem, Item
  <3> DEFINE a == TerminalItem(i, "shell", sftp)
             b == TerminalItem(i, "shell", FALSE)
             c == TerminalItem(i, "mc", TRUE)
  <3>2. first \in {<<a>>, <<>>} /\ third \in {<<c>>, <<>>} /\ second \in {<<b>>, <<>>} /\ (second # <<>> => sftp)
   OBVIOUS
  <3> HIDE DEF first, second, third, a, b, c, sftp
  <3>3. \A k \in DOMAIN first : first[k] = a BY <3>2
  <3>4. \A k \in DOMAIN second : second[k] = b /\ sftp BY <3>2
  <3>5. \A k \in DOMAIN third : third[k] = c BY <3>2
  <3> QED BY <3>1, <3>3, <3>4, <3>5 DEF a, b, c
 <2> HIDE DEF first, second, third, S, sftp
 <2>10. first \o second \in Seq(S) /\ Distinct(first \o second)
  <3>1. \A k \in DOMAIN first : \A m \in DOMAIN second : first[k] # second[m] BY <2>9
  <3> QED BY <2>6, <2>7, <3>1, JoinedDistinct
 <2>11. \A k \in DOMAIN (first \o second) : (first \o second)[k].act = "shell"
  <3> DEFINE C == {item \in S : item.act = "shell"}
  <3>1. first \in Seq(C) /\ second \in Seq(C) BY <2>6, <2>7, <2>9
  <3> HIDE DEF C
  <3>2. first \o second \in Seq(C) BY <3>1
  <3>3. \A k \in DOMAIN (first \o second) : (first \o second)[k] \in C BY <3>2
  <3> QED BY <3>3 DEF C
 <2>12. \A k \in DOMAIN (first \o second) : \A m \in DOMAIN third : (first \o second)[k] # third[m]
  BY <2>9, <2>11
 <2>13. (first \o second) \o third \in Seq(S) /\ Distinct((first \o second) \o third)
  BY <2>8, <2>10, <2>12, JoinedDistinct
 <2> QED BY <2>1, <2>13 DEF S
<1> QED BY <1>1, <1>2

\* A sequence of this item, or of none.
AtMost(s, x, S) == s \in {<<x>>, <<>>} /\ (s # <<>> => x \in S)

LEMMA OneOrNone ==
    ASSUME NEW S, NEW x, NEW s, AtMost(s, x, S)
    PROVE  s \in Seq(S) /\ Distinct(s) /\ \A k \in DOMAIN s : s[k] = x
<1>1. CASE s = <<x>>
 <2>1. x \in S BY <1>1 DEF AtMost
 <2>2. DOMAIN s = {1} /\ s[1] = x BY <1>1
 <2> QED BY <1>1, <2>1, <2>2, OneDistinct
<1>2. CASE s = <<>> BY <1>2, NoneDistinct
<1> QED BY <1>1, <1>2 DEF AtMost

\* A folder of another remote place has the same item twice.
LEMMA TerminalBackgroundIs ==
    ASSUME NEW p, p.of = << 1 >>, p.background, p.fuse = fuse
    PROVE  /\ TerminalBackground(1) \in Seq(ItemsOf(p, {"terminal"}))
           /\ Twice(p) \/ Distinct(TerminalBackground(1))
<1> DEFINE scheme == files[1].scheme
           local == uri_has_local_path(1)
           S == ItemsOf(p, {"terminal"})
           sftp == scheme = "sftp"
           opens == scheme \in {"sftp", "desktop"} \/ local
           mapped == scheme \in {"sftp", "other"} /\ local
           mc == "mc" \in prefs /\ ((scheme = "desktop" /\ HomeOrDesktop) \/ local)
           a == TerminalItem(1, "shell", sftp)
           b == TerminalItem(1, "shell", FALSE)
           c == TerminalItem(1, "mc", FALSE)
           first == IF opens THEN <<a>> ELSE <<>>
           second == IF mapped THEN <<b>> ELSE <<>>
           third == IF mc THEN <<c>> ELSE <<>>
<1>1. CASE TerminalBackground(1) = <<>> BY <1>1, NoneDistinct
<1>2. CASE TerminalBackground(1) # <<>>
 <2>1. TerminalBackground(1) = first \o second \o third
  BY <1>2 DEF TerminalBackground, get_terminal_file_info
 <2>3. p.of[1] = 1 /\ p.of = <<1>> OBVIOUS
 <2>4. local <=> scheme = "file" \/ (scheme \in {"sftp", "other"} /\ fuse)
  BY DEF uri_has_local_path
 <2>5. ASSUME NEW program \in {"shell", "mc"}, NEW remote \in BOOLEAN,
              scheme = "desktop" \/ (program = "shell" /\ sftp /\ remote) \/ (local /\ (~remote \/ ~sftp))
       PROVE  TerminalItem(1, program, remote) \in S
  <3> DEFINE item == TerminalItem(1, program, remote)
  <3>1. /\ item = [ext |-> "terminal", act |-> program, of |-> <<1>>, told |-> item.told,
                       remote |-> remote, greyed |-> FALSE, for |-> <<1>>]
        /\ item.told \in {"here", "local", "remote"}
        /\ item.told = "remote" <=> program = "shell" /\ scheme = "sftp" /\ remote
   BY TerminalItemIs
  <3> HIDE DEF item
  <3>2. /\ item.ext = "terminal" /\ item.act = program /\ item.of = <<1>> /\ item.for = <<1>>
        /\ item.remote = remote
   BY <3>1
  <3>3. item \in MenuItem
   <4>1. program \in Acts /\ FALSE \in Greyed /\ <<1>> \in Selections
    BY DEF Acts, Greyed, Selections
   <4> DEFINE told == item.told
   <4>2. told \in {"", "here", "local", "remote"} BY <3>1
   <4>3. item = [ext |-> "terminal", act |-> program, of |-> <<1>>, told |-> told,
                 remote |-> remote, greyed |-> FALSE, for |-> <<1>>]
    BY <3>1
   <4> HIDE DEF told
   <4> QED BY <4>1, <4>2, <4>3 DEF MenuItem
  <3>4. WasThere(p, item)
   <4> HIDE DEF local
   <4>1. CASE scheme = "desktop" BY <2>3, <3>1, <3>2, <4>1 DEF WasThere
   <4>2. CASE program = "shell" /\ sftp /\ remote BY <2>3, <3>1, <3>2, <4>2 DEF WasThere
   <4>3. CASE local /\ (~remote \/ ~sftp) BY <2>3, <2>4, <3>1, <3>2, <4>3 DEF WasThere
   <4> QED BY <2>5, <4>1, <4>2, <4>3
  <3> QED BY <3>2, <3>3, <3>4 DEF ItemsOf, item
 <2>6. /\ opens => a \in S
       /\ mapped => b \in S
       /\ mc => c \in S
  <3>1. CASE opens BY <2>5, <3>1
  <3>2. CASE mapped BY <2>5, <3>2
  <3>3. CASE mc BY <2>5, <3>3
  <3> QED BY <2>5, <3>1
 <2>7. /\ first \in {<<a>>, <<>>} /\ second \in {<<b>>, <<>>} /\ third \in {<<c>>, <<>>}
       /\ first # <<>> => a \in S
       /\ second # <<>> => b \in S /\ scheme \in {"sftp", "other"}
       /\ third # <<>> => c \in S
  BY <2>6
 <2>8. /\ a.act = "shell" /\ a.remote = sftp /\ b.act = "shell" /\ b.remote = FALSE /\ c.act = "mc"
  BY DEF TerminalItem, Item
 <2>9. Twice(p) \/ scheme # "other" BY <2>3 DEF Twice
 <2> HIDE DEF first, second, third, a, b, c, S, opens, mapped, mc
 <2>10. /\ first \in Seq(S) /\ Distinct(first) /\ \A k \in DOMAIN first : first[k] = a
        /\ second \in Seq(S) /\ Distinct(second) /\ \A k \in DOMAIN second : second[k] = b /\ scheme \in {"sftp", "other"}
        /\ third \in Seq(S) /\ Distinct(third) /\ \A k \in DOMAIN third : third[k] = c
  <3>1. first \in Seq(S) /\ Distinct(first) /\ \A k \in DOMAIN first : first[k] = a
   <4>1. AtMost(first, a, S) BY <2>7 DEF AtMost
   <4> QED BY <4>1, OneOrNone
  <3>2. second \in Seq(S) /\ Distinct(second) /\ \A k \in DOMAIN second : second[k] = b
   <4>1. AtMost(second, b, S) BY <2>7 DEF AtMost
   <4> QED BY <4>1, OneOrNone
  <3>3. third \in Seq(S) /\ Distinct(third) /\ \A k \in DOMAIN third : third[k] = c
   <4>1. AtMost(third, c, S) BY <2>7 DEF AtMost
   <4> QED BY <4>1, OneOrNone
  <3>4. \A k \in DOMAIN second : second # <<>> OBVIOUS
  <3> QED BY <2>7, <3>1, <3>2, <3>3, <3>4
 <2>11. first \o second \in Seq(S) /\ (first \o second) \o third \in Seq(S) BY <2>10
 <2>12. CASE scheme # "other"
  <3>1. \A k \in DOMAIN first : \A m \in DOMAIN second : first[k] # second[m]
   <4> SUFFICES ASSUME NEW k \in DOMAIN first, NEW m \in DOMAIN second
                PROVE  first[k] # second[m]
    OBVIOUS
   <4>1. first[k] = a /\ second[m] = b /\ scheme \in {"sftp", "other"} BY <2>10
   <4>2. sftp BY <2>12, <4>1
   <4>3. a.remote = TRUE /\ b.remote = FALSE BY <2>8, <4>2
   <4> QED BY <4>1, <4>3
  <3>2. first \o second \in Seq(S) /\ Distinct(first \o second) BY <2>10, <3>1, JoinedDistinct
  <3>3. \A k \in DOMAIN (first \o second) : (first \o second)[k] \in {a, b}
   <4>1. first \in Seq({a, b}) /\ second \in Seq({a, b}) BY <2>10
   <4>2. first \o second \in Seq({a, b}) BY <4>1
   <4> QED BY <4>2
  <3>4. \A k \in DOMAIN (first \o second) : \A m \in DOMAIN third : (first \o second)[k] # third[m]
   BY <2>8, <2>10, <3>3
  <3>5. Distinct((first \o second) \o third) BY <2>10, <3>2, <3>4, JoinedDistinct
  <3> QED BY <2>1, <2>11, <3>5 DEF S
 <2>13. CASE scheme = "other" BY <2>1, <2>9, <2>11, <2>13 DEF S
 <2> QED BY <2>12, <2>13
<1> QED BY <1>1, <1>2

----
\* What an item of the other extensions is.
LEMMA ItemIs ==
    ASSUME NEW p, NEW ext \in {"gksu", "fileroller"}, NEW selected \in Selections, p.of = selected,
           NEW act \in {"open_as_root", "extract_here", "extract_to", "add"}
    PROVE  Item(ext, act, selected) \in ItemsOf(p, {ext}) /\ Item(ext, act, selected).act = act
<1>1. act \in Acts /\ FALSE \in Greyed BY DEF Acts, Greyed
<1>2. Item(ext, act, selected) \in MenuItem BY <1>1 DEF Item, MenuItem
<1> QED BY <1>2 DEF Item, ItemsOf

LEMMA GksuItemsAre ==
    ASSUME NEW p, NEW selected \in Selections, p.of = selected
    PROVE  GksuItems(selected) \in Seq(ItemsOf(p, {"gksu"})) /\ Distinct(GksuItems(selected))
<1> DEFINE item == Item("gksu", "open_as_root", selected)
<1>1. item \in ItemsOf(p, {"gksu"}) BY ItemIs
<1>2. GksuItems(selected) = <<>> \/ GksuItems(selected) = <<item>> BY DEF GksuItems
<1> HIDE DEF item
<1> QED BY <1>1, <1>2, NoneDistinct, OneDistinct

LEMMA FileRollerItemsAre ==
    ASSUME NEW p, NEW selected \in Selections, p.of = selected
    PROVE  /\ FileRollerItems(selected) \in Seq(ItemsOf(p, {"fileroller"}))
           /\ Distinct(FileRollerItems(selected))
           /\ HasFileRoller(p, FileRollerItems(selected))
<1> DEFINE all_archives == \A i \in ToSet(selected) : IsArchive(i)
           can_write == \A i \in ToSet(selected) : files[i].writable
           one == Len(selected) = 1 /\ all_archives
           one_compressed == one /\ IsCompressed(selected[1])
           one_derived == one /\ files[selected[1]].mime = "derived"
           S == ItemsOf(p, {"fileroller"})
           a == Item("fileroller", "extract_here", selected)
           b == Item("fileroller", "extract_to", selected)
           c == Item("fileroller", "add", selected)
           first == IF all_archives /\ can_write THEN <<a>> ELSE IF all_archives THEN <<b>> ELSE <<>>
           second == IF ~one_compressed \/ one_derived THEN <<c>> ELSE <<>>
<1>1. CASE files[selected[1]].scheme = "trash"
 <2>1. FileRollerItems(selected) = <<>> BY <1>1 DEF FileRollerItems
 <2> QED BY <1>1, <2>1, NoneDistinct DEF HasFileRoller
<1>2. CASE files[selected[1]].scheme # "trash"
 <2>1. FileRollerItems(selected) = first \o second BY <1>2 DEF FileRollerItems
 <2>2. /\ a \in S /\ b \in S /\ c \in S
       /\ a.act = "extract_here" /\ b.act = "extract_to" /\ c.act = "add"
  BY ItemIs
 <2>3. /\ first \in {<<a>>, <<b>>, <<>>} /\ second \in {<<c>>, <<>>}
       /\ first # <<>> \/ second # <<>>
  OBVIOUS
 <2>4. Len(selected) = 1 /\ files[selected[1]].mime = "derived" => second = <<c>>
  <3> SUFFICES ASSUME Len(selected) = 1, files[selected[1]].mime = "derived"
               PROVE  second = <<c>>
   OBVIOUS
  <3>1. ToSet(selected) = {selected[1]} BY DEF Selections, ToSet
  <3>2. all_archives BY <3>1 DEF IsArchive
  <3> QED BY <3>2
 <2> HIDE DEF first, second, a, b, c, S
 <2>5. /\ first \in Seq(S) /\ Distinct(first) /\ \A k \in DOMAIN first : first[k] \in {a, b}
       /\ second \in Seq(S) /\ Distinct(second) /\ \A k \in DOMAIN second : second[k] = c
  <3>1. first \in {<<a>>, <<>>} \/ first \in {<<b>>, <<>>} BY <2>3
  <3>2. first \in Seq(S) /\ Distinct(first) /\ \A k \in DOMAIN first : first[k] \in {a, b}
   <4>1. CASE first \in {<<a>>, <<>>}
    <5>1. AtMost(first, a, S) BY <2>2, <4>1 DEF AtMost
    <5> QED BY <5>1, OneOrNone
   <4>2. CASE first \in {<<b>>, <<>>}
    <5>1. AtMost(first, b, S) BY <2>2, <4>2 DEF AtMost
    <5> QED BY <5>1, OneOrNone
   <4> QED BY <3>1, <4>1, <4>2
  <3>3. second \in Seq(S) /\ Distinct(second) /\ \A k \in DOMAIN second : second[k] = c
   <4>1. AtMost(second, c, S) BY <2>2, <2>3 DEF AtMost
   <4> QED BY <4>1, OneOrNone
  <3> QED BY <3>2, <3>3
 <2>6. first \o second \in Seq(S) /\ Distinct(first \o second)
  <3>1. \A k \in DOMAIN first : \A m \in DOMAIN second : first[k] # second[m] BY <2>2, <2>5
  <3> QED BY <2>5, <3>1, JoinedDistinct
 <2>7. \A k \in DOMAIN (first \o second) : (first \o second)[k].ext = "fileroller"
  <3>1. \A k \in DOMAIN (first \o second) : (first \o second)[k] \in S BY <2>6
  <3> QED BY <3>1 DEF S, ItemsOf
 <2>8. \E k \in DOMAIN (first \o second) : TRUE
  <3>1. Len(first \o second) = Len(first) + Len(second) BY <2>5
  <3>2. Len(first) >= 1 \/ Len(second) >= 1 BY <2>3
  <3>3. 1 \in DOMAIN (first \o second) BY <2>5, <3>1, <3>2
  <3> QED BY <3>3
 <2>9. second = <<c>> => \E k \in DOMAIN (first \o second) : (first \o second)[k].act = "add"
  <3> SUFFICES ASSUME second = <<c>>
               PROVE  \E k \in DOMAIN (first \o second) : (first \o second)[k].act = "add"
   OBVIOUS
  <3> DEFINE k == Len(first) + 1
  <3>1. k \in DOMAIN (first \o second) /\ (first \o second)[k] = c BY <2>5
  <3> QED BY <2>2, <3>1
 <2>10. HasFileRoller(p, first \o second) BY <2>4, <2>7, <2>8, <2>9 DEF HasFileRoller
 <2> QED BY <2>1, <2>6, <2>10 DEF S
<1> QED BY <1>1, <1>2

\* The items of an offer.
LEMMA DropboxItemsAre ==
    ASSUME NEW p, NEW options \in Offers, NEW selected \in Selections, p.of = selected
    PROVE  /\ DropboxItems(options, selected, selected) \in Seq(ItemsOf(p, {"dropbox"}))
           /\ Distinct(DropboxItems(options, selected, selected))
<1> DEFINE parsed == parse_menu[options]
           items == DropboxItems(options, selected, selected)
           Made(u) == [ext |-> "dropbox", act |-> u.verb, of |-> selected, told |-> "", remote |-> FALSE,
                       greyed |-> u.greyed, for |-> selected]
<1>1. parsed \in Seq(Understood) /\ DOMAIN parsed = 1 .. Len(parsed) /\ Len(parsed) \in Nat
 BY ParseMenuTyped
<1>2. IsInjective(parsed) BY OffersAssumption, Zenon
<1>3. items = [i \in DOMAIN parsed |-> [Item("dropbox", parsed[i].verb, selected) EXCEPT
                                            !.greyed = parsed[i].greyed, !.for = selected]]
 BY DEF DropboxItems
<1> HIDE DEF parsed, items
<1>4. DOMAIN items = DOMAIN parsed /\ \A i \in DOMAIN parsed : items[i] = Made(parsed[i])
 BY <1>3 DEF Item
<1>5. ASSUME NEW u \in Understood
      PROVE  /\ Made(u) \in ItemsOf(p, {"dropbox"})
             /\ u = [verb |-> Made(u).act, greyed |-> Made(u).greyed]
 <2>1. u.verb \in Acts /\ u.greyed \in Greyed BY DEF Acts, Greyed
 <2>2. Made(u) \in MenuItem BY <2>1 DEF MenuItem
 <2>3. \E v, g : u = [verb |-> v, greyed |-> g] BY DEF Understood
 <2>4. u = [verb |-> u.verb, greyed |-> u.greyed] BY <2>3
 <2> QED BY <2>2, <2>4 DEF ItemsOf
<1> HIDE DEF Made
<1>6. items \in Seq(ItemsOf(p, {"dropbox"}))
 <2>1. items \in [1 .. Len(parsed) -> ItemsOf(p, {"dropbox"})]
  <3>1. items = [i \in DOMAIN parsed |-> items[i]] BY <1>3, <1>4
  <3>2. \A i \in DOMAIN parsed : items[i] \in ItemsOf(p, {"dropbox"}) BY <1>1, <1>4, <1>5
  <3> QED BY <1>1, <3>1, <3>2
 <2> QED BY <1>1, <2>1
<1>7. Distinct(items)
 <2> SUFFICES ASSUME NEW i \in DOMAIN parsed, NEW j \in DOMAIN parsed, Made(parsed[i]) = Made(parsed[j])
              PROVE  i = j
  BY <1>4 DEF Distinct
 <2>1. parsed[i] \in Understood /\ parsed[j] \in Understood BY <1>1
 <2>2. parsed[i] = parsed[j] BY <1>5, <2>1
 <2> QED BY <1>2, <2>2 DEF IsInjective
<1> QED BY <1>6, <1>7 DEF items

----
(* The invariant: a menu that waits for Dropbox is answered for what it popped up for, since its
   queue is its own. *)

OfTheFileManager == {"terminal", "gksu", "fileroller"}
AllExtensions == OfTheFileManager \cup {"dropbox"}
Replies == [options : Offers, of : Selections]
Waiting == [queue : Nat, of : Selections]

MenuTyped ==
    /\ popup \in PopUps /\ fuse \in BOOLEAN
    /\ queue \in [number : Nat, replies : Seq(Replies)]
    /\ requests_waiting \in Seq(Waiting)
    /\ popup.state # "none" => popup.of \in Selections
    /\ popup.state # "none" /\ popup.background => popup.of = <<1>>

\* No request is for a queue that is not there yet.
Numbered == \A i \in DOMAIN requests_waiting : requests_waiting[i].queue <= queue.number

AskedFor ==
    popup.state = "waiting" =>
        /\ ~popup.background
        /\ \A i \in DOMAIN queue.replies : queue.replies[i].of = popup.of
        /\ \A i \in DOMAIN requests_waiting :
               requests_waiting[i].queue = queue.number => requests_waiting[i].of = popup.of
        /\ menu \in Seq(ItemsOf(popup, OfTheFileManager))

Offered ==
    IF popup.state = "none" THEN menu = <<>>
    ELSE /\ menu \in Seq(ItemsOf(popup, AllExtensions))
         /\ Twice(popup) \/ Distinct(menu)
         /\ ~popup.background => HasFileRoller(popup, menu)

Done ==
    popup.state = "done" =>
        LET item == ran.item[1]
            scheme == files[popup.of[1]].scheme
        IN /\ item.act # "extract_to" => ran.on = {<<i, i \in renamed>> : i \in ToSet(popup.of)}
           /\ item.ext = "terminal" /\ ~(item.act = "mc" /\ ~popup.background) =>
                \/ ran.at \in Where(item.told)
                \/ ran.at = "nowhere" /\ (fuse # popup.fuse \/ scheme = "desktop" \/ "terminal" \notin prefs)

MenuInv == MenuTyped /\ Numbered /\ AskedFor /\ Offered /\ Done

\* The same menu, in another state.
LEMMA SameMenu ==
    ASSUME MenuTyped, NEW state \in {"none", "waiting", "shown", "done", "crashed"},
           popup' = [popup EXCEPT !.state = state], files' = files
    PROVE  /\ popup' \in PopUps /\ popup'.state = state /\ popup'.of = popup.of /\ popup'.fuse = popup.fuse
           /\ popup'.background = popup.background
           /\ \A exts : ItemsOf(popup, exts)' = ItemsOf(popup, exts)
           /\ Twice(popup)' <=> Twice(popup)
           /\ \A items : HasFileRoller(popup, items)' <=> HasFileRoller(popup, items)
<1>1. /\ popup' \in PopUps /\ popup'.state = state /\ popup'.of = popup.of /\ popup'.fuse = popup.fuse
      /\ popup'.background = popup.background
 BY DEF MenuTyped, PopUps
<1>2. ASSUME NEW item
      PROVE  WasThere(popup, item)' <=> WasThere(popup, item)
 BY <1>1 DEF WasThere
<1>3. \A exts : ItemsOf(popup, exts)' = ItemsOf(popup, exts)
 BY <1>1, <1>2 DEF ItemsOf, MenuItem, Acts, Greyed, Understood, Selections
<1>4. Twice(popup)' <=> Twice(popup) BY <1>1 DEF Twice
<1>5. \A items : HasFileRoller(popup, items)' <=> HasFileRoller(popup, items)
 BY <1>1 DEF HasFileRoller
<1> QED BY <1>1, <1>3, <1>4, <1>5

\* What an activated item does.
LEMMA ActivatedWell ==
    ASSUME MenuTyped, popup.state = "shown", NEW item \in ItemsOf(popup, AllExtensions), Activate(item)
    PROVE  Done'
<1> DEFINE on == IF item.ext = "fileroller" THEN GivenToFileRoller(item) ELSE ToSet(item.of)
           at == CASE item.ext = "terminal" -> OpenTerminal(item)
                   [] item.ext = "gksu" -> OpenAsRoot(item)
                   [] OTHER -> "program"
           scheme == files[popup.of[1]].scheme
           local == uri_has_local_path(popup.of[1])
<1>1. /\ ran' = [item |-> <<item>>, at |-> at, on |-> {<<i, i \in renamed>> : i \in on}]
      /\ popup' = [popup EXCEPT !.state = "done"]
      /\ files' = files /\ renamed' = renamed /\ fuse' = fuse /\ prefs' = prefs
 BY DEF Activate, world
<1>2. popup'.of = popup.of /\ popup'.fuse = popup.fuse /\ popup'.background = popup.background
 BY <1>1 DEF MenuTyped, PopUps
<1>3. item \in MenuItem /\ item.of = popup.of /\ item.ext = "terminal" => WasThere(popup, item)
 BY DEF ItemsOf
<1>4. item.of = popup.of BY DEF ItemsOf
<1>5. item.act # "extract_to" => on = ToSet(popup.of) BY <1>4 DEF GivenToFileRoller
<1> DEFINE done == {<<i, i \in renamed>> : i \in on}
<1>6. item.act # "extract_to" => done = {<<i, i \in renamed>> : i \in ToSet(popup.of)} BY <1>5
<1>7. ASSUME item.ext = "terminal", ~(item.act = "mc" /\ ~popup.background)
      PROVE  \/ at \in Where(item.told)
             \/ at = "nowhere" /\ (fuse # popup.fuse \/ scheme = "desktop" \/ "terminal" \notin prefs)
 <2>1. at = OpenTerminal(item) BY <1>7
 <2>2. WasThere(popup, item) BY <1>7 DEF ItemsOf
 <2>3. CASE "terminal" \notin prefs BY <2>1, <2>3 DEF OpenTerminal
 <2>4. CASE "terminal" \in prefs
  <3>1. at = get_terminal_command_for_file_info(item) BY <2>1, <2>4 DEF OpenTerminal
  <3>2. local <=> scheme = "file" \/ (scheme \in {"sftp", "other"} /\ fuse)
   BY DEF uri_has_local_path
  <3>3. \/ item.told = "remote" /\ scheme = "sftp" /\ item.remote
        \/ item.told # "remote" /\ scheme = "desktop"
        \/ /\ item.told # "remote" /\ ~(scheme = "sftp" /\ item.remote)
           /\ scheme = "file" \/ (scheme \in {"sftp", "other"} /\ popup.fuse)
   BY <1>7, <2>2 DEF WasThere
  <3>4. CASE scheme = "desktop"
   <4>1. item.told # "remote" BY <3>3, <3>4
   <4>2. at \in {"home", "desktop", "nowhere"}
    <5>1. CASE HomeOrDesktop
     BY <1>4, <3>1, <3>4, <5>1 DEF get_terminal_command_for_file_info, get_terminal_file_info
    <5>2. CASE ~HomeOrDesktop
     BY <1>4, <3>1, <3>4, <5>2 DEF get_terminal_command_for_file_info, get_terminal_file_info
    <5> QED BY <5>1, <5>2
   <4> QED BY <3>4, <4>1, <4>2 DEF Where
  <3>5. CASE scheme = "sftp" /\ item.remote
   <4>1. item.told = "remote" BY <3>3, <3>5
   <4>2. at = "host"
    BY <1>4, <3>1, <3>5 DEF get_terminal_command_for_file_info, get_terminal_file_info
   <4> QED BY <4>1, <4>2 DEF Where
  <3>6. CASE scheme # "desktop" /\ ~(scheme = "sftp" /\ item.remote)
   <4>1. at = IF local THEN "path" ELSE "nowhere"
    BY <1>4, <3>1, <3>6 DEF get_terminal_command_for_file_info, get_terminal_file_info
   <4>2. item.told # "remote" /\ (scheme = "file" \/ (scheme \in {"sftp", "other"} /\ popup.fuse))
    BY <3>3, <3>6
   <4>3. CASE local BY <4>1, <4>2, <4>3 DEF Where
   <4>4. CASE ~local
    <5>1. ~fuse /\ popup.fuse BY <3>2, <4>2, <4>4
    <5> QED BY <4>1, <4>4, <5>1
   <4> QED BY <4>3, <4>4
  <3> QED BY <3>4, <3>5, <3>6
 <2> QED BY <2>3, <2>4
<1> HIDE DEF on, at, done
<1>8. ran'.item[1] = item /\ ran'.at = at /\ ran'.on = done BY <1>1 DEF done
<1> QED BY <1>1, <1>2, <1>6, <1>7, <1>8 DEF Done

LEMMA NumberedAgain ==
    ASSUME MenuTyped, Numbered, UNCHANGED <<queue, requests_waiting>>
    PROVE  Numbered'
BY DEF Numbered

LEMMA MenuInvInit == MenusInit => MenuInv
<1> SUFFICES ASSUME MenusInit PROVE MenuInv OBVIOUS
<1>1. /\ popup = [state |-> "none", of |-> <<>>, fuse |-> fuse, background |-> FALSE, count |-> 0]
      /\ fuse \in BOOLEAN /\ menu = <<>> /\ requests_waiting = <<>>
      /\ queue = [number |-> 0, replies |-> <<>>]
 BY DEF MenusInit
<1>2. popup \in PopUps /\ popup.state = "none" BY <1>1 DEF PopUps
<1>3. MenuTyped BY <1>1, <1>2 DEF MenuTyped
<1>4. Numbered /\ AskedFor /\ Offered /\ Done BY <1>1, <1>2 DEF Numbered, AskedFor, Offered, Done
<1> QED BY <1>3, <1>4 DEF MenuInv

LEMMA PopUpStep ==
    ASSUME MenuInv, NEW selected \in Selections, PopUp(selected)
    PROVE  MenuInv'
<1> DEFINE local == \A i \in ToSet(selected) : files[i].scheme = "file"
           state == IF local THEN "waiting" ELSE "shown"
<1>1. MenuTyped /\ Numbered BY DEF MenuInv
<1>2. /\ menu' = TerminalItems(selected) \o GksuItems(selected) \o FileRollerItems(selected)
      /\ popup' = [state |-> state, of |-> selected, fuse |-> fuse, background |-> FALSE, count |-> popup.count + 1]
      /\ files' = files /\ fuse' = fuse /\ prefs' = prefs
      /\ IF local THEN AskForOptions(selected) ELSE UNCHANGED <<queue, requests_waiting>>
 BY DEF PopUp, world
<1>3. state \in {"waiting", "shown"} /\ (state = "waiting" <=> local) OBVIOUS
<1> HIDE DEF local, state
<1>4. popup.count \in Nat /\ popup.count + 1 \in Nat BY <1>1 DEF MenuTyped, PopUps
<1> DEFINE p == [state |-> state, of |-> selected, fuse |-> fuse, background |-> FALSE, count |-> popup.count + 1]
<1>5. /\ p \in PopUps /\ p.state = state /\ p.of = selected /\ p.fuse = fuse /\ p.background = FALSE
      /\ popup' = p
 BY <1>1, <1>2, <1>3, <1>4 DEF PopUps, MenuTyped
<1> HIDE DEF p
<1> DEFINE a == TerminalItems(selected) b == GksuItems(selected) c == FileRollerItems(selected)
<1>6. /\ a \in Seq(ItemsOf(p, {"terminal"})) /\ Distinct(a)
      /\ b \in Seq(ItemsOf(p, {"gksu"})) /\ Distinct(b)
      /\ c \in Seq(ItemsOf(p, {"fileroller"})) /\ Distinct(c) /\ HasFileRoller(p, c)
 BY <1>5, TerminalItemsAre, GksuItemsAre, FileRollerItemsAre
<1>7. menu' = (a \o b) \o c BY <1>2
<1> HIDE DEF a, b, c
<1>8. a \o b \in Seq(ItemsOf(p, {"terminal", "gksu"})) /\ Distinct(a \o b)
 <2>1. {"terminal"} \cup {"gksu"} = {"terminal", "gksu"} /\ {"terminal"} \cap {"gksu"} = {} OBVIOUS
 <2> QED BY <1>6, <2>1, JoinedItems
<1> DEFINE d == a \o b
<1> HIDE DEF d
<1>9. d \o c \in Seq(ItemsOf(p, OfTheFileManager)) /\ Distinct(d \o c)
 <2>1. {"terminal", "gksu"} \cup {"fileroller"} = OfTheFileManager /\ {"terminal", "gksu"} \cap {"fileroller"} = {}
  BY DEF OfTheFileManager
 <2>2. d \in Seq(ItemsOf(p, {"terminal", "gksu"})) /\ Distinct(d) BY <1>8 DEF d
 <2> QED BY <1>6, <2>1, <2>2, JoinedItems
<1>10. HasFileRoller(p, d \o c)
 <2> DEFINE T == ItemsOf(p, {"terminal", "gksu"}) U == ItemsOf(p, {"fileroller"})
 <2>1. d \in Seq(T) /\ c \in Seq(U) BY <1>6, <1>8 DEF d
 <2> HIDE DEF T, U
 <2>2. \A i \in DOMAIN c : Len(d) + i \in DOMAIN (d \o c) /\ (d \o c)[Len(d) + i] = c[i] BY <2>1
 <2> QED BY <1>6, <2>2 DEF HasFileRoller
<1>11. \A exts : ItemsOf(popup, exts)' = ItemsOf(p, exts)
 <2>1. \A item : WasThere(popup, item)' <=> WasThere(p, item) BY <1>2, <1>5 DEF WasThere
 <2> QED BY <1>5, <2>1 DEF ItemsOf, MenuItem, Acts, Greyed, Understood, Selections
<1>12. \A items : HasFileRoller(popup, items)' <=> HasFileRoller(p, items)
 BY <1>2, <1>5 DEF HasFileRoller
<1>13. menu' = d \o c BY <1>7 DEF d
<1>14. Offered'
 <2>1. ItemsOf(p, OfTheFileManager) \subseteq ItemsOf(p, AllExtensions)
  BY DEF ItemsOf, AllExtensions
 <2>2. d \o c \in Seq(ItemsOf(p, AllExtensions)) BY <1>9, <2>1, Wider
 <2>3. menu' \in Seq(ItemsOf(popup, AllExtensions))'
  BY <1>11, <1>13, <2>2 DEF AllExtensions, OfTheFileManager
 <2>4. Distinct(menu)' BY <1>9, <1>13 DEF Distinct
 <2>5. HasFileRoller(popup, menu)' BY <1>10, <1>12, <1>13 DEF HasFileRoller
 <2>6. popup'.state # "none" BY <1>3, <1>5
 <2> QED BY <2>3, <2>4, <2>5, <2>6 DEF Offered
<1>15. CASE local
 <2>1. /\ queue' = [number |-> queue.number + 1, replies |-> <<>>]
       /\ requests_waiting' = Append(requests_waiting, [queue |-> queue.number + 1, of |-> selected])
  BY <1>2, <1>15 DEF AskForOptions
 <2>2. queue.number \in Nat /\ requests_waiting \in Seq(Waiting) BY <1>1 DEF MenuTyped
 <2> DEFINE new == [queue |-> queue.number + 1, of |-> selected]
            n == Len(requests_waiting)
 <2>3. new \in Waiting /\ new.queue = queue.number + 1 /\ new.of = selected BY <2>2 DEF Waiting
 <2>4. queue' \in [number : Nat, replies : Seq(Replies)] /\ queue'.number = queue.number + 1 /\ queue'.replies = <<>>
  BY <2>1, <2>2
 <2>5. requests_waiting' = Append(requests_waiting, new) BY <2>1
 <2> HIDE DEF new
 <2>6. /\ requests_waiting' \in Seq(Waiting) /\ DOMAIN requests_waiting' = 1 .. n + 1 /\ n \in Nat
       /\ DOMAIN requests_waiting = 1 .. n
       /\ \A i \in 1 .. n + 1 : requests_waiting'[i] = IF i <= n THEN requests_waiting[i] ELSE new
  BY <2>2, <2>3, <2>5
 <2>7. ASSUME NEW i \in DOMAIN requests_waiting'
       PROVE  /\ requests_waiting'[i].queue <= queue'.number
              /\ requests_waiting'[i].queue = queue'.number => requests_waiting'[i].of = selected
  <3>1. CASE i \in 1 .. n
   <4>1. requests_waiting'[i] = requests_waiting[i] /\ requests_waiting[i].queue <= queue.number
    BY <1>1, <2>6, <3>1 DEF Numbered
   <4>2. requests_waiting[i] \in Waiting BY <2>2, <2>6, <3>1
   <4>3. requests_waiting[i].queue \in Nat BY <4>2 DEF Waiting
   <4> QED BY <2>2, <2>4, <4>1, <4>3
  <3>2. CASE i = n + 1
   <4>1. requests_waiting'[i] = new BY <2>6, <3>2
   <4> QED BY <2>2, <2>3, <2>4, <4>1
  <3> QED BY <2>6, <3>1, <3>2
 <2>8. MenuTyped' BY <1>1, <1>2, <1>5, <2>4, <2>6 DEF MenuTyped
 <2>9. Numbered' BY <2>7 DEF Numbered
 <2>10. AskedFor'
  <3>1. menu' \in Seq(ItemsOf(popup, OfTheFileManager))'
   BY <1>9, <1>11, <1>13 DEF OfTheFileManager
  <3> QED BY <1>5, <2>4, <2>7, <3>1 DEF AskedFor
 <2>11. Done' BY <1>3, <1>5 DEF Done
 <2> QED BY <1>14, <2>8, <2>9, <2>10, <2>11 DEF MenuInv
<1>16. CASE ~local
 <2>1. UNCHANGED <<queue, requests_waiting>> /\ state = "shown" BY <1>2, <1>3, <1>16
 <2>2. MenuTyped' BY <1>1, <1>2, <1>5, <2>1 DEF MenuTyped
 <2>3. Numbered' /\ AskedFor' /\ Done' BY <1>1, <1>5, <2>1, NumberedAgain DEF AskedFor, Done
 <2> QED BY <1>14, <2>2, <2>3 DEF MenuInv
<1> QED BY <1>15, <1>16

LEMMA PopUpBackgroundStep ==
    ASSUME MenuInv, PopUpBackground(1)
    PROVE  MenuInv'
<1>1. MenuTyped /\ Numbered BY DEF MenuInv
<1>2. /\ menu' = TerminalBackground(1)
      /\ popup' = [state |-> "shown", of |-> <<1>>, fuse |-> fuse, background |-> TRUE, count |-> popup.count + 1]
      /\ files' = files /\ fuse' = fuse /\ UNCHANGED <<queue, requests_waiting>>
 BY DEF PopUpBackground, world
<1>4. popup.count \in Nat /\ popup.count + 1 \in Nat BY <1>1 DEF MenuTyped, PopUps
<1> DEFINE p == [state |-> "shown", of |-> <<1>>, fuse |-> fuse, background |-> TRUE, count |-> popup.count + 1]
<1>5. /\ p \in PopUps /\ p.state = "shown" /\ p.of = <<1>> /\ p.fuse = fuse /\ p.background = TRUE
      /\ popup' = p
 BY <1>1, <1>2, <1>4 DEF PopUps, MenuTyped, Selections
<1> HIDE DEF p
<1>6. TerminalBackground(1) \in Seq(ItemsOf(p, {"terminal"})) /\ (Twice(p) \/ Distinct(TerminalBackground(1)))
 BY <1>5, TerminalBackgroundIs
<1>7. \A exts : ItemsOf(popup, exts)' = ItemsOf(p, exts)
 <2>1. \A item : WasThere(popup, item)' <=> WasThere(p, item) BY <1>2, <1>5 DEF WasThere
 <2> QED BY <1>5, <2>1 DEF ItemsOf, MenuItem, Acts, Greyed, Understood, Selections
<1>8. Offered'
 <2>1. ItemsOf(p, {"terminal"}) \subseteq ItemsOf(p, AllExtensions)
  BY DEF ItemsOf, AllExtensions, OfTheFileManager
 <2>2. TerminalBackground(1) \in Seq(ItemsOf(p, AllExtensions)) BY <1>6, <2>1, Wider
 <2>3. menu' \in Seq(ItemsOf(popup, AllExtensions))'
  BY <1>2, <1>7, <2>2 DEF AllExtensions, OfTheFileManager
 <2>4. Twice(popup)' <=> Twice(p) BY <1>2, <1>5 DEF Twice
 <2>5. Distinct(menu)' <=> Distinct(TerminalBackground(1)) BY <1>2 DEF Distinct
 <2> QED BY <1>5, <1>6, <2>3, <2>4, <2>5 DEF Offered
<1>9. MenuTyped' BY <1>1, <1>2, <1>5 DEF MenuTyped, Selections
<1>10. Numbered' /\ AskedFor' /\ Done' BY <1>1, <1>2, <1>5, NumberedAgain DEF AskedFor, Done
<1> QED BY <1>8, <1>9, <1>10 DEF MenuInv

LEMMA ReplyStep ==
    ASSUME MenuInv, Reply
    PROVE  MenuInv'
<1> DEFINE reply == Head(queue.replies)
           items == DropboxItems(reply.options, popup.of, reply.of)
<1>1. MenuTyped /\ Numbered /\ AskedFor /\ Offered BY DEF MenuInv
<1>2. /\ popup.state = "waiting" /\ queue.replies # <<>>
      /\ menu' = menu \o items
      /\ popup' \in {[popup EXCEPT !.state = "shown"], [popup EXCEPT !.state = "crashed"]}
      /\ queue' = [queue EXCEPT !.replies = Tail(@)]
      /\ files' = files /\ fuse' = fuse /\ UNCHANGED requests_waiting
 BY DEF Reply, world
<1>3. PICK state \in {"shown", "crashed"} : popup' = [popup EXCEPT !.state = state] BY <1>2
<1>4. queue.number \in Nat /\ queue.replies \in Seq(Replies) /\ queue \in [number : Nat, replies : Seq(Replies)]
 BY <1>1 DEF MenuTyped
<1>5. /\ queue.replies[1] = reply /\ 1 \in DOMAIN queue.replies /\ reply \in Replies
      /\ Tail(queue.replies) \in Seq(Replies)
 BY <1>2, <1>4
<1>6. reply.of = popup.of /\ ~popup.background BY <1>1, <1>2, <1>5 DEF AskedFor
<1>7. reply.options \in Offers /\ popup.of \in Selections BY <1>1, <1>2, <1>5 DEF Replies, MenuTyped
<1>8. items \in Seq(ItemsOf(popup, {"dropbox"})) /\ Distinct(items) BY <1>6, <1>7, DropboxItemsAre
<1> HIDE DEF items, reply
<1>9. /\ popup' \in PopUps /\ popup'.state = state /\ popup'.of = popup.of /\ popup'.fuse = popup.fuse
      /\ popup'.background = popup.background
      /\ \A exts : ItemsOf(popup, exts)' = ItemsOf(popup, exts)
      /\ Twice(popup)' <=> Twice(popup)
      /\ \A its : HasFileRoller(popup, its)' <=> HasFileRoller(popup, its)
 BY <1>1, <1>2, <1>3, SameMenu
<1>10. menu \in Seq(ItemsOf(popup, OfTheFileManager)) /\ Distinct(menu) /\ HasFileRoller(popup, menu)
 BY <1>1, <1>2, <1>6 DEF AskedFor, Offered, Twice
<1>11. menu \o items \in Seq(ItemsOf(popup, AllExtensions)) /\ Distinct(menu \o items)
 <2>1. OfTheFileManager \cap {"dropbox"} = {} /\ AllExtensions = OfTheFileManager \cup {"dropbox"}
  BY DEF OfTheFileManager, AllExtensions
 <2> QED BY <1>8, <1>10, <2>1, JoinedItems
<1>12. HasFileRoller(popup, menu \o items)
 <2> DEFINE T == ItemsOf(popup, OfTheFileManager) U == ItemsOf(popup, {"dropbox"})
 <2>1. menu \in Seq(T) /\ items \in Seq(U) BY <1>8, <1>10
 <2> HIDE DEF T, U
 <2>2. \A i \in DOMAIN menu : i \in DOMAIN (menu \o items) /\ (menu \o items)[i] = menu[i] BY <2>1
 <2> QED BY <1>10, <2>2 DEF HasFileRoller
<1>13. Offered'
 <2>1. menu' \in Seq(ItemsOf(popup, AllExtensions))'
  BY <1>2, <1>9, <1>11 DEF AllExtensions, OfTheFileManager
 <2>2. Distinct(menu)' BY <1>2, <1>11 DEF Distinct
 <2>3. HasFileRoller(popup, menu)' BY <1>2, <1>9, <1>12 DEF HasFileRoller
 <2> QED BY <1>3, <1>9, <2>1, <2>2, <2>3 DEF Offered
<1>14. queue' \in [number : Nat, replies : Seq(Replies)] /\ queue'.number = queue.number
 BY <1>2, <1>4, <1>5
<1>15. MenuTyped' BY <1>1, <1>2, <1>7, <1>9, <1>14 DEF MenuTyped
<1>16. Numbered' BY <1>1, <1>2, <1>14 DEF Numbered
<1>17. AskedFor' /\ Done' BY <1>3, <1>9 DEF AskedFor, Done
<1> QED BY <1>13, <1>15, <1>16, <1>17 DEF MenuInv

\* The menu as it was, in another state.
LEMMA MenuKept ==
    ASSUME MenuInv, NEW state \in {"shown", "done", "crashed"}, popup.state # "none",
           popup' = [popup EXCEPT !.state = state], UNCHANGED <<files, fuse, menu, queue, requests_waiting>>, Done'
    PROVE  MenuInv'
<1>1. MenuTyped /\ Numbered /\ Offered BY DEF MenuInv
<1>2. /\ popup' \in PopUps /\ popup'.state = state /\ popup'.of = popup.of /\ popup'.fuse = popup.fuse
      /\ popup'.background = popup.background
      /\ \A exts : ItemsOf(popup, exts)' = ItemsOf(popup, exts)
      /\ Twice(popup)' <=> Twice(popup)
      /\ \A its : HasFileRoller(popup, its)' <=> HasFileRoller(popup, its)
 BY <1>1, SameMenu
<1>3. MenuTyped' BY <1>1, <1>2 DEF MenuTyped
<1>4. Numbered' /\ AskedFor' BY <1>1, <1>2, NumberedAgain DEF AskedFor
<1>5. Offered'
 <2>1. menu' \in Seq(ItemsOf(popup, AllExtensions))'
  BY <1>1, <1>2 DEF Offered, AllExtensions, OfTheFileManager
 <2>2. Distinct(menu)' <=> Distinct(menu) BY DEF Distinct
 <2>3. HasFileRoller(popup, menu)' <=> HasFileRoller(popup, menu) BY <1>2 DEF HasFileRoller
 <2> QED BY <1>1, <1>2, <2>1, <2>2, <2>3 DEF Offered
<1> QED BY <1>3, <1>4, <1>5 DEF MenuInv

LEMMA NoReplyStep ==
    ASSUME MenuInv, NoReply
    PROVE  MenuInv'
<1>1. /\ popup.state = "waiting" /\ popup' = [popup EXCEPT !.state = "shown"]
      /\ UNCHANGED <<files, fuse, menu, queue, requests_waiting>>
 BY DEF NoReply, world
<1>2. popup'.state = "shown" BY <1>1 DEF MenuInv, MenuTyped, PopUps
<1>3. Done' BY <1>2 DEF Done
<1> QED BY <1>1, <1>3, MenuKept

LEMMA ActivateStep ==
    ASSUME MenuInv, NEW i \in DOMAIN menu, Activate(menu[i])
    PROVE  MenuInv'
<1>1. /\ popup.state = "shown" /\ popup' = [popup EXCEPT !.state = "done"]
      /\ UNCHANGED <<files, fuse, menu, queue, requests_waiting>>
 BY DEF Activate, world
<1>2. MenuTyped /\ menu \in Seq(ItemsOf(popup, AllExtensions)) BY <1>1 DEF MenuInv, Offered
<1>3. menu[i] \in ItemsOf(popup, AllExtensions) BY <1>2
<1>4. Done' BY <1>1, <1>2, <1>3, ActivatedWell
<1> QED BY <1>1, <1>4, MenuKept

LEMMA CloseStep ==
    ASSUME MenuInv, Close
    PROVE  MenuInv'
<1>1. /\ popup' = [popup EXCEPT !.state = "none"] /\ menu' = <<>>
      /\ files' = files /\ fuse' = fuse /\ UNCHANGED <<queue, requests_waiting>>
 BY DEF Close, world
<1>2. MenuTyped /\ Numbered BY DEF MenuInv
<1>3. popup' \in PopUps /\ popup'.state = "none" BY <1>1, <1>2 DEF MenuTyped, PopUps
<1>4. MenuTyped' BY <1>1, <1>2, <1>3 DEF MenuTyped
<1>5. Numbered' /\ AskedFor' /\ Offered' /\ Done'
 BY <1>1, <1>2, <1>3, NumberedAgain DEF AskedFor, Offered, Done
<1> QED BY <1>4, <1>5 DEF MenuInv

LEMMA WorldChangesStep ==
    ASSUME MenuInv, WorldChanges
    PROVE  MenuInv'
<1>1. popup.state = "shown" /\ UNCHANGED <<files, popup, menu, queue, requests_waiting>>
 BY DEF WorldChanges
<1>2. fuse' \in BOOLEAN BY DEF WorldChanges, MenuInv, MenuTyped
<1>3. MenuTyped' /\ Numbered' /\ AskedFor' /\ Done'
 BY <1>1, <1>2, NumberedAgain DEF MenuInv, MenuTyped, AskedFor, Done
<1>4. Offered'
 <2>1. \A item : WasThere(popup, item)' <=> WasThere(popup, item) BY <1>1 DEF WasThere
 <2>2. ItemsOf(popup, AllExtensions)' = ItemsOf(popup, AllExtensions)
  BY <1>1, <2>1 DEF ItemsOf, MenuItem, Acts, Greyed, Understood, Selections, AllExtensions, OfTheFileManager
 <2>3. Twice(popup)' <=> Twice(popup) BY <1>1 DEF Twice
 <2>4. Distinct(menu)' <=> Distinct(menu) BY <1>1 DEF Distinct
 <2>5. HasFileRoller(popup, menu)' <=> HasFileRoller(popup, menu) BY <1>1 DEF HasFileRoller
 <2> QED BY <1>1, <2>2, <2>3, <2>4, <2>5 DEF MenuInv, Offered
<1> QED BY <1>3, <1>4 DEF MenuInv

LEMMA DaemonAnswersStep ==
    ASSUME MenuInv, NEW options \in Offers, DaemonAnswers(options)
    PROVE  MenuInv'
<1> DEFINE dgc == Head(requests_waiting)
           new == [options |-> options, of |-> dgc.of]
<1>1. MenuTyped /\ Numbered /\ AskedFor /\ Offered /\ Done BY DEF MenuInv
<1>2. /\ requests_waiting # <<>>
      /\ queue' = IF dgc.queue = queue.number THEN [queue EXCEPT !.replies = Append(@, new)] ELSE queue
      /\ requests_waiting' = Tail(requests_waiting)
      /\ UNCHANGED <<files, renamed, fuse, prefs, popup, menu, ran>>
 BY DEF DaemonAnswers, world
<1>3. /\ queue.number \in Nat /\ queue.replies \in Seq(Replies) /\ queue \in [number : Nat, replies : Seq(Replies)]
      /\ requests_waiting \in Seq(Waiting)
 BY <1>1 DEF MenuTyped
<1>4. /\ dgc = requests_waiting[1] /\ 1 \in DOMAIN requests_waiting /\ dgc \in Waiting
      /\ Tail(requests_waiting) \in Seq(Waiting)
      /\ \A i \in DOMAIN Tail(requests_waiting) :
             i + 1 \in DOMAIN requests_waiting /\ Tail(requests_waiting)[i] = requests_waiting[i + 1]
 BY <1>2, <1>3
<1>5. new \in Replies /\ new.of = dgc.of BY <1>4 DEF Replies, Waiting
<1> HIDE DEF dgc, new
<1>6. queue' \in [number : Nat, replies : Seq(Replies)] /\ queue'.number = queue.number
 <2>1. Append(queue.replies, new) \in Seq(Replies) BY <1>3, <1>5
 <2>2. CASE dgc.queue = queue.number BY <1>2, <1>3, <2>1, <2>2
 <2>3. CASE dgc.queue # queue.number BY <1>2, <1>3, <2>3
 <2> QED BY <2>2, <2>3
<1>7. MenuTyped' BY <1>1, <1>2, <1>4, <1>6 DEF MenuTyped
<1>8. Numbered' BY <1>1, <1>2, <1>4, <1>6 DEF Numbered
<1>9. \A item : WasThere(popup, item)' <=> WasThere(popup, item) BY <1>2 DEF WasThere
<1>10. \A exts : ItemsOf(popup, exts)' = ItemsOf(popup, exts)
 BY <1>2, <1>9 DEF ItemsOf, MenuItem, Acts, Greyed, Understood, Selections
<1>11. Offered'
 <2>3. Twice(popup)' <=> Twice(popup) BY <1>2 DEF Twice
 <2>4. Distinct(menu)' <=> Distinct(menu) BY <1>2 DEF Distinct
 <2>5. HasFileRoller(popup, menu)' <=> HasFileRoller(popup, menu) BY <1>2 DEF HasFileRoller
 <2>6. menu \in Seq(ItemsOf(popup, AllExtensions)) => menu' \in Seq(ItemsOf(popup, AllExtensions))'
  BY <1>2, <1>10 DEF AllExtensions, OfTheFileManager
 <2> QED BY <1>1, <1>2, <2>3, <2>4, <2>5, <2>6 DEF Offered
<1>12. Done' BY <1>1, <1>2 DEF Done
<1>13. AskedFor'
 <2> SUFFICES ASSUME popup.state = "waiting"
              PROVE  /\ ~popup.background
                     /\ \A i \in DOMAIN queue'.replies : queue'.replies[i].of = popup.of
                     /\ \A i \in DOMAIN requests_waiting' :
                            requests_waiting'[i].queue = queue'.number => requests_waiting'[i].of = popup.of
                     /\ menu' \in Seq(ItemsOf(popup, OfTheFileManager))'
  BY <1>2 DEF AskedFor
 <2>1. /\ ~popup.background
       /\ \A i \in DOMAIN queue.replies : queue.replies[i].of = popup.of
       /\ \A i \in DOMAIN requests_waiting :
              requests_waiting[i].queue = queue.number => requests_waiting[i].of = popup.of
       /\ menu \in Seq(ItemsOf(popup, OfTheFileManager))
  BY <1>1 DEF AskedFor
 <2>2. \A i \in DOMAIN requests_waiting' :
           requests_waiting'[i].queue = queue'.number => requests_waiting'[i].of = popup.of
  BY <1>2, <1>4, <1>6, <2>1
 <2>3. menu' \in Seq(ItemsOf(popup, OfTheFileManager))' BY <1>2, <1>10, <2>1 DEF OfTheFileManager
 <2>4. \A i \in DOMAIN queue'.replies : queue'.replies[i].of = popup.of
  <3>1. CASE dgc.queue = queue.number
   <4>1. new.of = popup.of BY <1>4, <1>5, <2>1, <3>1
   <4>2. queue'.replies = Append(queue.replies, new) BY <1>2, <1>3, <3>1
   <4> DEFINE n == Len(queue.replies)
   <4>3. /\ DOMAIN queue'.replies = 1 .. n + 1 /\ DOMAIN queue.replies = 1 .. n /\ n \in Nat
         /\ \A i \in 1 .. n + 1 : queue'.replies[i] = IF i <= n THEN queue.replies[i] ELSE new
    BY <1>3, <1>5, <4>2
   <4> QED BY <2>1, <4>1, <4>3
  <3>2. CASE dgc.queue # queue.number BY <1>2, <2>1, <3>2
  <3> QED BY <3>1, <3>2
 <2> QED BY <2>1, <2>2, <2>3, <2>4
<1> QED BY <1>7, <1>8, <1>11, <1>12, <1>13 DEF MenuInv

LEMMA MenuInvStep == MenuInv /\ [MenusNext]_menu_vars => MenuInv'
<1> SUFFICES ASSUME MenuInv, [MenusNext]_menu_vars PROVE MenuInv' OBVIOUS
<1>1. CASE \E selected \in {<<1>>, <<1, 2>>} : PopUp(selected) BY <1>1, PopUpStep DEF Selections
<1>2. CASE PopUpBackground(1) BY <1>2, PopUpBackgroundStep
<1>3. CASE Reply BY <1>3, ReplyStep
<1>4. CASE NoReply BY <1>4, NoReplyStep
<1>5. CASE Close BY <1>5, CloseStep
<1>6. CASE WorldChanges BY <1>6, WorldChangesStep
<1>7. CASE \E options \in Offers : DaemonAnswers(options) BY <1>7, DaemonAnswersStep
<1>8. CASE \E i \in DOMAIN menu : Activate(menu[i]) BY <1>8, ActivateStep
<1>9. CASE UNCHANGED menu_vars
 <2>1. UNCHANGED <<files, renamed, fuse, prefs, popup, menu, queue, requests_waiting, ran>>
  BY <1>9 DEF menu_vars
 <2>2. MenuTyped' /\ Numbered' /\ Done' BY <2>1, NumberedAgain DEF MenuInv, MenuTyped, Done
 <2>3. \A item : WasThere(popup, item)' <=> WasThere(popup, item) BY <2>1 DEF WasThere
 <2>4. \A exts : ItemsOf(popup, exts)' = ItemsOf(popup, exts)
  BY <2>1, <2>3 DEF ItemsOf, MenuItem, Acts, Greyed, Understood, Selections
 <2>5. /\ Twice(popup)' <=> Twice(popup)
       /\ Distinct(menu)' <=> Distinct(menu)
       /\ HasFileRoller(popup, menu)' <=> HasFileRoller(popup, menu)
  BY <2>1 DEF Twice, Distinct, HasFileRoller
 <2>6. Offered' /\ AskedFor'
  BY <2>1, <2>4, <2>5 DEF MenuInv, Offered, AskedFor, AllExtensions, OfTheFileManager
 <2> QED BY <2>2, <2>6 DEF MenuInv
<1> QED BY <1>1, <1>2, <1>3, <1>4, <1>5, <1>6, <1>7, <1>8, <1>9 DEF MenusNext

LEMMA MenuInvariance == MenusSpec => []MenuInv
<1> QED BY MenuInvInit, MenuInvStep, PTL DEF MenusSpec

LEMMA InvMenus == MenuInv => MenusDoAsTheySayUnless
<1> SUFFICES ASSUME MenuInv PROVE MenusDoAsTheySayUnless OBVIOUS
<1>1. MenuTyped /\ Offered /\ Done BY DEF MenuInv
<1>2. CASE popup.state = "none"
 <2>1. DOMAIN menu = {} BY <1>1, <1>2 DEF Offered
 <2> QED BY <1>2, <2>1 DEF MenusDoAsTheySayUnless
<1>3. CASE popup.state # "none"
 <2>1. /\ menu \in Seq(ItemsOf(popup, AllExtensions))
       /\ Twice(popup) \/ Distinct(menu)
       /\ ~popup.background => HasFileRoller(popup, menu)
  BY <1>1, <1>3 DEF Offered
 <2>2. \A i \in DOMAIN menu : menu[i].for = popup.of
  <3>1. \A i \in DOMAIN menu : menu[i] \in ItemsOf(popup, AllExtensions) BY <2>1
  <3> QED BY <3>1 DEF ItemsOf
 <2>3. \A i, j \in DOMAIN menu :
           menu[i] = menu[j] => i = j \/ (popup.background /\ files[popup.of[1]].scheme = "other")
  BY <2>1 DEF Twice, Distinct
 <2> QED BY <1>1, <2>1, <2>2, <2>3 DEF MenusDoAsTheySayUnless, HasFileRoller, Done
<1> QED BY <1>2, <1>3

\* A menu is about the files it popped up for, offers nothing twice and always something of
\* File Roller, and an item is done to all those files, at the place that it told of: for any
\* files, preferences and offers of the daemon, whenever it answers.
THEOREM MenusDoAsTheySay == MenusSpec => []MenusDoAsTheySayUnless
<1> QED BY InvMenus, MenuInvariance, PTL
====

---- MODULE FrArchiveProofs ----
(* What is promised of an archive, by FrArchive of what the user is told and of what the archive
   comes to hold, and by FrListing of what he is shown of it, proved for every value of their
   constants.

   The two properties of FrArchive are about the end of a chain of scripts and transfers, so the
   inductive invariant says what every link of it must hold: what is still to be added, what is
   still to be sent, and, where no more is to be done, that the local copy is the archive.

   The four of FrListing are about the end of a listing.  Their invariant says, of each back end,
   what its line function must have after so many lines, and that the members whose lines it has
   read have their entries. *)
EXTENDS FrArchive, FrListing, SequenceTheorems, FiniteSetTheorems, WellFoundedInduction, TLAPS

----
(* The type of the record, and what one assignment to a field of it does. *)

ScriptActions == {"LISTING", "TESTING", "EXTRACTING", "ADDING", "DELETING"}
Sources == {"local", "temp", "nowhere"}
Scripts == [action : ScriptActions, items : SUBSET Items, from : Sources]

Kinds == {"load", "list", "copy_from", "upload", "copy_extracted"}
Transfers == [kind : Kinds, items : SUBSET Items, action : {"none", "ADDING", "DELETING"}]

Ends == ScriptActions \cup
        {"LOADING", "COPYING_FROM_REMOTE", "GETTING_FILE_LIST", "COPYING_TO_REMOTE"}
Told == {"nothing", "ADDING", "DELETING", "EXTRACTING"}

Archive ==
    [ remote : BOOLEAN, file : Contents, local : Contents, bound : BOOLEAN,
      continue : BOOLEAN, dropped : {None} \cup Seq(Items), temp_dir : BOOLEAN,
      remote_extraction : BOOLEAN, temp_extraction_dir : Contents,
      script : {None} \cup Scripts, transfer : {None} \cup Transfers,
      present : BOOLEAN, archive_new : BOOLEAN, activity_ref : Nat, crashed : BOOLEAN,
      empty : SUBSET Folders, wanted : Contents, inherited : BOOLEAN, told : Told ]

Fields == {"remote", "file", "local", "bound", "continue", "dropped", "temp_dir",
           "remote_extraction", "temp_extraction_dir", "script", "transfer", "present",
           "archive_new", "activity_ref", "crashed", "empty", "wanted", "inherited", "told"}

\* t is s but for the fields that may have changed.
Same(t, s, changed) == \A field \in Fields \ changed : t[field] = s[field]

\* t is s with one field changed to a value.
Updated(t, s, field, value) ==
    t \in Archive /\ t[field] = value /\ Same(t, s, {field})

LEMMA ScriptUpdates ==
    ASSUME NEW s \in Archive, NEW v \in Scripts \cup {None}
    PROVE  Updated([s EXCEPT !.script = v], s, "script", v)
BY DEF Archive, Updated, Same, Fields

LEMMA TransferUpdates ==
    ASSUME NEW s \in Archive, NEW v \in Transfers \cup {None}
    PROVE  Updated([s EXCEPT !.transfer = v], s, "transfer", v)
BY DEF Archive, Updated, Same, Fields

LEMMA RefUpdates ==
    ASSUME NEW s \in Archive, NEW v \in Nat
    PROVE  Updated([s EXCEPT !.activity_ref = v], s, "activity_ref", v)
BY DEF Archive, Updated, Same, Fields

LEMMA ContentUpdates ==
    ASSUME NEW s \in Archive, NEW v \in Contents
    PROVE  /\ Updated([s EXCEPT !.local = v], s, "local", v)
           /\ Updated([s EXCEPT !.file = v], s, "file", v)
           /\ Updated([s EXCEPT !.wanted = v], s, "wanted", v)
           /\ Updated([s EXCEPT !.temp_extraction_dir = v], s, "temp_extraction_dir", v)
<1>1. Updated([s EXCEPT !.local = v], s, "local", v) BY DEF Archive, Updated, Same, Fields
<1>2. Updated([s EXCEPT !.file = v], s, "file", v) BY DEF Archive, Updated, Same, Fields
<1>3. Updated([s EXCEPT !.wanted = v], s, "wanted", v) BY DEF Archive, Updated, Same, Fields
<1>4. Updated([s EXCEPT !.temp_extraction_dir = v], s, "temp_extraction_dir", v)
 BY DEF Archive, Updated, Same, Fields
<1> QED BY <1>1, <1>2, <1>3, <1>4

LEMMA FlagUpdates ==
    ASSUME NEW s \in Archive, NEW v \in BOOLEAN
    PROVE  /\ Updated([s EXCEPT !.bound = v], s, "bound", v)
           /\ Updated([s EXCEPT !.continue = v], s, "continue", v)
           /\ Updated([s EXCEPT !.temp_dir = v], s, "temp_dir", v)
           /\ Updated([s EXCEPT !.remote_extraction = v], s, "remote_extraction", v)
           /\ Updated([s EXCEPT !.present = v], s, "present", v)
           /\ Updated([s EXCEPT !.archive_new = v], s, "archive_new", v)
           /\ Updated([s EXCEPT !.crashed = v], s, "crashed", v)
           /\ Updated([s EXCEPT !.inherited = v], s, "inherited", v)
<1>1. Updated([s EXCEPT !.bound = v], s, "bound", v) BY DEF Archive, Updated, Same, Fields
<1>2. Updated([s EXCEPT !.continue = v], s, "continue", v) BY DEF Archive, Updated, Same, Fields
<1>3. Updated([s EXCEPT !.temp_dir = v], s, "temp_dir", v) BY DEF Archive, Updated, Same, Fields
<1>4. Updated([s EXCEPT !.remote_extraction = v], s, "remote_extraction", v)
 BY DEF Archive, Updated, Same, Fields
<1>5. Updated([s EXCEPT !.present = v], s, "present", v) BY DEF Archive, Updated, Same, Fields
<1>6. Updated([s EXCEPT !.archive_new = v], s, "archive_new", v)
 BY DEF Archive, Updated, Same, Fields
<1>7. Updated([s EXCEPT !.crashed = v], s, "crashed", v) BY DEF Archive, Updated, Same, Fields
<1>8. Updated([s EXCEPT !.inherited = v], s, "inherited", v) BY DEF Archive, Updated, Same, Fields
<1> QED BY <1>1, <1>2, <1>3, <1>4, <1>5, <1>6, <1>7, <1>8

LEMMA DroppedUpdates ==
    ASSUME NEW s \in Archive, NEW v \in {None} \cup Seq(Items)
    PROVE  Updated([s EXCEPT !.dropped = v], s, "dropped", v)
BY DEF Archive, Updated, Same, Fields

LEMMA ToldUpdates ==
    ASSUME NEW s \in Archive, NEW v \in Told
    PROVE  Updated([s EXCEPT !.told = v], s, "told", v)
BY DEF Archive, Updated, Same, Fields

LEMMA SameTrans ==
    ASSUME NEW s, NEW t, NEW u, NEW F, NEW G, Same(t, s, F), Same(u, t, G)
    PROVE  Same(u, s, F \cup G)
BY DEF Same

----
(* What the model's operators do to the record. *)

LEMMA StartActivityUpdates ==
    ASSUME NEW s \in Archive
    PROVE  Updated(StartActivity(s), s, "activity_ref", s.activity_ref + 1)
<1> QED BY RefUpdates DEF Archive, StartActivity

LEMMA StartScriptUpdates ==
    ASSUME NEW s \in Archive, NEW action \in ScriptActions,
           NEW items \in SUBSET Items, NEW from \in Sources
    PROVE  LET t == StartScript(s, action, items, from)
           IN  /\ t \in Archive /\ Same(t, s, {"script", "activity_ref"})
               /\ t.activity_ref = s.activity_ref + 1
               /\ t.script = [action |-> action, items |-> items, from |-> from]
<1> DEFINE v == [action |-> action, items |-> items, from |-> from]
           u == StartActivity(s)
           t == [u EXCEPT !.script = v]
<1>1. v \in Scripts BY DEF Scripts
<1>2. StartScript(s, action, items, from) = t BY DEF StartScript
<1>3. Updated(u, s, "activity_ref", s.activity_ref + 1) BY StartActivityUpdates
<1> HIDE DEF v, u
<1>4. u \in Archive BY <1>3 DEF Updated
<1>5. Updated(t, u, "script", v) BY <1>1, <1>4, ScriptUpdates
<1> HIDE DEF t
<1>6. t.activity_ref = u.activity_ref BY <1>5 DEF Updated, Same, Fields
<1>7. Same(t, s, {"script", "activity_ref"}) BY <1>3, <1>5 DEF Updated, Same
<1> QED BY <1>2, <1>3, <1>5, <1>6, <1>7 DEF Updated, v

LEMMA StartTransferUpdates ==
    ASSUME NEW s \in Archive, NEW kind \in Kinds, NEW items \in SUBSET Items,
           NEW action \in {"none", "ADDING", "DELETING"}
    PROVE  Updated(StartTransfer(s, kind, items, action), s, "transfer",
                   [kind |-> kind, items |-> items, action |-> action])
<1> QED BY TransferUpdates DEF Transfers, StartTransfer

LEMMA SetUriUpdates ==
    ASSUME NEW s \in Archive
    PROVE  LET t == SetUri(s)
           IN  /\ t \in Archive /\ Same(t, s, {"local", "bound"})
               /\ s.remote => t.local = None /\ t.bound = FALSE
               /\ ~s.remote => t = s
<1>1. CASE s.remote
 <2> DEFINE u == [s EXCEPT !.local = None]
            t == [u EXCEPT !.bound = FALSE]
 <2>1. Updated(u, s, "local", None) BY ContentUpdates DEF Contents
 <2>2. SetUri(s) = t BY <1>1 DEF SetUri
 <2> HIDE DEF u
 <2>3. Updated(t, u, "bound", FALSE) BY <2>1, FlagUpdates DEF Updated
 <2> HIDE DEF t
 <2>4. t.local = u.local BY <2>3 DEF Updated, Same, Fields
 <2>5. Same(t, s, {"local", "bound"}) BY <2>1, <2>3 DEF Updated, Same
 <2> QED BY <1>1, <2>1, <2>2, <2>3, <2>4, <2>5 DEF Updated
<1>2. CASE ~s.remote BY <1>2 DEF SetUri, Same
<1> QED BY <1>1, <1>2

LEMMA LoadUpdates ==
    ASSUME NEW s \in Archive
    PROVE  LET t == Load(s)
           IN  /\ t \in Archive
               /\ Same(t, s, {"activity_ref", "local", "bound", "transfer"})
               /\ t.activity_ref = s.activity_ref + 1
               /\ s.remote => t.local = None /\ t.bound = FALSE
               /\ ~s.remote => t.local = s.local /\ t.bound = s.bound
               /\ t.transfer.kind = "load"
<1> DEFINE a == StartActivity(s)
           b == SetUri(a)
           t == StartTransfer(b, "load", {}, "none")
<1>0. Load(s) = t BY DEF Load
<1>1. Updated(a, s, "activity_ref", s.activity_ref + 1) BY StartActivityUpdates
<1> HIDE DEF a
<1>2. a \in Archive BY <1>1 DEF Updated
<1>3. /\ b \in Archive /\ Same(b, a, {"local", "bound"})
      /\ a.remote => b.local = None /\ b.bound = FALSE
      /\ ~a.remote => b = a
 BY <1>2, SetUriUpdates
<1> HIDE DEF b
<1>4. Updated(t, b, "transfer", [kind |-> "load", items |-> {}, action |-> "none"])
 BY <1>3, StartTransferUpdates DEF Kinds
<1> HIDE DEF t
<1>5. t \in Archive /\ t.transfer.kind = "load" BY <1>4 DEF Updated
<1>6. Same(t, s, {"activity_ref", "local", "bound", "transfer"})
 BY <1>1, <1>3, <1>4 DEF Updated, Same
<1>7. /\ t.activity_ref = b.activity_ref /\ b.activity_ref = a.activity_ref
      /\ t.local = b.local /\ t.bound = b.bound
      /\ a.remote = s.remote /\ a.local = s.local /\ a.bound = s.bound
 BY <1>1, <1>3, <1>4 DEF Updated, Same, Fields
<1>8. a.activity_ref = s.activity_ref + 1 BY <1>1 DEF Updated
<1> QED BY <1>0, <1>3, <1>5, <1>6, <1>7, <1>8

LEMMA TellUpdates ==
    ASSUME NEW s \in Archive, NEW action \in Ends, NEW failed \in BOOLEAN
    PROVE  LET t == Tell(s, action, failed)
           IN  /\ t \in Archive /\ Same(t, s, {"activity_ref", "told"})
               /\ t.told = IF ~failed /\ action \in {"ADDING", "DELETING", "EXTRACTING"}
                           THEN action ELSE s.told
<1> DEFINE ref == IF s.activity_ref = 0 THEN 0 ELSE s.activity_ref - 1
           told == IF ~failed /\ action \in {"ADDING", "DELETING", "EXTRACTING"}
                   THEN action ELSE s.told
           u == [s EXCEPT !.activity_ref = ref]
           t == [u EXCEPT !.told = told]
<1>1. ref \in Nat /\ told \in Told BY DEF Archive, Told
<1>2. Updated(u, s, "activity_ref", ref) BY <1>1, RefUpdates
<1>3. u.told = s.told BY <1>2 DEF Updated, Same, Fields
<1>4. Tell(s, action, failed) = t BY <1>3 DEF Tell, StopActivity
<1> HIDE DEF u, ref, told
<1>5. Updated(t, u, "told", told) BY <1>1, <1>2, ToldUpdates DEF Updated
<1> HIDE DEF t
<1>6. Same(t, s, {"activity_ref", "told"}) BY <1>2, <1>5 DEF Updated, Same
<1> QED BY <1>4, <1>5, <1>6 DEF Updated, told

LEMMA CloseUpdates ==
    ASSUME NEW s \in Archive, NEW present \in BOOLEAN
    PROVE  LET t == [s EXCEPT !.present = present, !.archive_new = FALSE]
           IN  /\ t \in Archive /\ Same(t, s, {"present", "archive_new"})
               /\ t.archive_new = FALSE
<1> DEFINE u == [s EXCEPT !.present = present]
           t == [u EXCEPT !.archive_new = FALSE]
<1>1. Updated(u, s, "present", present) BY FlagUpdates
<1> HIDE DEF u
<1>2. Updated(t, u, "archive_new", FALSE) BY <1>1, FlagUpdates DEF Updated
<1> HIDE DEF t
<1>3. Same(t, s, {"present", "archive_new"}) BY <1>1, <1>2 DEF Updated, Same
<1>4. t \in Archive /\ t.archive_new = FALSE BY <1>2 DEF Updated
<1> QED BY <1>3, <1>4 DEF t, u

----
(* The inductive invariant. *)

\* The local copy is what the archive holds, or is not there, and then nothing can change it.
Synced(s) == s.local = s.file \/ ~s.bound
SyncedUnless(s) == s.archive_new \/ s.continue \/ Synced(s)

\* Of what is asked for, items are still to be added to the local copy.
Pending(s, items) ==
    /\ s.told = "nothing"
    /\ s.inherited \/ Held(s.local) \cup items \subseteq Held(s.wanted)
    /\ ~s.continue /\ s.bound => Held(s.wanted) \subseteq Held(s.local) \cup items

\* Items are still to be removed from the local copy.
Removing(s, items) ==
    /\ s.told = "nothing"
    /\ s.continue => s.inherited
    /\ ~s.continue /\ s.bound => Held(s.local) \ items = Held(s.wanted)

\* A content is what was asked for.
IsWanted(s, content) ==
    /\ ~s.continue => Held(s.wanted) \subseteq Held(content)
    /\ s.inherited \/ Held(content) \subseteq Held(s.wanted)

\* The local copy is still to be sent.
Sending(s, action) ==
    /\ s.told = "nothing" /\ IsWanted(s, s.local)
    /\ action \in {"ADDING", "DELETING"} /\ (action = "DELETING" => ~s.archive_new)

\* What a script finds when it runs, and a transfer when it ends.
ScriptFinds(s, action, items, from) ==
    \/ action = "ADDING" /\ (from = "nowhere" \/ Pending(s, items))
    \/ action = "DELETING" /\ Removing(s, items) /\ ~s.archive_new
    \/ action = "LISTING" /\ Synced(s)
    \/ action \in {"TESTING", "EXTRACTING"} /\ SyncedUnless(s)

TransferFinds(s, kind, items, action) ==
    \/ kind = "load" /\ Synced(s)
    \/ kind = "list" /\ Pending(s, items \ s.empty) /\ SyncedUnless(s)
    \/ kind = "copy_from" /\ Pending(s, items) /\ SyncedUnless(s)
    \/ kind = "upload" /\ Sending(s, action)
    \/ kind = "copy_extracted" /\ SyncedUnless(s)

\* A local archive is its own copy; without a name the command has no copy; a new
\* remote archive is nowhere yet; what is left of the dropped items was asked for.
InPlace(s) == ~s.remote => s.local = s.file
NamedCopy(s) == ~s.bound => s.local = None
NewIsNowhere(s) == s.archive_new /\ s.remote => s.file = None
DroppedWanted(s) ==
    s.continue /\ ~s.inherited /\ s.dropped # None =>
      ToSet(s.dropped) \ s.empty \subseteq Held(s.wanted)

SavedWhenTold(s) ==
    s.told \in {"ADDING", "DELETING"} /\ ~s.continue => 
      /\ Held(s.wanted) \subseteq Held(s.file)
      /\ s.inherited \/ Held(s.file) \subseteq Held(s.wanted)

Base(s) ==
    InPlace(s) /\ NamedCopy(s) /\ NewIsNowhere(s) /\ DroppedWanted(s) /\ SavedWhenTold(s)

\* Nothing is under way, and it can be asked for more only if nothing is left over.
Resting(s) == s.script = None /\ s.transfer = None
Calm(s) == s.activity_ref = 0 /\ ~s.crashed => SyncedUnless(s)

Sound(s) ==
    /\ s \in Archive /\ Base(s) /\ Calm(s)
    /\ s.script # None =>
         /\ s.transfer = None /\ s.activity_ref # 0
         /\ ScriptFinds(s, s.script.action, s.script.items, s.script.from)
    /\ s.transfer # None =>
         /\ s.activity_ref # 0
         /\ TransferFinds(s, s.transfer.kind, s.transfer.items, s.transfer.action)

ArchiveInv == Sound(fr)

\* What no handler of an end changes, but for the archive itself.
Request(t, s) == t.file = s.file /\ t.wanted = s.wanted /\ t.inherited = s.inherited

----
(* Starting a script or a transfer, and telling of an end. *)

LEMMA HeldIs == \A content \in SUBSET Items : Held(content) = content
BY ArchiveAssumption DEF Held

\* What the invariant does not say anything of.
Aside == {"activity_ref", "crashed", "present", "temp_dir", "remote_extraction",
          "temp_extraction_dir"}

LEMMA AsideKeeps ==
    ASSUME NEW s, NEW t, Same(t, s, Aside)
    PROVE  /\ Base(s) => Base(t)
           /\ Resting(s) => Resting(t)
           /\ Synced(s) => Synced(t)
           /\ SyncedUnless(s) => SyncedUnless(t)
           /\ \A items : Pending(s, items) => Pending(t, items)
           /\ Request(t, s)
           /\ t.told = s.told /\ t.local = s.local /\ t.bound = s.bound
           /\ t.continue = s.continue /\ t.dropped = s.dropped /\ t.empty = s.empty
<1>1. /\ t.remote = s.remote /\ t.file = s.file /\ t.local = s.local /\ t.bound = s.bound
      /\ t.continue = s.continue /\ t.dropped = s.dropped /\ t.archive_new = s.archive_new
      /\ t.empty = s.empty /\ t.wanted = s.wanted /\ t.inherited = s.inherited
      /\ t.told = s.told /\ t.script = s.script /\ t.transfer = s.transfer
 BY DEF Same, Fields, Aside
<1>2. Base(s) => Base(t)
 BY <1>1 DEF Base, InPlace, NamedCopy, NewIsNowhere, DroppedWanted, SavedWhenTold
<1>3. \A items : Pending(s, items) => Pending(t, items) BY <1>1 DEF Pending
<1> QED BY <1>1, <1>2, <1>3 DEF Resting, Synced, SyncedUnless, Request

\* A script is started when what it will find is there.
LEMMA ScriptStarts ==
    ASSUME NEW s \in Archive, Base(s), Resting(s),
           NEW action \in ScriptActions, NEW items \in SUBSET Items, NEW from \in Sources,
           ScriptFinds(s, action, items, from)
    PROVE  LET t == StartScript(s, action, items, from) IN Sound(t) /\ Request(t, s)
<1> DEFINE t == StartScript(s, action, items, from)
<1>1. /\ t \in Archive /\ Same(t, s, {"script", "activity_ref"})
      /\ t.activity_ref = s.activity_ref + 1
      /\ t.script = [action |-> action, items |-> items, from |-> from]
 BY StartScriptUpdates
<1> HIDE DEF t
<1>2. /\ t.remote = s.remote /\ t.file = s.file /\ t.local = s.local /\ t.bound = s.bound
      /\ t.continue = s.continue /\ t.dropped = s.dropped /\ t.archive_new = s.archive_new
      /\ t.empty = s.empty /\ t.wanted = s.wanted /\ t.inherited = s.inherited
      /\ t.told = s.told /\ t.transfer = s.transfer
 BY <1>1 DEF Same, Fields
<1>3. t.activity_ref # 0 BY <1>1 DEF Archive
<1>4. Base(t) BY <1>2 DEF Base, InPlace, NamedCopy, NewIsNowhere, DroppedWanted, SavedWhenTold
<1>5. ScriptFinds(t, action, items, from)
 BY <1>2 DEF ScriptFinds, Pending, Removing, Synced, SyncedUnless
<1>6. /\ t.script.action = action /\ t.script.items = items /\ t.script.from = from BY <1>1
<1> QED BY <1>1, <1>2, <1>3, <1>4, <1>5, <1>6 DEF Sound, Resting, Calm, Request, t

LEMMA TransferStarts ==
    ASSUME NEW s \in Archive, Base(s), Resting(s), s.activity_ref # 0,
           NEW kind \in Kinds, NEW items \in SUBSET Items,
           NEW action \in {"none", "ADDING", "DELETING"},
           TransferFinds(s, kind, items, action)
    PROVE  LET t == StartTransfer(s, kind, items, action) IN Sound(t) /\ Request(t, s)
<1> DEFINE t == StartTransfer(s, kind, items, action)
           v == [kind |-> kind, items |-> items, action |-> action]
<1>1. Updated(t, s, "transfer", v) BY StartTransferUpdates
<1> HIDE DEF t
<1>2. /\ t.remote = s.remote /\ t.file = s.file /\ t.local = s.local /\ t.bound = s.bound
      /\ t.continue = s.continue /\ t.dropped = s.dropped /\ t.archive_new = s.archive_new
      /\ t.empty = s.empty /\ t.wanted = s.wanted /\ t.inherited = s.inherited
      /\ t.told = s.told /\ t.script = s.script /\ t.activity_ref = s.activity_ref
 BY <1>1 DEF Updated, Same, Fields
<1>3. t \in Archive BY <1>1 DEF Updated
<1>4. Base(t) BY <1>2 DEF Base, InPlace, NamedCopy, NewIsNowhere, DroppedWanted, SavedWhenTold
<1>5. TransferFinds(t, kind, items, action)
 BY <1>2 DEF TransferFinds, Pending, Sending, IsWanted, Synced, SyncedUnless
<1>6. /\ t.transfer.kind = kind /\ t.transfer.items = items /\ t.transfer.action = action
 BY <1>1 DEF Updated
<1> QED BY <1>2, <1>3, <1>4, <1>5, <1>6 DEF Sound, Resting, Calm, Request, t

LEMMA LoadStarts ==
    ASSUME NEW s \in Archive, Base(s), s.script = None
    PROVE  Sound(Load(s)) /\ Request(Load(s), s)
<1> DEFINE t == Load(s)
<1>1. /\ t \in Archive
      /\ Same(t, s, {"activity_ref", "local", "bound", "transfer"})
      /\ t.activity_ref = s.activity_ref + 1
      /\ s.remote => t.local = None /\ t.bound = FALSE
      /\ ~s.remote => t.local = s.local /\ t.bound = s.bound
      /\ t.transfer.kind = "load"
 BY LoadUpdates
<1> HIDE DEF t
<1>2. /\ t.remote = s.remote /\ t.file = s.file
      /\ t.continue = s.continue /\ t.dropped = s.dropped /\ t.archive_new = s.archive_new
      /\ t.empty = s.empty /\ t.wanted = s.wanted /\ t.inherited = s.inherited
      /\ t.told = s.told /\ t.script = s.script
 BY <1>1 DEF Same, Fields
<1>3. t.activity_ref # 0 BY <1>1 DEF Archive
<1>4. Base(t) BY <1>1, <1>2 DEF Base, InPlace, NamedCopy, NewIsNowhere, DroppedWanted, SavedWhenTold
<1>5. Synced(t) BY <1>1, <1>2 DEF Base, InPlace, Synced
<1> QED BY <1>1, <1>2, <1>3, <1>4, <1>5 DEF Sound, Calm, Request, TransferFinds, t

LEMMA ReloadKeeps ==
    ASSUME NEW s \in Archive, Base(s), Resting(s)
    PROVE  Sound(Reload(s)) /\ Request(Reload(s), s)
<1>1. CASE s.activity_ref > 0 \/ s.archive_new
 <2>1. Reload(s) = s BY <1>1 DEF Reload
 <2>2. Calm(s) BY <1>1 DEF Calm, SyncedUnless, Archive
 <2> QED BY <2>1, <2>2 DEF Sound, Resting, Request
<1>2. CASE ~(s.activity_ref > 0 \/ s.archive_new) BY <1>2, LoadStarts DEF Reload, Resting
<1> QED BY <1>1, <1>2

\* The window is told of an end; it reloads the archive after a change of it.
LEMMA WindowTold ==
    ASSUME NEW s \in Archive, NEW action \in Ends, NEW failed \in BOOLEAN, Resting(s),
           InPlace(s) /\ NamedCopy(s) /\ DroppedWanted(s) /\ SavedWhenTold(s),
           NewIsNowhere(s) \/ (action = "ADDING" /\ ~failed),
           action \notin {"ADDING", "DELETING"} => SyncedUnless(s),
           action = "LISTING" => Synced(s),
           ~failed /\ action \in {"ADDING", "DELETING"} => s.continue \/ IsWanted(s, s.file)
    PROVE  LET t == WindowDone(s, action, failed) IN Sound(t) /\ Request(t, s)
<1> DEFINE t == Tell(s, action, failed)
<1>1. /\ t \in Archive /\ Same(t, s, {"activity_ref", "told"})
      /\ t.told = IF ~failed /\ action \in {"ADDING", "DELETING", "EXTRACTING"}
                  THEN action ELSE s.told
 BY TellUpdates
<1>w. WindowDone(s, action, failed) =
      CASE action = "LISTING" -> IF failed THEN Close(t) ELSE Show(t)
        [] action = "DELETING" -> Reload(t)
        [] action = "ADDING" -> Reload(IF failed THEN t ELSE [t EXCEPT !.archive_new = FALSE])
        [] OTHER -> t
  BY DEF WindowDone
<1> HIDE DEF t
<1>2. /\ t.remote = s.remote /\ t.file = s.file /\ t.local = s.local /\ t.bound = s.bound
      /\ t.continue = s.continue /\ t.dropped = s.dropped /\ t.archive_new = s.archive_new
      /\ t.empty = s.empty /\ t.wanted = s.wanted /\ t.inherited = s.inherited
      /\ t.script = s.script /\ t.transfer = s.transfer
 BY <1>1 DEF Same, Fields
<1>3. InPlace(t) /\ NamedCopy(t) /\ DroppedWanted(t) /\ (NewIsNowhere(s) => NewIsNowhere(t))
 BY <1>2 DEF InPlace, NamedCopy, NewIsNowhere, DroppedWanted
<1>4. SavedWhenTold(t)
 <2>1. CASE ~failed /\ action \in {"ADDING", "DELETING", "EXTRACTING"}
  BY <1>1, <1>2, <2>1 DEF SavedWhenTold, IsWanted
 <2>2. CASE ~(~failed /\ action \in {"ADDING", "DELETING", "EXTRACTING"})
  <3>1. t.told = s.told BY <1>1, <2>2
  <3> QED BY <3>1, <1>2 DEF SavedWhenTold
 <2> QED BY <2>1, <2>2
<1>5. (action # "ADDING" \/ failed => Base(t)) /\ Resting(t) /\ Request(t, s)
 BY <1>2, <1>3, <1>4 DEF Base, Resting, Request
<1>6. CASE action = "LISTING"
 <2> DEFINE u == IF failed THEN Close(t) ELSE Show(t)
 <2>0. WindowDone(s, action, failed) = u BY <1>6, <1>w
 <2>1. u \in Archive /\ Same(u, t, {"present", "archive_new"})
       /\ (u.archive_new = t.archive_new \/ u.archive_new = FALSE)
  BY <1>1, CloseUpdates DEF Close, Show, Same
 <2> HIDE DEF u
 <2>2. /\ u.remote = t.remote /\ u.file = t.file /\ u.local = t.local /\ u.bound = t.bound
       /\ u.continue = t.continue /\ u.dropped = t.dropped
       /\ u.empty = t.empty /\ u.wanted = t.wanted /\ u.inherited = t.inherited
       /\ u.told = t.told /\ u.script = t.script /\ u.transfer = t.transfer
  BY <2>1 DEF Same, Fields
 <2>3. Base(u)
  BY <1>5, <1>6, <2>1, <2>2 DEF Base, InPlace, NamedCopy, NewIsNowhere, DroppedWanted,
                                SavedWhenTold
 <2>4. Calm(u) BY <1>2, <1>6, <2>2 DEF Calm, SyncedUnless, Synced
 <2> QED BY <1>5, <2>0, <2>1, <2>2, <2>3, <2>4 DEF Sound, Resting, Request
<1>7. CASE action = "DELETING" BY <1>1, <1>5, <1>7, <1>w, ReloadKeeps DEF Request
<1>8. CASE action = "ADDING" /\ failed
 <2>1. WindowDone(s, action, failed) = Reload(t) BY <1>8, <1>w
 <2> QED BY <1>1, <1>5, <1>8, <2>1, ReloadKeeps DEF Request
<1>9. CASE action = "ADDING" /\ ~failed
 <2> DEFINE u == [t EXCEPT !.archive_new = FALSE]
 <2>0. WindowDone(s, action, failed) = Reload(u) BY <1>9, <1>w
 <2>1. Updated(u, t, "archive_new", FALSE) BY <1>1, FlagUpdates
 <2> HIDE DEF u
 <2>2. /\ u.remote = t.remote /\ u.file = t.file /\ u.local = t.local /\ u.bound = t.bound
       /\ u.continue = t.continue /\ u.dropped = t.dropped /\ u.archive_new = FALSE
       /\ u.empty = t.empty /\ u.wanted = t.wanted /\ u.inherited = t.inherited
       /\ u.told = t.told /\ u.script = t.script /\ u.transfer = t.transfer
  BY <2>1 DEF Updated, Same, Fields
 <2>3. u \in Archive BY <2>1 DEF Updated
 <2>4. Base(u) /\ Resting(u) /\ Request(u, s)
  BY <1>3, <1>4, <1>5, <2>2 DEF Base, InPlace, NamedCopy, NewIsNowhere, DroppedWanted, SavedWhenTold,
                    Resting, Request
 <2> QED BY <2>0, <2>3, <2>4, ReloadKeeps DEF Request
<1>10. CASE action \notin {"LISTING", "DELETING", "ADDING"}
 <2>1. WindowDone(s, action, failed) = t BY <1>10, <1>w
 <2>2. Calm(t) BY <1>2, <1>10 DEF Calm, SyncedUnless, Synced
 <2> QED BY <1>1, <1>5, <1>10, <2>1, <2>2 DEF Sound, Resting
<1> QED BY <1>6, <1>7, <1>8, <1>9, <1>10

LEMMA WindowDoneKeeps ==
    ASSUME NEW s \in Archive, Base(s), Resting(s), NEW action \in Ends, NEW failed \in BOOLEAN,
           action \notin {"ADDING", "DELETING"} => SyncedUnless(s),
           action = "LISTING" => Synced(s),
           ~failed /\ action \in {"ADDING", "DELETING"} => s.continue \/ IsWanted(s, s.file)
    PROVE  LET t == WindowDone(s, action, failed) IN Sound(t) /\ Request(t, s)
BY WindowTold DEF Base

\* An end that the window has only to tell of.
LEMMA OnlyTold ==
    ASSUME NEW s \in Archive, NEW failed \in BOOLEAN,
           NEW action \in Ends \ {"LISTING", "ADDING", "DELETING", "EXTRACTING"}
    PROVE  LET t == WindowDone(s, action, failed) IN t \in Archive /\ Same(t, s, Aside)
<1> DEFINE t == Tell(s, action, failed)
<1>1. WindowDone(s, action, failed) = t BY DEF WindowDone
<1>2. t \in Archive /\ Same(t, s, {"activity_ref", "told"}) /\ t.told = s.told BY TellUpdates
<1> QED BY <1>1, <1>2 DEF Same, Aside

----
(* Adding. *)

LEMMA AddFilesKeeps ==
    ASSUME NEW s \in Archive, Base(s), Resting(s), SyncedUnless(s),
           NEW items \in SUBSET Items, Pending(s, items),
           NEW place, NEW made \in BOOLEAN
    PROVE  LET t == AddFiles(s, items, place, made) IN Sound(t) /\ Request(t, s)
<1>1. CASE place \notin RemotePlaces
 <2>1. ScriptFinds(s, "ADDING", items, "local") BY DEF ScriptFinds
 <2> QED BY <1>1, <2>1, ScriptStarts DEF AddFiles, ScriptActions, Sources
<1>2. CASE place \in RemotePlaces
 <2> DEFINE t == [s EXCEPT !.temp_dir = TRUE]
 <2>1. Updated(t, s, "temp_dir", TRUE) BY FlagUpdates
 <2>w. AddFiles(s, items, place, made) =
        IF made THEN StartTransfer(StartActivity(t), "copy_from", items, "none")
        ELSE WindowDone(t, "COPYING_FROM_REMOTE", TRUE)
  BY <1>2 DEF AddFiles, CopyRemoteFiles
 <2> HIDE DEF t
 <2>3. t \in Archive /\ Same(t, s, Aside) BY <2>1 DEF Updated, Same, Aside
 <2>4. Base(t) /\ Resting(t) /\ SyncedUnless(t) /\ Pending(t, items) /\ Request(t, s)
  BY <2>3, AsideKeeps
 <2>5. CASE ~made
  <3>1. LET u == WindowDone(t, "COPYING_FROM_REMOTE", TRUE) IN Sound(u) /\ Request(u, t)
   BY <2>3, <2>4, WindowDoneKeeps DEF Ends
  <3> QED BY <2>4, <2>5, <2>w, <3>1 DEF Request
 <2>6. CASE made
  <3> DEFINE u == StartActivity(t)
  <3>1. Updated(u, t, "activity_ref", t.activity_ref + 1) BY <2>3, StartActivityUpdates
  <3> HIDE DEF u
  <3>2. Same(u, t, Aside) BY <3>1 DEF Updated, Same, Aside
  <3>3. u \in Archive /\ u.activity_ref # 0 BY <2>3, <3>1 DEF Updated, Archive
  <3>4. Base(u) /\ Resting(u) /\ SyncedUnless(u) /\ Pending(u, items) /\ Request(u, t)
   BY <2>4, <3>2, AsideKeeps
  <3>5. TransferFinds(u, "copy_from", items, "none") BY <3>4 DEF TransferFinds
  <3>6. LET v == StartTransfer(u, "copy_from", items, "none") IN Sound(v) /\ Request(v, u)
   BY <3>3, <3>4, <3>5, TransferStarts DEF Kinds
  <3> QED BY <2>4, <2>6, <2>w, <3>4, <3>6 DEF Request, u
 <2> QED BY <2>5, <2>6
<1> QED BY <1>1, <1>2

LEMMA AddItemsKeeps ==
    ASSUME NEW s \in Archive, Base(s), Resting(s), SyncedUnless(s),
           NEW items \in SUBSET Items, Pending(s, items \ s.empty)
    PROVE  LET t == AddItems(s, items) IN Sound(t) /\ Request(t, s)
<1> DEFINE u == StartActivity(s)
<1>1. Updated(u, s, "activity_ref", s.activity_ref + 1) BY StartActivityUpdates
<1> HIDE DEF u
<1>2. Same(u, s, Aside) BY <1>1 DEF Updated, Same, Aside
<1>3. u \in Archive /\ u.activity_ref # 0 BY <1>1 DEF Updated, Archive
<1>4. /\ Base(u) /\ Resting(u) /\ SyncedUnless(u) /\ Pending(u, items \ u.empty)
      /\ Request(u, s)
 BY <1>2, AsideKeeps
<1>5. TransferFinds(u, "list", items, "none") BY <1>4 DEF TransferFinds
<1>6. LET v == StartTransfer(u, "list", items, "none") IN Sound(v) /\ Request(v, u)
 BY <1>3, <1>4, <1>5, TransferStarts DEF Kinds
<1> QED BY <1>4, <1>6 DEF AddItems, Request, u

\* Nothing under way reads the dropped items: to forget them, or all of them, keeps the invariant.
LEMMA DroppedForgotten ==
    ASSUME NEW s, Sound(s), NEW dropped \in {None, <<>>}
    PROVE  LET t == [s EXCEPT !.dropped = dropped] IN Sound(t) /\ Request(t, s)
<1> DEFINE t == [s EXCEPT !.dropped = dropped]
<1>0. s \in Archive BY DEF Sound
<1>e. dropped \in {None} \cup Seq(Items) BY EmptySeq
<1>1. Updated(t, s, "dropped", dropped) BY <1>0, <1>e, DroppedUpdates
<1> HIDE DEF t
<1>2. /\ t.remote = s.remote /\ t.file = s.file /\ t.local = s.local /\ t.bound = s.bound
      /\ t.continue = s.continue /\ t.archive_new = s.archive_new
      /\ t.empty = s.empty /\ t.wanted = s.wanted /\ t.inherited = s.inherited
      /\ t.told = s.told /\ t.script = s.script /\ t.transfer = s.transfer
      /\ t.activity_ref = s.activity_ref /\ t.crashed = s.crashed
 BY <1>1 DEF Updated, Same, Fields
<1>3. t \in Archive /\ t.dropped = dropped BY <1>1 DEF Updated
<1>4. DroppedWanted(t)
 <2>1. ToSet(<<>>) = {} BY DEF ToSet
 <2> QED BY <1>3, <2>1 DEF DroppedWanted
<1>5. Base(t) BY <1>2, <1>4 DEF Sound, Base, InPlace, NamedCopy, NewIsNowhere, SavedWhenTold
<1>6. Calm(t) BY <1>2 DEF Sound, Calm, SyncedUnless, Synced
<1>7. t.script # None =>
        ScriptFinds(t, t.script.action, t.script.items, t.script.from)
 BY <1>2 DEF Sound, ScriptFinds, Pending, Removing, SyncedUnless, Synced
<1>8. t.transfer # None =>
        TransferFinds(t, t.transfer.kind, t.transfer.items, t.transfer.action)
 BY <1>2 DEF Sound, TransferFinds, Pending, Sending, IsWanted, SyncedUnless, Synced
<1> QED BY <1>2, <1>3, <1>5, <1>6, <1>7, <1>8 DEF Sound, Request, t

LEMMA FirstFolderIsOne ==
    ASSUME NEW list \in Seq(Items), FirstFolder(list) # 0
    PROVE  FirstFolder(list) \in 1..Len(list)
<1> DEFINE I == {i \in 1..Len(list) : list[i] \in Folders}
<1>1. FirstFolder(list) = IF I # {} THEN Min(I) ELSE 0 BY DEF FirstFolder, SelectInSeq
<1>2. I # {} BY <1>1
<1>3. I \subseteq Nat OBVIOUS
<1>4. \E x \in I : \A y \in I : x <= y
 <2> HIDE DEF I
 <2>1. \E x \in I : \A y \in I : ~ (<<y, x>> \in OpToRel(<, Nat))
  BY <1>2, <1>3, NatLessThanWellFounded, WFMin
 <2>2. \A x, y \in Nat : y < x => <<y, x>> \in OpToRel(<, Nat) BY DEF OpToRel
 <2>3. PICK x \in I : \A y \in I : ~ (<<y, x>> \in OpToRel(<, Nat)) BY <2>1
 <2>4. \A y \in I : ~(y < x) BY <1>3, <2>2, <2>3
 <2>5. x \in Nat /\ \A y \in I : y \in Nat BY <1>3
 <2> QED BY <2>4, <2>5
<1>5. Min(I) \in I
 <2> HIDE DEF I
 <2> QED BY <1>4 DEF Min
<1> QED BY <1>1, <1>2, <1>5

LEMMA RemoveAtKeeps ==
    ASSUME NEW list \in Seq(Items), NEW i \in 1..Len(list)
    PROVE  RemoveAt(list, i) \in Seq(Items) /\ ToSet(RemoveAt(list, i)) \subseteq ToSet(list)
<1> DEFINE S == {list[j] : j \in 1..Len(list)}
           a == SubSeq(list, 1, i - 1)
           b == SubSeq(list, i + 1, Len(list))
<1>1. S \subseteq Items /\ ToSet(list) = S BY DEF ToSet
<1>2. a \in Seq(S)
 <2>1. \A j \in 1..(i - 1) : list[j] \in S OBVIOUS
 <2> HIDE DEF S
 <2> QED BY <2>1, SubSeqProperties
<1>3. b \in Seq(S)
 <2>1. \A j \in (i + 1)..Len(list) : list[j] \in S OBVIOUS
 <2> HIDE DEF S
 <2> QED BY <2>1, SubSeqProperties
<1> HIDE DEF S, a, b
<1>4. a \o b \in Seq(S) BY <1>2, <1>3, ConcatProperties
<1>5. a \o b \in Seq(Items) /\ ToSet(a \o b) \subseteq S BY <1>1, <1>4 DEF ToSet
<1> QED BY <1>1, <1>5 DEF RemoveAt, a, b

\* add_dropped_items, when what is left of the dropped items is to be added.
LEMMA AddDroppedKeeps ==
    ASSUME NEW s \in Archive, Base(s), Resting(s), SyncedUnless(s),
           s.dropped # None => Pending(s, ToSet(s.dropped) \ s.empty),
           s.dropped = <<>> => s.continue
    PROVE  LET t == AddDroppedItems(s) IN Sound(t) /\ Request(t, s)
<1> DEFINE list == s.dropped
<1>1. CASE list = None
 <2> DEFINE t == [s EXCEPT !.crashed = TRUE]
 <2>1. AddDroppedItems(s) = t BY <1>1 DEF AddDroppedItems
 <2>2. Updated(t, s, "crashed", TRUE) BY FlagUpdates
 <2> HIDE DEF t
 <2>3. Same(t, s, Aside) BY <2>2 DEF Updated, Same, Aside
 <2>4. t \in Archive /\ t.crashed = TRUE BY <2>2 DEF Updated
 <2>5. Base(t) /\ Resting(t) /\ Request(t, s) BY <2>3, AsideKeeps
 <2>6. Calm(t) BY <2>4 DEF Calm
 <2> QED BY <2>1, <2>4, <2>5, <2>6 DEF Sound, Resting
<1>2. CASE list # None /\ list = <<>>
 <2> DEFINE t == [s EXCEPT !.dropped = None]
 <2>1. AddDroppedItems(s) = WindowDone(t, "ADDING", FALSE) BY <1>2 DEF AddDroppedItems
 <2>2. Updated(t, s, "dropped", None) BY DroppedUpdates
 <2> HIDE DEF t
 <2>3. /\ t.remote = s.remote /\ t.file = s.file /\ t.local = s.local /\ t.bound = s.bound
       /\ t.continue = s.continue /\ t.archive_new = s.archive_new
       /\ t.empty = s.empty /\ t.wanted = s.wanted /\ t.inherited = s.inherited
       /\ t.told = s.told /\ t.script = s.script /\ t.transfer = s.transfer
  BY <2>2 DEF Updated, Same, Fields
 <2>4. t \in Archive /\ t.dropped = None BY <2>2 DEF Updated
 <2>5. Base(t) /\ Resting(t) /\ Request(t, s)
  BY <2>3, <2>4 DEF Base, InPlace, NamedCopy, NewIsNowhere, DroppedWanted, SavedWhenTold,
                    Resting, Request
 <2>6. t.continue BY <1>2, <2>3
 <2>7. LET u == WindowDone(t, "ADDING", FALSE) IN Sound(u) /\ Request(u, t)
  BY <2>4, <2>5, <2>6, WindowDoneKeeps DEF Ends, ScriptActions
 <2> QED BY <2>1, <2>5, <2>7 DEF Request
<1>3. CASE list # None /\ list # <<>>
 <2>0. list \in Seq(Items) BY <1>3 DEF Archive
 <2>1. Pending(s, ToSet(list) \ s.empty) BY <1>3
 <2>2. ToSet(list) \subseteq Items BY <2>0 DEF ToSet
 <2>3. CASE SameDir(list)
  <3>1. AddDroppedItems(s) = [AddItems(s, ToSet(list)) EXCEPT !.dropped = None]
   BY <1>3, <2>3 DEF AddDroppedItems
  <3>2. LET t == AddItems(s, ToSet(list)) IN Sound(t) /\ Request(t, s)
   BY <2>1, <2>2, AddItemsKeeps
  <3> QED BY <3>1, <3>2, DroppedForgotten DEF Request
 <2>4. CASE ~SameDir(list) /\ FirstFolder(list) # 0
  <3> DEFINE i == FirstFolder(list)
             u == [s EXCEPT !.dropped = RemoveAt(@, i)]
             t == [u EXCEPT !.continue = TRUE]
  <3>1. AddDroppedItems(s) = AddItems(t, {list[i]}) BY <1>3, <2>4 DEF AddDroppedItems
  <3>2. i \in 1..Len(list) BY <2>0, <2>4, FirstFolderIsOne
  <3>3. /\ RemoveAt(list, i) \in Seq(Items)
        /\ ToSet(RemoveAt(list, i)) \subseteq ToSet(list)
   BY <2>0, <3>2, RemoveAtKeeps
  <3>4. list[i] \in ToSet(list) BY <2>0, <3>2 DEF ToSet
  <3> HIDE DEF i
  <3>5. Updated(u, s, "dropped", RemoveAt(list, i)) BY <3>3, DroppedUpdates
  <3> HIDE DEF u
  <3>6. Updated(t, u, "continue", TRUE) BY <3>5, FlagUpdates DEF Updated
  <3> HIDE DEF t
  <3>7. /\ t.remote = s.remote /\ t.file = s.file /\ t.local = s.local /\ t.bound = s.bound
        /\ t.archive_new = s.archive_new /\ t.told = s.told
        /\ t.empty = s.empty /\ t.wanted = s.wanted /\ t.inherited = s.inherited
        /\ t.script = s.script /\ t.transfer = s.transfer
        /\ t.dropped = RemoveAt(list, i)
   BY <3>5, <3>6 DEF Updated, Same, Fields
  <3>8. t \in Archive /\ t.continue = TRUE BY <3>6 DEF Updated
  <3>9. DroppedWanted(t) BY <2>1, <3>3, <3>7 DEF DroppedWanted, Pending
  <3>10. Base(t) BY <3>7, <3>8, <3>9 DEF Base, InPlace, NamedCopy, NewIsNowhere, SavedWhenTold
  <3>11. Resting(t) /\ SyncedUnless(t) /\ Request(t, s)
   BY <3>7, <3>8 DEF Resting, SyncedUnless, Request
  <3>12. Pending(t, {list[i]} \ t.empty) BY <2>1, <3>4, <3>7, <3>8 DEF Pending
  <3>13. {list[i]} \in SUBSET Items BY <2>2, <3>4
  <3>14. LET v == AddItems(t, {list[i]}) IN Sound(v) /\ Request(v, t)
   BY <3>8, <3>10, <3>11, <3>12, <3>13, AddItemsKeeps
  <3> QED BY <3>1, <3>11, <3>14 DEF Request
 <2>5. CASE ~SameDir(list) /\ FirstFolder(list) = 0
  <3>1. AddDroppedItems(s) =
          [StartScript(s, "ADDING", ToSet(list), "nowhere") EXCEPT !.dropped = <<>>]
   BY <1>3, <2>5 DEF AddDroppedItems
  <3>2. LET t == StartScript(s, "ADDING", ToSet(list), "nowhere") IN Sound(t) /\ Request(t, s)
   BY <2>2, ScriptStarts DEF ScriptFinds, ScriptActions, Sources
  <3> QED BY <3>1, <3>2, DroppedForgotten DEF Request
 <2> QED BY <2>3, <2>4, <2>5
<1> QED BY <1>1, <1>2, <1>3

----
(* The ends of the scripts. *)

LEMMA SaveKeeps ==
    ASSUME NEW s \in Archive, Base(s), Resting(s), s.activity_ref # 0,
           NEW action \in {"ADDING", "DELETING"}, Sending(s, action)
    PROVE  LET t == Save(s, action) IN Sound(t) /\ Request(t, s)
<1>1. CASE s.remote BY <1>1, TransferStarts DEF Save, TransferFinds, Kinds
<1>2. CASE ~s.remote
 <2>1. IsWanted(s, s.file) BY <1>2 DEF Sending, Base, InPlace
 <2> QED BY <1>2, <2>1, WindowDoneKeeps DEF Save, Ends, ScriptActions
<1> QED BY <1>1, <1>2

LEMMA DeletingDoneKeeps ==
    ASSUME NEW s \in Archive, Base(s), Resting(s), s.activity_ref # 0,
           NEW failed \in BOOLEAN, ~failed => Sending(s, "DELETING")
    PROVE  LET t == DeletingDone(s, failed) IN Sound(t) /\ Request(t, s)
<1>1. CASE failed BY <1>1, WindowDoneKeeps DEF DeletingDone, Ends, ScriptActions
<1>2. CASE ~failed BY <1>2, SaveKeeps DEF DeletingDone
<1> QED BY <1>1, <1>2

LEMMA AddingDoneKeeps ==
    ASSUME NEW s \in Archive, Base(s), Resting(s), s.activity_ref # 0,
           NEW failed \in BOOLEAN, ~failed => Pending(s, {}) /\ s.bound
    PROVE  LET t == AddingDone(s, failed) IN Sound(t) /\ Request(t, s)
<1> DEFINE t == [s EXCEPT !.temp_dir = FALSE]
<1>1. Updated(t, s, "temp_dir", FALSE) BY FlagUpdates
<1>w. AddingDone(s, failed) =
        IF failed THEN WindowDone(s, "ADDING", TRUE)
        ELSE IF s.continue THEN AddDroppedItems(t)
        ELSE Save([t EXCEPT !.dropped = None], "ADDING")
  BY DEF AddingDone
<1> HIDE DEF t
<1>2. Same(t, s, Aside) /\ t \in Archive BY <1>1 DEF Updated, Same, Aside
<1>3. t.activity_ref = s.activity_ref BY <1>1 DEF Updated, Same, Fields
<1>4. /\ Base(t) /\ Resting(t) /\ Request(t, s)
      /\ t.bound = s.bound /\ t.continue = s.continue /\ t.dropped = s.dropped
      /\ Pending(s, {}) => Pending(t, {})
 BY <1>2, AsideKeeps
<1>5. CASE failed BY <1>5, <1>w, WindowDoneKeeps DEF Ends, ScriptActions
<1>6. CASE ~failed /\ s.continue
 <2>1. SyncedUnless(t) BY <1>4, <1>6 DEF SyncedUnless
 <2>2. t.dropped # None => Pending(t, ToSet(t.dropped) \ t.empty)
  BY <1>4, <1>6 DEF Base, DroppedWanted, Pending
 <2>3. LET u == AddDroppedItems(t) IN Sound(u) /\ Request(u, t)
  BY <1>2, <1>4, <1>6, <2>1, <2>2, AddDroppedKeeps
 <2> QED BY <1>4, <1>6, <1>w, <2>3 DEF Request
<1>7. CASE ~failed /\ ~s.continue
 <2> DEFINE u == [t EXCEPT !.dropped = None]
 <2>0. AddingDone(s, failed) = Save(u, "ADDING") BY <1>7, <1>w
 <2>1. Updated(u, t, "dropped", None) BY <1>2, DroppedUpdates
 <2> HIDE DEF u
 <2>2. /\ u.remote = t.remote /\ u.file = t.file /\ u.local = t.local /\ u.bound = t.bound
       /\ u.continue = t.continue /\ u.archive_new = t.archive_new
       /\ u.empty = t.empty /\ u.wanted = t.wanted /\ u.inherited = t.inherited
       /\ u.told = t.told /\ u.script = t.script /\ u.transfer = t.transfer
       /\ u.activity_ref = t.activity_ref
  BY <2>1 DEF Updated, Same, Fields
 <2>3. u \in Archive /\ u.dropped = None BY <2>1 DEF Updated
 <2>4. Base(u) /\ Resting(u) /\ Request(u, t)
  BY <1>4, <2>2, <2>3 DEF Base, InPlace, NamedCopy, NewIsNowhere, DroppedWanted,
                          SavedWhenTold, Resting, Request
 <2>5. Sending(u, "ADDING") BY <1>4, <1>7, <2>2 DEF Sending, IsWanted, Pending
 <2>6. LET v == Save(u, "ADDING") IN Sound(v) /\ Request(v, u)
  BY <1>3, <2>2, <2>3, <2>4, <2>5, SaveKeeps
 <2> QED BY <1>4, <2>0, <2>4, <2>6 DEF Request
<1> QED BY <1>5, <1>6, <1>7

LEMMA ExtractingDoneKeeps ==
    ASSUME NEW s \in Archive, Base(s), Resting(s), s.activity_ref # 0, SyncedUnless(s),
           NEW failed \in BOOLEAN
    PROVE  LET t == ExtractingDone(s, failed) IN Sound(t) /\ Request(t, s)
<1>1. CASE ~failed /\ s.remote_extraction
 BY <1>1, TransferStarts DEF ExtractingDone, TransferFinds, Kinds
<1>2. CASE ~(~failed /\ s.remote_extraction)
 <2> DEFINE t == [s EXCEPT !.temp_extraction_dir = None]
 <2>0. ExtractingDone(s, failed) = WindowDone(t, "EXTRACTING", failed) BY <1>2 DEF ExtractingDone
 <2>1. Updated(t, s, "temp_extraction_dir", None) BY ContentUpdates DEF Contents
 <2> HIDE DEF t
 <2>3. t \in Archive /\ Same(t, s, Aside) BY <2>1 DEF Updated, Same, Aside
 <2>4. Base(t) /\ Resting(t) /\ SyncedUnless(t) /\ Request(t, s) BY <2>3, AsideKeeps
 <2>5. LET u == WindowDone(t, "EXTRACTING", failed) IN Sound(u) /\ Request(u, t)
  BY <2>3, <2>4, WindowDoneKeeps DEF Ends, ScriptActions
 <2> QED BY <2>0, <2>4, <2>5 DEF Request
<1> QED BY <1>1, <1>2

\* What a script did, if it did anything: it could run, and it changed the copy, and the
\* archive with it unless that is far away, by its own items.
Did(t, s, action, items) ==
    /\ Same(t, s, {"local", "file", "temp_extraction_dir"})
    /\ IF action \in {"ADDING", "DELETING"}
       THEN /\ t.local = IF action = "ADDING" THEN Held(s.local) \cup items
                         ELSE Held(s.local) \ items
            /\ t.file = IF s.remote THEN s.file ELSE t.local
       ELSE t.local = s.local /\ t.file = s.file

LEMMA EffectDoes ==
    ASSUME NEW s \in Archive, NEW script \in Scripts
    PROVE  LET t == Effect(s, script)
           IN  t \in Archive /\ Did(t, s, script.action, script.items)
<1> DEFINE t == Effect(s, script)
<1>0. script.action \in ScriptActions /\ script.items \in SUBSET Items BY DEF Scripts
<1>h. Held(s.local) \in SUBSET Items BY DEF Archive, Contents, Held
<1>p. ASSUME NEW content \in SUBSET Items
      PROVE  LET p == Put(s, content)
             IN  /\ p \in Archive /\ Same(p, s, {"local", "file", "temp_extraction_dir"})
                 /\ p.local = content /\ p.file = IF s.remote THEN s.file ELSE content
 <2> DEFINE u == [s EXCEPT !.local = content]
            v == IF s.remote THEN s.file ELSE content
            p == [u EXCEPT !.file = v]
 <2>1. Updated(u, s, "local", content) BY ContentUpdates DEF Contents
 <2>2. u.remote = s.remote /\ u.file = s.file BY <2>1 DEF Updated, Same, Fields
 <2>3. Put(s, content) = p BY <2>2 DEF Put
 <2>4. v \in Contents BY DEF Archive, Contents
 <2> HIDE DEF u, v
 <2>5. Updated(p, u, "file", v) BY <2>1, <2>4, ContentUpdates DEF Updated
 <2> HIDE DEF p
 <2>6. p.local = u.local BY <2>5 DEF Updated, Same, Fields
 <2>7. Same(p, s, {"local", "file", "temp_extraction_dir"}) BY <2>1, <2>5 DEF Updated, Same
 <2> QED BY <2>1, <2>3, <2>5, <2>6, <2>7 DEF Updated, v
<1>1. CASE script.action = "ADDING"
 <2>1. t = Put(s, Held(s.local) \cup script.items) BY <1>1 DEF Effect
 <2>2. Held(s.local) \cup script.items \in SUBSET Items BY <1>0, <1>h
 <2> QED BY <1>1, <1>p, <2>1, <2>2 DEF Did
<1>2. CASE script.action = "DELETING"
 <2>1. t = Put(s, Held(s.local) \ script.items) BY <1>2 DEF Effect
 <2>2. Held(s.local) \ script.items \in SUBSET Items BY <1>0, <1>h
 <2> QED BY <1>2, <1>p, <2>1, <2>2 DEF Did
<1>3. CASE script.action = "EXTRACTING" /\ s.remote_extraction
 <2>1. t = [s EXCEPT !.temp_extraction_dir = Held(s.local)] BY <1>3 DEF Effect
 <2>2. Held(s.local) \in Contents BY <1>h DEF Contents
 <2>3. Updated(t, s, "temp_extraction_dir", Held(s.local)) BY <2>1, <2>2, ContentUpdates
 <2> HIDE DEF t
 <2>4. t \in Archive /\ Same(t, s, {"local", "file", "temp_extraction_dir"})
  BY <2>3 DEF Updated, Same
 <2>5. t.local = s.local /\ t.file = s.file BY <2>3 DEF Updated, Same, Fields
 <2> QED BY <1>3, <2>4, <2>5 DEF Did, t
<1>4. CASE script.action = "EXTRACTING" /\ ~s.remote_extraction
 <2>1. t = s BY <1>4 DEF Effect
 <2> QED BY <1>4, <2>1 DEF Did, Same
<1>5. CASE script.action \in {"LISTING", "TESTING"}
 <2>1. t = s BY <1>5 DEF Effect
 <2> QED BY <1>5, <2>1 DEF Did, Same
<1> QED BY <1>0, <1>1, <1>2, <1>3, <1>4, <1>5 DEF ScriptActions

----
(* The steps. *)

\* What the archive comes to hold in a step was asked for.
Gains(t, s) == t.inherited \/ Held(t.file) \ Held(s.file) \subseteq Held(t.wanted)

LEMMA NothingGained == ASSUME NEW s, NEW t, Request(t, s) PROVE Gains(t, s)
BY DEF Request, Gains

LEMMA ProcessEndsKeeps ==
    ASSUME Sound(fr), ProcessEnds
    PROVE  Sound(fr') /\ Gains(fr', fr)
<1>1. PICK failed \in BOOLEAN, effect \in BOOLEAN :
        /\ ~failed => effect
        /\ effect => CanRun(fr, fr.script)
        /\ LET s == IF effect THEN Effect(fr, fr.script) ELSE fr
           IN fr' = ScriptDone([s EXCEPT !.script = None], fr.script.action, failed)
 BY DEF ProcessEnds
<1> DEFINE action == fr.script.action
           items == fr.script.items
           s == IF effect THEN Effect(fr, fr.script) ELSE fr
           q == [s EXCEPT !.script = None]
<1>2. /\ fr.script # None /\ fr.script \in Scripts /\ fr \in Archive /\ fr.transfer = None
      /\ fr.activity_ref # 0 /\ ScriptFinds(fr, action, items, fr.script.from)
 BY DEF ProcessEnds, Sound, Archive
<1>3. action \in ScriptActions /\ items \in SUBSET Items BY <1>2 DEF Scripts
<1>4. s \in Archive /\ (effect => Did(s, fr, action, items)) /\ (~effect => s = fr)
 BY <1>2, EffectDoes
<1>5. fr' = ScriptDone(q, action, failed) BY <1>1
<1>r. effect => fr.bound /\ fr.script.from # "nowhere" BY <1>1 DEF CanRun
<1> HIDE DEF s
<1>6. Updated(q, s, "script", None) BY <1>4, ScriptUpdates
<1> HIDE DEF q
<1>7. /\ q \in Archive /\ q.script = None
      /\ Same(q, fr, {"script", "local", "file", "temp_extraction_dir"})
      /\ q.local = s.local /\ q.file = s.file
 <2>1. q \in Archive /\ q.script = None /\ Same(q, s, {"script"}) BY <1>6 DEF Updated
 <2>2. Same(s, fr, {"local", "file", "temp_extraction_dir"}) BY <1>4 DEF Did, Same
 <2> QED BY <2>1, <2>2 DEF Same, Fields
<1>8. /\ q.remote = fr.remote /\ q.bound = fr.bound /\ q.continue = fr.continue
      /\ q.dropped = fr.dropped /\ q.archive_new = fr.archive_new /\ q.empty = fr.empty
      /\ q.wanted = fr.wanted /\ q.inherited = fr.inherited /\ q.told = fr.told
      /\ q.transfer = None /\ q.activity_ref # 0
 BY <1>2, <1>7 DEF Same, Fields
<1>9. Resting(q) BY <1>7, <1>8 DEF Resting
<1> HIDE DEF action, items
<1>10. CASE ~effect \/ action \notin {"ADDING", "DELETING"}
 <2>1. q.local = fr.local /\ q.file = fr.file BY <1>4, <1>7, <1>10 DEF Did
 <2>2. Base(q)
  BY <1>8, <2>1 DEF Sound, Base, InPlace, NamedCopy, NewIsNowhere, DroppedWanted,
                    SavedWhenTold
 <2>3. Request(q, fr) BY <1>8, <2>1 DEF Request
 <2>4. action = "LISTING" => Synced(q) BY <1>2, <1>8, <2>1 DEF ScriptFinds, Synced
 <2>5. action \notin {"ADDING", "DELETING"} => SyncedUnless(q)
  BY <1>2, <1>3, <1>8, <2>1 DEF ScriptFinds, ScriptActions, SyncedUnless, Synced
 <2>6. Sound(fr') /\ Request(fr', q)
  <3>1. CASE action = "ADDING"
   <4>1. failed BY <1>1, <1>10, <3>1
   <4>2. fr' = AddingDone(q, failed) BY <1>5, <3>1 DEF ScriptDone
   <4> QED BY <1>7, <1>8, <1>9, <2>2, <4>1, <4>2, AddingDoneKeeps
  <3>2. CASE action = "DELETING"
   <4>1. failed BY <1>1, <1>10, <3>2
   <4>2. fr' = DeletingDone(q, failed) BY <1>5, <3>2 DEF ScriptDone
   <4> QED BY <1>7, <1>8, <1>9, <2>2, <4>1, <4>2, DeletingDoneKeeps
  <3>3. CASE action = "EXTRACTING"
   <4>1. fr' = ExtractingDone(q, failed) BY <1>5, <3>3 DEF ScriptDone
   <4> QED BY <1>7, <1>8, <1>9, <2>2, <2>5, <3>3, <4>1, ExtractingDoneKeeps
  <3>4. CASE action \in {"LISTING", "TESTING"}
   <4>1. fr' = WindowDone(q, action, failed) BY <1>5, <3>4 DEF ScriptDone
   <4>2. action \in Ends BY <3>4 DEF Ends, ScriptActions
   <4>3. action \notin {"ADDING", "DELETING"} BY <3>4
   <4> QED BY <1>7, <1>9, <2>2, <2>4, <2>5, <4>1, <4>2, <4>3, WindowDoneKeeps
  <3> QED BY <1>3, <3>1, <3>2, <3>3, <3>4 DEF ScriptActions
 <2> QED BY <2>3, <2>6, NothingGained DEF Request
<1>11. CASE effect /\ action = "ADDING"
 <2>1. Pending(fr, items) BY <1>2, <1>11, <1>r DEF ScriptFinds
 <2>2. /\ q.local = Held(fr.local) \cup items
       /\ q.file = IF fr.remote THEN fr.file ELSE q.local
  BY <1>4, <1>7, <1>11 DEF Did
 <2>3. Held(q.local) = Held(fr.local) \cup items
  <3>1. Held(fr.local) \cup items \in SUBSET Items BY <1>2, <1>3 DEF Archive, Contents, Held
  <3> QED BY <2>2, <3>1, HeldIs
 <2>4. Base(q)
  BY <1>8, <1>11, <1>r, <2>1, <2>2 DEF Sound, Base, InPlace, NamedCopy, NewIsNowhere,
                    DroppedWanted, SavedWhenTold, Pending
 <2>5. Pending(q, {}) /\ q.bound BY <1>8, <1>11, <1>r, <2>1, <2>3 DEF Pending
 <2>6. fr' = AddingDone(q, failed) BY <1>5, <1>11 DEF ScriptDone
 <2>7. Sound(fr') /\ Request(fr', q) BY <1>7, <1>8, <1>9, <2>4, <2>5, <2>6, AddingDoneKeeps
 <2>8. Gains(q, fr) BY <1>8, <2>1, <2>2, <2>3 DEF Gains, Pending
 <2> QED BY <2>7, <2>8 DEF Request, Gains
<1>12. CASE effect /\ action = "DELETING"
 <2>1. Removing(fr, items) /\ ~fr.archive_new BY <1>2, <1>12 DEF ScriptFinds
 <2>2. /\ q.local = Held(fr.local) \ items
       /\ q.file = IF fr.remote THEN fr.file ELSE q.local
  BY <1>4, <1>7, <1>12 DEF Did
 <2>3. Held(q.local) = Held(fr.local) \ items
  <3>1. Held(fr.local) \ items \in SUBSET Items BY <1>2, <1>3 DEF Archive, Contents, Held
  <3> QED BY <2>2, <3>1, HeldIs
 <2>4. Base(q)
  BY <1>8, <1>12, <1>r, <2>1, <2>2 DEF Sound, Base, InPlace, NamedCopy, NewIsNowhere,
                    DroppedWanted, SavedWhenTold, Removing
 <2>5. Sending(q, "DELETING") BY <1>8, <1>12, <1>r, <2>1, <2>3 DEF Sending, IsWanted, Removing
 <2>6. fr' = DeletingDone(q, failed) BY <1>5, <1>12 DEF ScriptDone
 <2>7. Sound(fr') /\ Request(fr', q) BY <1>7, <1>8, <1>9, <2>4, <2>5, <2>6, DeletingDoneKeeps
 <2>8. Held(q.file) \subseteq Held(fr.file) BY <1>2, <2>2, <2>3 DEF Sound, Base, InPlace
 <2> QED BY <2>7, <2>8 DEF Request, Gains
<1> QED BY <1>10, <1>11, <1>12

\* When a transfer ends nothing is under way.
LEMMA EndedRests ==
    ASSUME Sound(fr), NEW kind, TransferEnds(kind)
    PROVE  /\ Ended \in Archive /\ Base(Ended) /\ Resting(Ended) /\ Request(Ended, fr)
           /\ fr.transfer \in Transfers /\ Ended.local = fr.local
           /\ TransferFinds(Ended, kind, fr.transfer.items, fr.transfer.action)
<1>1. fr \in Archive /\ fr.transfer # None /\ fr.transfer.kind = kind BY DEF Sound, TransferEnds
<1>2. fr.transfer \in Transfers BY <1>1 DEF Archive
<1>3. Updated(Ended, fr, "transfer", None) BY <1>1, TransferUpdates DEF Ended
<1>4. /\ Ended.remote = fr.remote /\ Ended.file = fr.file /\ Ended.local = fr.local
      /\ Ended.bound = fr.bound /\ Ended.continue = fr.continue
      /\ Ended.dropped = fr.dropped /\ Ended.archive_new = fr.archive_new
      /\ Ended.empty = fr.empty /\ Ended.wanted = fr.wanted
      /\ Ended.inherited = fr.inherited /\ Ended.told = fr.told /\ Ended.script = fr.script
 BY <1>3 DEF Updated, Same, Fields
<1>5. Base(Ended)
 BY <1>4 DEF Sound, Base, InPlace, NamedCopy, NewIsNowhere, DroppedWanted, SavedWhenTold
<1>6. Resting(Ended) BY <1>1, <1>3, <1>4 DEF Sound, Resting, Updated
<1>7. TransferFinds(fr, kind, fr.transfer.items, fr.transfer.action) BY <1>1 DEF Sound
<1>8. TransferFinds(Ended, kind, fr.transfer.items, fr.transfer.action)
 BY <1>4, <1>7 DEF TransferFinds, Pending, Sending, IsWanted, Synced, SyncedUnless
<1> QED BY <1>2, <1>3, <1>4, <1>5, <1>6, <1>8 DEF Updated, Request

LEMMA LoadEndsKeeps ==
    ASSUME Sound(fr), LoadEnds
    PROVE  Sound(fr') /\ Gains(fr', fr)
<1>1. PICK failed \in BOOLEAN :
        LET s == WindowDone(Ended, "LOADING", failed) IN
          fr' = IF failed THEN s
                ELSE StartScript([s EXCEPT !.local = s.file, !.bound = TRUE],
                                 "LISTING", {}, "local")
 BY DEF LoadEnds
<1>2. /\ Ended \in Archive /\ Base(Ended) /\ Resting(Ended) /\ Request(Ended, fr)
      /\ TransferFinds(Ended, "load", fr.transfer.items, fr.transfer.action)
 BY EndedRests DEF LoadEnds
<1>3. Synced(Ended) BY <1>2 DEF TransferFinds
<1> DEFINE s == WindowDone(Ended, "LOADING", failed)
<1>4. CASE failed
 <2>1. SyncedUnless(Ended) BY <1>3 DEF SyncedUnless
 <2>2. Sound(s) /\ Request(s, Ended) BY <1>2, <2>1, WindowDoneKeeps DEF Ends
 <2> QED BY <1>1, <1>2, <1>4, <2>2, NothingGained DEF Request
<1>5. CASE ~failed
 <2> DEFINE u == [s EXCEPT !.local = s.file]
            t == [u EXCEPT !.bound = TRUE]
 <2>1. s \in Archive /\ Same(s, Ended, Aside) BY <1>2, OnlyTold DEF Ends
 <2>2. Base(s) /\ Resting(s) /\ Request(s, Ended) BY <1>2, <2>1, AsideKeeps
 <2>3. fr' = StartScript(t, "LISTING", {}, "local") BY <1>1, <1>5
 <2> HIDE DEF s
 <2>4. Updated(u, s, "local", s.file)
  <3>1. s.file \in Contents BY <2>1 DEF Archive
  <3> QED BY <2>1, <3>1, ContentUpdates
 <2> HIDE DEF u
 <2>5. Updated(t, u, "bound", TRUE) BY <2>4, FlagUpdates DEF Updated
 <2> HIDE DEF t
 <2>6. /\ t.remote = s.remote /\ t.file = s.file /\ t.local = s.file /\ t.bound = TRUE
       /\ t.continue = s.continue /\ t.dropped = s.dropped /\ t.archive_new = s.archive_new
       /\ t.empty = s.empty /\ t.wanted = s.wanted /\ t.inherited = s.inherited
       /\ t.told = s.told /\ t.script = s.script /\ t.transfer = s.transfer
  BY <2>4, <2>5 DEF Updated, Same, Fields
 <2>7. /\ Base(t) /\ Resting(t) /\ Request(t, s)
       /\ ScriptFinds(t, "LISTING", {}, "local")
  BY <2>2, <2>6 DEF Base, InPlace, NamedCopy, NewIsNowhere, DroppedWanted, SavedWhenTold,
                    Resting, Request, ScriptFinds, Synced
 <2>8. t \in Archive BY <2>5 DEF Updated
 <2>9. LET v == StartScript(t, "LISTING", {}, "local") IN Sound(v) /\ Request(v, t)
  BY <2>7, <2>8, ScriptStarts DEF ScriptActions, Sources
 <2> QED BY <1>2, <2>2, <2>3, <2>7, <2>9, NothingGained DEF Request
<1> QED BY <1>4, <1>5

LEMMA ListEndsKeeps ==
    ASSUME Sound(fr), ListEnds
    PROVE  Sound(fr') /\ Gains(fr', fr)
<1> DEFINE found == fr.transfer.items \ fr.empty
           place == Home[CHOOSE item \in found : TRUE]
<1>1. PICK failed \in BOOLEAN, made \in BOOLEAN :
        LET s == WindowDone(Ended, "GETTING_FILE_LIST", failed)
        IN  fr' = IF failed \/ found = {} THEN s ELSE AddFiles(s, found, place, made)
 BY DEF ListEnds
<1>2. /\ Ended \in Archive /\ Base(Ended) /\ Resting(Ended) /\ Request(Ended, fr)
      /\ fr.transfer \in Transfers
      /\ TransferFinds(Ended, "list", fr.transfer.items, fr.transfer.action)
 BY EndedRests DEF ListEnds
<1>e. Ended.empty = fr.empty BY TransferUpdates DEF Sound, Ended, Updated, Same, Fields
<1>3. SyncedUnless(Ended) /\ Pending(Ended, found) BY <1>2, <1>e DEF TransferFinds
<1> DEFINE s == WindowDone(Ended, "GETTING_FILE_LIST", failed)
<1>4. CASE failed \/ found = {}
 <2>1. Sound(s) /\ Request(s, Ended) BY <1>2, <1>3, WindowDoneKeeps DEF Ends
 <2> QED BY <1>1, <1>2, <1>4, <2>1, NothingGained DEF Request
<1>5. CASE ~failed /\ found # {}
 <2>1. s \in Archive /\ Same(s, Ended, Aside) BY <1>2, OnlyTold DEF Ends
 <2>2. /\ Base(s) /\ Resting(s) /\ SyncedUnless(s) /\ Pending(s, found)
       /\ Request(s, Ended)
  BY <1>2, <1>3, <2>1, AsideKeeps
 <2>3. found \in SUBSET Items BY <1>2 DEF Transfers
 <2>4. fr' = AddFiles(s, found, place, made) BY <1>1, <1>5
 <2> HIDE DEF s, found, place
 <2>5. LET v == AddFiles(s, found, place, made) IN Sound(v) /\ Request(v, s)
  BY <2>1, <2>2, <2>3, AddFilesKeeps
 <2> QED BY <1>2, <2>2, <2>4, <2>5, NothingGained DEF Request
<1> QED BY <1>4, <1>5

LEMMA CopyFromEndsKeeps ==
    ASSUME Sound(fr), CopyFromEnds
    PROVE  Sound(fr') /\ Gains(fr', fr)
<1> DEFINE items == fr.transfer.items
<1>1. PICK failed \in BOOLEAN :
        LET s == WindowDone(Ended, "COPYING_FROM_REMOTE", failed)
        IN  fr' = IF failed THEN s ELSE StartScript(s, "ADDING", items, "temp")
 BY DEF CopyFromEnds
<1>2. /\ Ended \in Archive /\ Base(Ended) /\ Resting(Ended) /\ Request(Ended, fr)
      /\ fr.transfer \in Transfers
      /\ TransferFinds(Ended, "copy_from", items, fr.transfer.action)
 BY EndedRests DEF CopyFromEnds
<1>3. SyncedUnless(Ended) /\ Pending(Ended, items) BY <1>2 DEF TransferFinds
<1> DEFINE s == WindowDone(Ended, "COPYING_FROM_REMOTE", failed)
<1>4. CASE failed
 <2>1. Sound(s) /\ Request(s, Ended) BY <1>2, <1>3, WindowDoneKeeps DEF Ends
 <2> QED BY <1>1, <1>2, <1>4, <2>1, NothingGained DEF Request
<1>5. CASE ~failed
 <2>1. s \in Archive /\ Same(s, Ended, Aside) BY <1>2, OnlyTold DEF Ends
 <2>2. Base(s) /\ Resting(s) /\ Pending(s, items) /\ Request(s, Ended)
  BY <1>2, <1>3, <2>1, AsideKeeps
 <2>3. items \in SUBSET Items BY <1>2 DEF Transfers
 <2>4. fr' = StartScript(s, "ADDING", items, "temp") BY <1>1, <1>5
 <2> HIDE DEF s, items
 <2>5. LET v == StartScript(s, "ADDING", items, "temp") IN Sound(v) /\ Request(v, s)
  BY <2>1, <2>2, <2>3, ScriptStarts DEF ScriptFinds, ScriptActions, Sources
 <2> QED BY <1>2, <2>2, <2>4, <2>5, NothingGained DEF Request
<1> QED BY <1>4, <1>5

LEMMA UploadEndsKeeps ==
    ASSUME Sound(fr), UploadEnds
    PROVE  Sound(fr') /\ Gains(fr', fr)
<1> DEFINE action == fr.transfer.action
<1>1. PICK failed \in BOOLEAN :
        LET s == IF failed THEN Ended ELSE [Ended EXCEPT !.file = fr.local]
        IN  fr' = WindowDone(s, action, failed)
 BY DEF UploadEnds
<1>2. /\ Ended \in Archive /\ Base(Ended) /\ Resting(Ended) /\ Request(Ended, fr)
      /\ Ended.local = fr.local
      /\ TransferFinds(Ended, "upload", fr.transfer.items, action)
 BY EndedRests DEF UploadEnds
<1>3. Sending(Ended, action) BY <1>2 DEF TransferFinds
<1>4. action \in {"ADDING", "DELETING"} /\ action \in Ends BY <1>3 DEF Sending, Ends, ScriptActions
<1> HIDE DEF action
<1>5. CASE failed
 <2>1. LET v == WindowDone(Ended, action, failed) IN Sound(v) /\ Request(v, Ended)
  BY <1>2, <1>4, <1>5, WindowDoneKeeps
 <2> QED BY <1>1, <1>2, <1>5, <2>1, NothingGained DEF Request
<1>6. CASE ~failed
 <2> DEFINE s == [Ended EXCEPT !.file = fr.local]
 <2>1. fr' = WindowDone(s, action, failed) BY <1>1, <1>6
 <2>2. Updated(s, Ended, "file", fr.local)
  <3>1. fr.local \in Contents BY <1>2 DEF Archive
  <3> QED BY <1>2, <3>1, ContentUpdates
 <2> HIDE DEF s
 <2>3. /\ s.remote = Ended.remote /\ s.file = Ended.local /\ s.local = Ended.local
       /\ s.bound = Ended.bound /\ s.continue = Ended.continue
       /\ s.dropped = Ended.dropped /\ s.archive_new = Ended.archive_new
       /\ s.empty = Ended.empty /\ s.wanted = Ended.wanted
       /\ s.inherited = Ended.inherited /\ s.told = Ended.told
       /\ s.script = Ended.script /\ s.transfer = Ended.transfer
  BY <1>2, <2>2 DEF Updated, Same, Fields
 <2>4. s \in Archive BY <2>2 DEF Updated
 <2>5. InPlace(s) /\ NamedCopy(s) /\ DroppedWanted(s) /\ Resting(s)
  BY <1>2, <2>3 DEF Base, InPlace, NamedCopy, DroppedWanted, Resting
 <2>6. SavedWhenTold(s) BY <1>3, <2>3 DEF Sending, SavedWhenTold
 <2>7. NewIsNowhere(s) \/ action = "ADDING" BY <1>3, <1>4, <2>3 DEF Sending, NewIsNowhere
 <2>8. IsWanted(s, s.file) BY <1>3, <2>3 DEF Sending, IsWanted
 <2>9. LET v == WindowDone(s, action, failed) IN Sound(v) /\ Request(v, s)
  BY <1>4, <1>6, <2>4, <2>5, <2>6, <2>7, <2>8, WindowTold
 <2>10. Gains(s, fr) BY <2>8 DEF IsWanted, Gains
 <2> QED BY <2>1, <2>9, <2>10 DEF Request, Gains
<1> QED BY <1>5, <1>6

LEMMA CopyExtractedEndsKeeps ==
    ASSUME Sound(fr), CopyExtractedEnds
    PROVE  Sound(fr') /\ Gains(fr', fr)
<1> DEFINE copied == [Ended EXCEPT !.temp_extraction_dir = None]
           told == WindowDone(copied, "COPYING_TO_REMOTE", FALSE)
<1>1. PICK failed \in BOOLEAN : fr' = WindowDone(told, "EXTRACTING", failed)
 BY DEF CopyExtractedEnds
<1>2. /\ Ended \in Archive /\ Base(Ended) /\ Resting(Ended) /\ Request(Ended, fr)
      /\ TransferFinds(Ended, "copy_extracted", fr.transfer.items, fr.transfer.action)
 BY EndedRests DEF CopyExtractedEnds
<1>3. SyncedUnless(Ended) BY <1>2 DEF TransferFinds
<1>4. Updated(copied, Ended, "temp_extraction_dir", None) BY <1>2, ContentUpdates DEF Contents
<1> HIDE DEF copied
<1>5. copied \in Archive /\ Same(copied, Ended, Aside) BY <1>4 DEF Updated, Same, Aside
<1>6. Base(copied) /\ Resting(copied) /\ SyncedUnless(copied) /\ Request(copied, Ended)
 BY <1>2, <1>3, <1>5, AsideKeeps
<1>7. told \in Archive /\ Same(told, copied, Aside) BY <1>5, OnlyTold DEF Ends
<1>8. Base(told) /\ Resting(told) /\ SyncedUnless(told) /\ Request(told, copied)
 BY <1>6, <1>7, AsideKeeps
<1> HIDE DEF told
<1>9. LET v == WindowDone(told, "EXTRACTING", failed) IN Sound(v) /\ Request(v, told)
 BY <1>7, <1>8, WindowDoneKeeps DEF Ends, ScriptActions
<1> QED BY <1>1, <1>2, <1>6, <1>8, <1>9, NothingGained DEF Request

----
(* What the user asks. *)

\* What a request finds: nothing under way, and nothing left over but what it inherits.
Fresh(s) ==
    /\ s \in Archive /\ Base(s) /\ Resting(s) /\ SyncedUnless(s)
    /\ s.told = "nothing"
    /\ s.archive_new /\ s.local # s.file => s.inherited
    /\ s.continue => s.inherited

LEMMA AskedIsFresh ==
    ASSUME Sound(fr), fr.activity_ref = 0, ~fr.crashed, NEW wanted \in Contents
    PROVE  LET s == Asked(wanted)
           IN  /\ Fresh(s) /\ s.wanted = wanted /\ s.file = fr.file /\ s.local = fr.local
               /\ s.empty = fr.empty /\ s.archive_new = fr.archive_new
               /\ s.continue = fr.continue
<1> DEFINE inherited == fr.continue \/ (fr.archive_new /\ fr.local # fr.file)
           a == [fr EXCEPT !.wanted = wanted]
           b == [a EXCEPT !.inherited = inherited]
           s == [b EXCEPT !.told = "nothing"]
<1>0. fr \in Archive /\ Resting(fr) /\ SyncedUnless(fr) BY DEF Sound, Resting, Calm
<1>1. Updated(a, fr, "wanted", wanted) BY <1>0, ContentUpdates
<1>2. Asked(wanted) = s BY DEF Asked
<1> HIDE DEF a
<1>3. inherited \in BOOLEAN OBVIOUS
<1>4. Updated(b, a, "inherited", inherited)
 <2> HIDE DEF inherited
 <2> QED BY <1>1, <1>3, FlagUpdates DEF Updated
<1> HIDE DEF b, inherited
<1>5. Updated(s, b, "told", "nothing") BY <1>4, ToldUpdates DEF Updated, Told
<1> HIDE DEF s
<1>6. /\ s.remote = fr.remote /\ s.file = fr.file /\ s.local = fr.local /\ s.bound = fr.bound
      /\ s.continue = fr.continue /\ s.dropped = fr.dropped
      /\ s.archive_new = fr.archive_new /\ s.empty = fr.empty
      /\ s.script = fr.script /\ s.transfer = fr.transfer
      /\ s.wanted = a.wanted /\ s.inherited = b.inherited
 BY <1>1, <1>4, <1>5 DEF Updated, Same, Fields
<1>7. s \in Archive /\ s.told = "nothing" /\ s.inherited = inherited /\ s.wanted = wanted
 BY <1>1, <1>4, <1>5, <1>6 DEF Updated
<1>8. inherited <=> fr.continue \/ (fr.archive_new /\ fr.local # fr.file) BY DEF inherited
<1>9. s.archive_new /\ s.local # s.file => s.inherited BY <1>6, <1>7, <1>8
<1>10. s.continue => s.inherited BY <1>6, <1>7, <1>8
<1>11. InPlace(s) /\ NamedCopy(s) /\ NewIsNowhere(s) /\ Resting(s) /\ SyncedUnless(s)
 BY <1>0, <1>6 DEF Sound, Base, InPlace, NamedCopy, NewIsNowhere, Resting, SyncedUnless, Synced
<1>12. DroppedWanted(s) /\ SavedWhenTold(s) BY <1>7, <1>10 DEF DroppedWanted, SavedWhenTold
<1> QED BY <1>2, <1>6, <1>7, <1>9, <1>10, <1>11, <1>12 DEF Fresh, Base

\* What is to be added is pending when what is wanted is what the archive holds and it.
LEMMA ToAddIsPending ==
    ASSUME NEW s, Fresh(s), NEW items \in SUBSET Items,
           s.wanted = Held(s.file) \cup items
    PROVE  Pending(s, items)
<1>1. s \in Archive BY DEF Fresh
<1>2. Held(s.file) \cup items \in SUBSET Items BY <1>1 DEF Archive, Contents, Held
<1>3. Held(s.wanted) = Held(s.file) \cup items BY <1>2, HeldIs
<1>4. Held(None) = {} BY DEF Held
<1>5. ~s.inherited => Held(s.local) \subseteq Held(s.file)
 <2> SUFFICES ASSUME ~s.inherited PROVE Held(s.local) \subseteq Held(s.file) OBVIOUS
 <2>1. CASE s.local = s.file BY <2>1
 <2>2. CASE s.local # s.file
  <3>1. s.local = None BY <2>2 DEF Fresh, SyncedUnless, Synced, Base, NamedCopy
  <3> QED BY <1>4, <3>1
 <2> QED BY <2>1, <2>2
<1>6. ~s.continue /\ s.bound => Held(s.file) \subseteq Held(s.local)
 <2> SUFFICES ASSUME ~s.continue, s.bound PROVE Held(s.file) \subseteq Held(s.local) OBVIOUS
 <2>1. CASE s.local = s.file BY <2>1
 <2>2. CASE s.local # s.file
  <3>1. s.file = None BY <2>2 DEF Fresh, SyncedUnless, Synced, Base, NewIsNowhere, InPlace
  <3> QED BY <1>4, <3>1
 <2> QED BY <2>1, <2>2
<1> QED BY <1>3, <1>5, <1>6 DEF Fresh, Pending

LEMMA AskedToAddIsFresh ==
    ASSUME Sound(fr), Idle, NEW items \in SUBSET Items
    PROVE  LET s == AskedToAdd(items)
           IN  /\ Fresh(s) /\ Pending(s, items \ s.empty)
               /\ s.empty = fr.empty /\ s.file = fr.file
<1> DEFINE wanted == Held(fr.file) \cup (items \ fr.empty)
           s == Asked(wanted)
<1>1. wanted \in Contents BY DEF Sound, Archive, Contents, Held
<1>2. fr.activity_ref = 0 /\ ~fr.crashed BY DEF Idle
<1>3. AskedToAdd(items) = s BY DEF AskedToAdd
<1> HIDE DEF wanted
<1>4. /\ Fresh(s) /\ s.wanted = wanted /\ s.file = fr.file /\ s.empty = fr.empty
 BY <1>1, <1>2, AskedIsFresh
<1> HIDE DEF s
<1>5. s.wanted = Held(s.file) \cup (items \ s.empty) BY <1>4 DEF wanted
<1>6. Pending(s, items \ s.empty) BY <1>4, <1>5, ToAddIsPending
<1> QED BY <1>3, <1>4, <1>6

LEMMA RequestAddFilesKeeps ==
    ASSUME Sound(fr), RequestAddFiles
    PROVE  Sound(fr') /\ Gains(fr', fr)
<1>1. PICK items \in SUBSET (Items \ Folders), place \in {Home[i] : i \in Items},
           made \in BOOLEAN :
        fr' = AddFiles(AskedToAdd(items), items, place, made)
 BY DEF RequestAddFiles
<1> DEFINE s == AskedToAdd(items)
<1>2. Idle /\ items \in SUBSET Items BY DEF RequestAddFiles
<1>3. /\ Fresh(s) /\ Pending(s, items \ s.empty) /\ s.empty = fr.empty /\ s.file = fr.file
 BY <1>2, AskedToAddIsFresh
<1> HIDE DEF s
<1>4. items \ s.empty = items
 <2> QED BY <1>3 DEF Fresh, Archive
<1>5. Pending(s, items) BY <1>3, <1>4
<1>6. LET t == AddFiles(s, items, place, made) IN Sound(t) /\ Request(t, s)
 BY <1>2, <1>3, <1>5, AddFilesKeeps DEF Fresh
<1> QED BY <1>1, <1>3, <1>6 DEF Request, Gains, s

LEMMA RequestAddFolderKeeps ==
    ASSUME Sound(fr), RequestAddFolder
    PROVE  Sound(fr') /\ Gains(fr', fr)
<1>1. PICK folder \in Folders : fr' = AddItems(AskedToAdd({folder}), {folder})
 BY DEF RequestAddFolder
<1> DEFINE s == AskedToAdd({folder})
<1>2. Idle /\ {folder} \in SUBSET Items BY ArchiveAssumption DEF RequestAddFolder
<1>3. /\ Fresh(s) /\ Pending(s, {folder} \ s.empty) /\ s.file = fr.file BY <1>2, AskedToAddIsFresh
<1> HIDE DEF s
<1>4. LET t == AddItems(s, {folder}) IN Sound(t) /\ Request(t, s)
 BY <1>2, <1>3, AddItemsKeeps DEF Fresh
<1> QED BY <1>1, <1>3, <1>4 DEF Request, Gains, s

LEMMA RequestAddDroppedKeeps ==
    ASSUME Sound(fr), RequestAddDropped
    PROVE  Sound(fr') /\ Gains(fr', fr)
<1>1. PICK list \in Lists \ {<<>>} :
        LET s == AskedToAdd(ToSet(list))
        IN \/ fr' = AddDroppedItems([s EXCEPT !.dropped = list])
           \/ fr' = WindowDone(s, "ADDING", TRUE)
 BY DEF RequestAddDropped
<1> DEFINE s == AskedToAdd(ToSet(list))
<1>2. list \in Seq(Items) BY DEF Lists, SeqOf
<1>3. Idle /\ ToSet(list) \in SUBSET Items BY <1>2 DEF RequestAddDropped, ToSet
<1>4. /\ Fresh(s) /\ Pending(s, ToSet(list) \ s.empty) /\ s.file = fr.file
 BY <1>3, AskedToAddIsFresh
<1> HIDE DEF s
<1>5. CASE fr' = WindowDone(s, "ADDING", TRUE)
 <2>1. LET t == WindowDone(s, "ADDING", TRUE) IN Sound(t) /\ Request(t, s)
  BY <1>4, WindowDoneKeeps DEF Fresh, Ends, ScriptActions
 <2> QED BY <1>4, <1>5, <2>1 DEF Request, Gains
<1>6. CASE fr' = AddDroppedItems([s EXCEPT !.dropped = list])
 <2> DEFINE t == [s EXCEPT !.dropped = list]
 <2>1. Updated(t, s, "dropped", list) BY <1>2, <1>4, DroppedUpdates DEF Fresh
 <2> HIDE DEF t
 <2>2. /\ t.remote = s.remote /\ t.file = s.file /\ t.local = s.local /\ t.bound = s.bound
       /\ t.continue = s.continue /\ t.archive_new = s.archive_new
       /\ t.empty = s.empty /\ t.wanted = s.wanted /\ t.inherited = s.inherited
       /\ t.told = s.told /\ t.script = s.script /\ t.transfer = s.transfer
  BY <2>1 DEF Updated, Same, Fields
 <2>3. t \in Archive /\ t.dropped = list BY <2>1 DEF Updated
 <2>4. Base(t)
  BY <1>4, <2>2 DEF Fresh, Base, InPlace, NamedCopy, NewIsNowhere, DroppedWanted,
                    SavedWhenTold
 <2>5. Resting(t) /\ SyncedUnless(t) /\ Pending(t, ToSet(list) \ t.empty) /\ Request(t, s)
  BY <1>4, <2>2 DEF Fresh, Resting, SyncedUnless, Synced, Pending, Request
 <2>6. LET v == AddDroppedItems(t) IN Sound(v) /\ Request(v, t)
  BY <2>3, <2>4, <2>5, AddDroppedKeeps
 <2> QED BY <1>4, <1>6, <2>5, <2>6 DEF Request, Gains, t
<1> QED BY <1>1, <1>5, <1>6 DEF s

LEMMA RequestRemoveKeeps ==
    ASSUME Sound(fr), RequestRemove
    PROVE  Sound(fr') /\ Gains(fr', fr)
<1>1. PICK items \in SUBSET Held(fr.file) :
        fr' = StartScript(Asked(Held(fr.file) \ items), "DELETING", items, "local")
 BY DEF RequestRemove
<1> DEFINE wanted == Held(fr.file) \ items
           s == Asked(wanted)
<1>2. /\ Idle /\ ~fr.archive_new /\ items \in SUBSET Items /\ wanted \in SUBSET Items
 BY DEF RequestRemove, Sound, Archive, Contents, Held
<1>3. fr.activity_ref = 0 /\ ~fr.crashed /\ wanted \in Contents BY <1>2 DEF Idle, Contents
<1>4. Held(wanted) = wanted BY <1>2, HeldIs
<1> HIDE DEF wanted
<1>5. /\ Fresh(s) /\ s.wanted = wanted /\ s.file = fr.file
      /\ s.archive_new = fr.archive_new
 BY <1>3, AskedIsFresh
<1> HIDE DEF s
<1>6. Removing(s, items)
 <2>1. ~s.continue /\ s.bound => Held(s.local) \ items = Held(s.wanted)
  BY <1>2, <1>4, <1>5 DEF Fresh, SyncedUnless, Synced, wanted
 <2> QED BY <1>5, <2>1 DEF Fresh, Removing
<1>7. LET t == StartScript(s, "DELETING", items, "local") IN Sound(t) /\ Request(t, s)
 BY <1>2, <1>5, <1>6, ScriptStarts DEF Fresh, ScriptFinds, ScriptActions, Sources
<1> QED BY <1>1, <1>5, <1>7 DEF Request, Gains, s, wanted

LEMMA RequestExtractKeeps ==
    ASSUME Sound(fr), RequestExtract
    PROVE  Sound(fr') /\ Gains(fr', fr)
<1>1. PICK remote_extraction \in BOOLEAN :
        fr' = StartScript([Asked(fr.local) EXCEPT
                              !.remote_extraction = remote_extraction,
                              !.temp_extraction_dir = IF remote_extraction THEN {} ELSE None],
                           "EXTRACTING", {}, "local")
 BY DEF RequestExtract
<1> DEFINE dir == IF remote_extraction THEN {} ELSE None
           s == Asked(fr.local)
           u == [s EXCEPT !.remote_extraction = remote_extraction]
           t == [u EXCEPT !.temp_extraction_dir = dir]
<1>2. fr.activity_ref = 0 /\ ~fr.crashed /\ fr.local \in Contents /\ dir \in Contents
 BY DEF RequestExtract, Idle, Sound, Archive, Contents
<1>3. fr' = StartScript(t, "EXTRACTING", {}, "local") BY <1>1
<1>4. Fresh(s) /\ s.file = fr.file BY <1>2, AskedIsFresh
<1> HIDE DEF s, dir
<1>5. Updated(u, s, "remote_extraction", remote_extraction) BY <1>4, FlagUpdates DEF Fresh
<1> HIDE DEF u
<1>6. Updated(t, u, "temp_extraction_dir", dir) BY <1>2, <1>5, ContentUpdates DEF Updated
<1> HIDE DEF t
<1>7. t \in Archive /\ Same(t, s, Aside) BY <1>5, <1>6 DEF Updated, Same, Aside
<1>8. Base(t) /\ Resting(t) /\ SyncedUnless(t) /\ Request(t, s) BY <1>4, <1>7, AsideKeeps DEF Fresh
<1>9. LET v == StartScript(t, "EXTRACTING", {}, "local") IN Sound(v) /\ Request(v, t)
 BY <1>7, <1>8, ScriptStarts DEF ScriptFinds, ScriptActions, Sources
<1> QED BY <1>3, <1>4, <1>8, <1>9 DEF Request, Gains

LEMMA RequestTestKeeps ==
    ASSUME Sound(fr), RequestTest
    PROVE  Sound(fr') /\ Gains(fr', fr)
<1> DEFINE s == Asked(fr.file)
<1>1. fr.activity_ref = 0 /\ ~fr.crashed /\ fr.file \in Contents
 BY DEF RequestTest, Idle, Sound, Archive
<1>2. fr' = StartScript(s, "TESTING", {}, "local") BY DEF RequestTest
<1>3. Fresh(s) /\ s.file = fr.file BY <1>1, AskedIsFresh
<1> HIDE DEF s
<1>4. LET t == StartScript(s, "TESTING", {}, "local") IN Sound(t) /\ Request(t, s)
 BY <1>3, ScriptStarts DEF Fresh, ScriptFinds, ScriptActions, Sources
<1> QED BY <1>2, <1>3, <1>4 DEF Request, Gains

LEMMA RequestReloadKeeps ==
    ASSUME Sound(fr), RequestReload
    PROVE  Sound(fr') /\ Gains(fr', fr)
<1> DEFINE s == Asked(fr.file)
<1>1. fr.activity_ref = 0 /\ ~fr.crashed /\ fr.file \in Contents
 BY DEF RequestReload, Idle, Sound, Archive
<1>2. fr' = Reload(s) BY DEF RequestReload
<1>3. Fresh(s) /\ s.file = fr.file BY <1>1, AskedIsFresh
<1> HIDE DEF s
<1>4. Sound(Reload(s)) /\ Request(Reload(s), s) BY <1>3, ReloadKeeps DEF Fresh
<1> QED BY <1>2, <1>3, <1>4 DEF Request, Gains

LEMMA RequestOpenKeeps ==
    ASSUME Sound(fr), RequestOpen
    PROVE  Sound(fr') /\ Gains(fr', fr)
<1> DEFINE s == Asked(fr.file)
<1>1. fr.activity_ref = 0 /\ ~fr.crashed /\ fr.file \in Contents BY DEF RequestOpen, Sound, Archive
<1>2. fr' = Load(s) BY DEF RequestOpen
<1>3. Fresh(s) /\ s.file = fr.file BY <1>1, AskedIsFresh
<1> HIDE DEF s
<1>4. Sound(Load(s)) /\ Request(Load(s), s) BY <1>3, LoadStarts DEF Fresh, Resting
<1> QED BY <1>2, <1>3, <1>4 DEF Request, Gains

----
(* The theorems. *)

LEMMA OpenedIsSound ==
    ASSUME NEW remote \in BOOLEAN, NEW content \in Contents, NEW empty \in SUBSET Folders
    PROVE  LET s == Opened(remote, content, empty) IN
             /\ s \in Archive /\ Base(s) /\ Resting(s) /\ Calm(s)
<1> DEFINE s == Opened(remote, content, empty)
<1>1. s \in Archive
 <2> QED BY DEF Opened, Archive, Contents, Told
<1>2. /\ s.file = content /\ s.local = content /\ s.bound = TRUE /\ s.continue = FALSE
      /\ s.script = None /\ s.transfer = None /\ s.told = "nothing"
      /\ s.archive_new = (content = None)
 BY DEF Opened
<1> HIDE DEF s
<1>3. Base(s) BY <1>2 DEF Base, InPlace, NamedCopy, NewIsNowhere, DroppedWanted, SavedWhenTold
<1> QED BY <1>1, <1>2, <1>3 DEF Resting, Calm, SyncedUnless, Synced, s

LEMMA InitIsSound == Init => ArchiveInv
<1> SUFFICES ASSUME Init PROVE Sound(fr) BY DEF ArchiveInv
<1>1. PICK remote \in BOOLEAN, content \in Contents, empty \in SUBSET Folders :
        fr = IF content = None THEN Opened(remote, None, empty)
             ELSE Load(Opened(remote, content, empty))
 BY DEF Init
<1>2. LET s == Opened(remote, content, empty) IN
        /\ s \in Archive /\ Base(s) /\ Resting(s) /\ Calm(s)
 BY OpenedIsSound
<1>3. CASE content = None BY <1>1, <1>2, <1>3 DEF Sound, Resting
<1>4. CASE content # None BY <1>1, <1>2, <1>4, LoadStarts DEF Resting
<1> QED BY <1>3, <1>4

LEMMA StepIsSound ==
    ArchiveInv /\ [Next]_fr => ArchiveInv' /\ (fr' = fr \/ Gains(fr', fr))
<1> SUFFICES ASSUME Sound(fr), [Next]_fr
             PROVE  Sound(fr') /\ (fr' = fr \/ Gains(fr', fr))
 BY DEF ArchiveInv
<1>1. CASE fr' = fr BY <1>1
<1>2. CASE ProcessEnds BY <1>2, ProcessEndsKeeps
<1>3. CASE LoadEnds BY <1>3, LoadEndsKeeps
<1>4. CASE ListEnds BY <1>4, ListEndsKeeps
<1>5. CASE CopyFromEnds BY <1>5, CopyFromEndsKeeps
<1>6. CASE UploadEnds BY <1>6, UploadEndsKeeps
<1>7. CASE CopyExtractedEnds BY <1>7, CopyExtractedEndsKeeps
<1>8. CASE RequestAddFiles BY <1>8, RequestAddFilesKeeps
<1>9. CASE RequestAddFolder BY <1>9, RequestAddFolderKeeps
<1>10. CASE RequestAddDropped BY <1>10, RequestAddDroppedKeeps
<1>11. CASE RequestRemove BY <1>11, RequestRemoveKeeps
<1>12. CASE RequestExtract BY <1>12, RequestExtractKeeps
<1>13. CASE RequestTest BY <1>13, RequestTestKeeps
<1>14. CASE RequestReload BY <1>14, RequestReloadKeeps
<1>15. CASE RequestOpen BY <1>15, RequestOpenKeeps
<1> QED BY <1>1, <1>2, <1>3, <1>4, <1>5, <1>6, <1>7, <1>8, <1>9, <1>10, <1>11, <1>12,
          <1>13, <1>14, <1>15 DEF Next

\* Every state a window can be in is sound: each link of a chain finds what it needs.
THEOREM ArchiveIsSound == Spec => []ArchiveInv
<1> QED BY StepIsSound, InitIsSound, PTL DEF Spec

\* Of what the window tells of as done (action_performed of fr-window.c), the archive
\* that the user named holds what was asked for, and no more unless something was left
\* to inherit; but for the flag continue_adding_dropped_items, which is never cleared.
THEOREM SavedWhenTheUserIsTold == Spec => []SavedWhenToldUnlessContinued
<1> QED
 BY ArchiveIsSound, PTL DEF ArchiveInv, Sound, Base, SavedWhenTold, SavedWhenToldUnlessContinued

\* No step, of a script on a local archive or of copy_to_remote_location on another,
\* brings into the archive what the last request did not ask for, unless it inherits.
THEOREM OnlyWhatWasAskedIsAdded == Spec => OnlyWhatWasAskedUnlessInherited
<1>1. ArchiveInv /\ [Next]_fr =>
        [fr'.inherited \/ Held(fr'.file) \ Held(fr.file) \subseteq Held(fr'.wanted)]_fr
 BY StepIsSound DEF Gains
<1> QED BY <1>1, ArchiveIsSound, PTL DEF Spec, OnlyWhatWasAskedUnlessInherited

----
(* FrListing.  Where the lines of the members are in what is printed: after First lines, Width
   for each. *)
Printing == Printed(members)
Number == Len(members)

First ==
    CASE back_end = "sevenz" -> (IF style = "old" THEN 4 ELSE 2) + text
      [] back_end \in {"ace", "dpkg"} -> 2
      [] back_end \in {"alz", "arj", "rar", "zoo"} -> text + 1
      [] back_end \in {"lrzip", "zip"} -> text
      [] back_end = "iso" -> 1
      [] OTHER -> 0

KindsOf ==
    CASE back_end = "sevenz" -> <<"path", "folder", "size", "blank">>
      [] back_end = "arj" -> <<"name", "info", "more">>
      [] back_end = "rar" -> <<"name", "info">>
      [] back_end = "unstuff" -> <<"row", "size">>
      [] OTHER -> <<"row">>

Width ==
    CASE back_end = "sevenz" -> 4
      [] back_end = "arj" -> 3
      [] back_end \in {"rar", "unstuff"} -> 2
      [] OTHER -> 1

Past == First + Width * Number

\* After n lines: which member it is at, and how many of its lines are read.
AtMember(n) == First <= n /\ n < Past
Of(n) == members[((n - First) \div Width) + 1]
Read(n) == (n - First) % Width

(* What the line function has after n lines. *)
Readers ==
    [started : BOOLEAN, style : {"unknown", "old", "new"}, pending : FileData \cup {Null},
     odd : BOOLEAN, line_no : Nat, folder : {Null, "/"}, empty : BOOLEAN]

States == [r : Readers, files : Seq(FileData), crashed : BOOLEAN]

\* The record of 7z that is made.
Half7z(m, j) ==
    CASE j = 0 -> Null
      [] j = 1 -> Entry(m)
      [] j = 2 -> IsDir(Entry(m))
      [] j = 3 -> Sized(IsDir(Entry(m)), m)

At7z(r, n) ==
    /\ n > 0 => r.style = style
    /\ (r.started <=> n >= 2 + text)
    /\ r.pending = IF AtMember(n) THEN Half7z(Of(n), Read(n))
                   ELSE IF style = "old" /\ n = First - 1 THEN NoPath ELSE Null

AtAce(r, n) == r.style = (IF n = 0 THEN "unknown" ELSE style) /\ (r.started <=> n >= 2)

InTable(n) == First <= n /\ n <= Past

\* The line function of arj goes on as it is when the program is started again.
AtArj(r, n) ==
    /\ r.pending # Null =>
         AtMember(n) /\ Read(n) = 1 /\ r.pending = Entry(Of(n)) /\ r.line_no = 2 /\ r.started
    /\ restarts = 0 =>
         /\ r.started <=> InTable(n)
         /\ (AtMember(n) /\ Read(n) = 1) => r.pending # Null
         /\ (AtMember(n) /\ Read(n) = 2) => r.line_no = 3

\* The table of the second volume begins after this many lines.
Second == Past + 1 + text

AtRar(r, n) ==
    LET there == n > Second /\ n <= Second + 3
    IN /\ r.started <=> (InTable(n) \/ (there /\ \E i \in 1..Number : members[i].kind = "split"))
       /\ InTable(n) => (r.odd <=> Read(n) = 0) /\ (Read(n) = 1 => r.pending = Entry(Of(n)))
       /\ (r.started /\ there) => (r.odd <=> n # Second + 2)

AtUnstuff(r, files_, n) ==
    (AtMember(n) /\ Read(n) = 1) =>
        /\ r.pending # Null /\ files_ # <<>>
        /\ files_[Len(files_)] = [Rooted(Entry(Of(n))) EXCEPT !.modified = Clock(Now)]

Shows(entries, m) == \E k \in DOMAIN entries : IsOf(entries[k], m)
Excused(m) ==
    \/ NameLost(m)
    \/ back_end = "zip" /\ m.kind = "link"
    \/ back_end = "iso" /\ m.kind = "dir"
    \/ back_end = "arj" /\ restarts > 0

ReaderAt(s, n) ==
    CASE back_end = "sevenz" -> At7z(s.r, n)
      [] back_end = "ace" -> AtAce(s.r, n)
      [] back_end = "alz" -> (s.r.started <=> InTable(n))
      [] back_end = "arj" ->
            /\ AtArj(s.r, n)
            /\ (AtMember(n) /\ Read(n) = 2) => Shows(s.files, Of(n)) \/ Excused(Of(n))
      [] back_end = "iso" -> n > 0 => s.r.folder = "/"
      [] back_end = "rar" -> AtRar(s.r, n)
      [] back_end = "unstuff" -> AtUnstuff(s.r, s.files, n)
      [] back_end = "zip" -> s.r.empty => Number = 0
      [] OTHER -> TRUE

ShownAt(entries, n) ==
    \A i \in 1..Number : n >= First + Width * i => Shows(entries, members[i]) \/ Excused(members[i])

\* The date is the one shown of the member.
IsDated(e) ==
    (e.of # Null /\ back_end \notin Dateless) =>
        e.modified = Modified(back_end, Shown(back_end, e.of.date))
HasPaths(e) == e.original \in Range(Order) /\ e.full \in Range(Order)
Fine(e) == IsDated(e) /\ HasPaths(e)

Good(s, n) ==
    /\ s \in States /\ ~s.crashed
    /\ ReaderAt(s, n)
    /\ ShownAt(s.files, n)
    /\ \A k \in DOMAIN s.files : Fine(s.files[k])

Listed ==
    /\ back_end \in BackEnds /\ members \in Archives /\ Holds(back_end, members)
    /\ style \in Styles(back_end) /\ text \in Nat /\ restarts \in Nat

LineKinds ==
    {"version", "text", "archive", "separator", "size", "blank", "path", "folder", "titles", "row",
     "name", "info", "more", "about", "control", "heading", "rest", "empty"}
Lines == [kind : LineKinds, of : Member \cup {Null}]

At == Len(Printing) - Len(lines)

Running ==
    /\ lines \in Seq(Lines)
    /\ Len(lines) <= Len(Printing)
    /\ \A q \in 1..Len(lines) : lines[q] = Printing[At + q]
    /\ Good(State, At)

InOrder == \A i, k \in DOMAIN files : i < k => Rank(files[i].full) <= Rank(files[k].full)

Loaded ==
    /\ files \in Seq(FileData)
    /\ \A i \in 1..Number : Shows(files, members[i]) \/ Excused(members[i])
    /\ \A k \in DOMAIN files : Fine(files[k])
    /\ InOrder

ListingInv ==
    /\ Listed
    /\ outcome = "running" => Running
    /\ outcome = "loaded" => Loaded
    /\ CrashesOnlyOnCutLinesUnlessArj

----
(* What is printed. *)
LEMMA Numbers ==
    ASSUME Listed
    PROVE  /\ members \in Seq(Member) /\ Number \in Nat /\ DOMAIN members = 1..Number
           /\ \A i \in 1..Number : members[i] \in Member /\ members[i] # Null
           /\ First \in Nat /\ Width \in 1..4 /\ Past \in Nat
           /\ Past = First + Width * Number /\ First <= Past
<1>1. members \in Seq(Member) BY ListingAssumption DEF Listed
<1>2. /\ Number \in Nat /\ DOMAIN members = 1..Number
      /\ \A i \in 1..Number : members[i] \in Member
 BY <1>1 DEF Number
<1>3. Null \notin Member BY ListingAssumption
<1>4. First \in Nat BY DEF First, Listed
<1>5. Width \in {1, 2, 3, 4} BY DEF Width
<1>6. Past \in Nat /\ First <= Past
 <2>1. Width * Number \in Nat BY <1>2, <1>5
 <2> HIDE DEF First, Width, Number
 <2>. QED BY <1>4, <2>1 DEF Past
<1>. QED BY <1>1, <1>2, <1>3, <1>4, <1>5, <1>6 DEF Past

LEMMA Concatenated ==
    ASSUME NEW S, NEW a \in Seq(S), NEW b \in Seq(S)
    PROVE  /\ a \o b \in Seq(S) /\ Len(a \o b) = Len(a) + Len(b)
           /\ Len(a) \in Nat /\ Len(b) \in Nat
           /\ \A p \in 1..Len(a) : (a \o b)[p] = a[p]
           /\ \A p \in (Len(a) + 1)..(Len(a) + Len(b)) : (a \o b)[p] = b[p - Len(a)]
  OBVIOUS

LEMMA TextsAre ==
    ASSUME Listed
    PROVE  /\ Texts("text") \in Seq(Lines) /\ Len(Texts("text")) = text
           /\ \A p \in 1..text : Texts("text")[p] = Line("text", Null)
<1>1. text \in Nat BY DEF Listed
<1>2. Texts("text") = [p \in 1..text |-> Line("text", Null)] BY DEF Texts
<1>3. Line("text", Null) \in Lines BY DEF Line, Lines, LineKinds
<1>. QED BY <1>1, <1>2, <1>3

LEMMA EachIs ==
    ASSUME NEW ms \in Seq(Member), NEW kinds \in Seq(LineKinds), NEW n \in {1, 2, 3, 4}, Len(kinds) = n
    PROVE  /\ Each(ms, kinds) \in Seq(Lines) /\ Len(Each(ms, kinds)) = n * Len(ms)
           /\ \A p \in 0..(n * Len(ms) - 1) :
                 /\ (p % n) + 1 \in 1..n /\ (p \div n) + 1 \in 1..Len(ms)
                 /\ Each(ms, kinds)[p + 1] = Line(kinds[(p % n) + 1], ms[(p \div n) + 1])
<1> DEFINE L == Len(ms)
<1>1. L \in Nat /\ \A i \in 1..L : ms[i] \in Member OBVIOUS
<1>2. \A j \in 1..n : kinds[j] \in LineKinds OBVIOUS
<1>3. n * L \in Nat /\ L * n = n * L BY <1>1
<1>4. \A p \in 0..(n * L - 1) : (p % n) + 1 \in 1..n /\ (p \div n) + 1 \in 1..L
 <2> HIDE DEF L
 <2>1. CASE n = 1 BY <2>1, <1>1
 <2>2. CASE n = 2 BY <2>2, <1>1
 <2>3. CASE n = 3 BY <2>3, <1>1
 <2>4. CASE n = 4 BY <2>4, <1>1
 <2>. QED BY <2>1, <2>2, <2>3, <2>4
<1>5. Each(ms, kinds) = [p \in 1..(n * L) |-> Line(kinds[((p - 1) % n) + 1], ms[((p - 1) \div n) + 1])]
 BY <1>3 DEF Each
<1> HIDE DEF L
<1>6. \A p \in 1..(n * L) : Line(kinds[((p - 1) % n) + 1], ms[((p - 1) \div n) + 1]) \in Lines
 <2> SUFFICES ASSUME NEW p \in 1..(n * L)
              PROVE  Line(kinds[((p - 1) % n) + 1], ms[((p - 1) \div n) + 1]) \in Lines
  OBVIOUS
 <2>1. p - 1 \in 0..(n * L - 1) BY <1>3
 <2> QED BY <2>1, <1>4, <1>1, <1>2 DEF Line, Lines
<1> DEFINE e == Each(ms, kinds)
<1>7. e \in Seq(Lines) /\ Len(e) = n * L BY <1>3, <1>5, <1>6
<1>8. ASSUME NEW p \in 0..(n * L - 1)
      PROVE  e[p + 1] = Line(kinds[(p % n) + 1], ms[(p \div n) + 1])
 <2>1. p + 1 \in 1..(n * L) /\ (p + 1) - 1 = p BY <1>3
 <2>. QED BY <2>1, <1>5
<1>. QED BY <1>4, <1>7, <1>8 DEF L

\* The lines before, of and after the members.
LEMMA BlockIs ==
    ASSUME Listed, NEW head \in Seq(Lines), NEW tail \in Seq(Lines), Len(head) = First,
           Printing = (head \o Each(members, KindsOf)) \o tail
    PROVE  /\ Printing \in Seq(Lines) /\ Len(Printing) = Past + Len(tail)
           /\ \A n \in Nat : AtMember(n) =>
                 /\ Read(n) \in 0..(Width - 1) /\ ((n - First) \div Width) + 1 \in 1..Number
                 /\ Printing[n + 1] = Line(KindsOf[Read(n) + 1], Of(n))
           /\ \A n \in 0..(First - 1) : Printing[n + 1] = head[n + 1]
           /\ \A n \in Past..(Past + Len(tail) - 1) : Printing[n + 1] = tail[(n + 1) - Past]
<1> DEFINE e == Each(members, KindsOf)
<1>1. Width \in {1, 2, 3, 4} /\ KindsOf \in Seq(LineKinds) /\ Len(KindsOf) = Width
 <2>1. CASE back_end = "sevenz" BY <2>1 DEF Width, KindsOf, LineKinds
 <2>2. CASE back_end = "arj" BY <2>2 DEF Width, KindsOf, LineKinds
 <2>3. CASE back_end = "rar" BY <2>3 DEF Width, KindsOf, LineKinds
 <2>4. CASE back_end = "unstuff" BY <2>4 DEF Width, KindsOf, LineKinds
 <2>5. CASE back_end \notin {"sevenz", "arj", "rar", "unstuff"}
  <3>1. Width = 1 /\ KindsOf = <<"row">> BY <2>5 DEF Width, KindsOf
  <3>. QED BY <3>1 DEF LineKinds
 <2>. QED BY <2>1, <2>2, <2>3, <2>4, <2>5
<1>2. /\ members \in Seq(Member) /\ Number \in Nat /\ First \in Nat /\ Past \in Nat
      /\ Past = First + Width * Number /\ Width * Number \in Nat
 BY Numbers, <1>1
<1>3. /\ e \in Seq(Lines) /\ Len(e) = Width * Number
      /\ \A p \in 0..(Width * Number - 1) :
            /\ (p % Width) + 1 \in 1..Width /\ (p \div Width) + 1 \in 1..Number
            /\ e[p + 1] = Line(KindsOf[(p % Width) + 1], members[(p \div Width) + 1])
 <2> HIDE DEF Width, KindsOf
 <2>. QED BY <1>1, <1>2, EachIs DEF Number
<1> HIDE DEF e, Width, KindsOf, First, Past, Printing, Number
<1> DEFINE W == Width * Number
<1> DEFINE a == head \o e
<1>4. /\ a \in Seq(Lines) /\ Len(a) = First + W
      /\ \A p \in 1..First : a[p] = head[p]
      /\ \A p \in (First + 1)..(First + W) : a[p] = e[p - First]
 <2>1. /\ a \in Seq(Lines) /\ Len(a) = Len(head) + Len(e)
       /\ \A p \in 1..Len(head) : a[p] = head[p]
       /\ \A p \in (Len(head) + 1)..(Len(head) + Len(e)) : a[p] = e[p - Len(head)]
  BY <1>3, Concatenated
 <2>. QED BY <2>1, <1>3
<1>5. Len(a) = Past BY <1>2, <1>4
<1> HIDE DEF a
<1>6. Printing = a \o tail BY DEF a, e
<1> HIDE DEF W
<1>7. /\ Printing \in Seq(Lines) /\ Len(Printing) = Past + Len(tail) /\ Len(tail) \in Nat
      /\ \A p \in 1..Past : Printing[p] = a[p]
      /\ \A p \in (Past + 1)..(Past + Len(tail)) : Printing[p] = tail[p - Past]
 <2>1. /\ Printing \in Seq(Lines) /\ Len(Printing) = Len(a) + Len(tail) /\ Len(tail) \in Nat
       /\ \A p \in 1..Len(a) : Printing[p] = a[p]
       /\ \A p \in (Len(a) + 1)..(Len(a) + Len(tail)) : Printing[p] = tail[p - Len(a)]
  <3>1. /\ a \o tail \in Seq(Lines) /\ Len(a \o tail) = Len(a) + Len(tail) /\ Len(tail) \in Nat
        /\ \A p \in 1..Len(a) : (a \o tail)[p] = a[p]
        /\ \A p \in (Len(a) + 1)..(Len(a) + Len(tail)) : (a \o tail)[p] = tail[p - Len(a)]
   BY <1>4, Concatenated
  <3>. QED BY <3>1, <1>6
 <2>. QED BY <2>1, <1>5
<1>8. ASSUME NEW n \in Nat, AtMember(n)
      PROVE  /\ Read(n) \in 0..(Width - 1) /\ ((n - First) \div Width) + 1 \in 1..Number
             /\ Printing[n + 1] = Line(KindsOf[Read(n) + 1], Of(n))
 <2>1. n - First \in 0..(W - 1) /\ n + 1 \in (First + 1)..(First + W) /\ n + 1 \in 1..Past
  BY <1>8, <1>2 DEF AtMember, W
 <2> DEFINE p == n - First
 <2>2. /\ (p % Width) + 1 \in 1..Width /\ (p \div Width) + 1 \in 1..Number
       /\ e[p + 1] = Line(KindsOf[(p % Width) + 1], members[(p \div Width) + 1])
  BY <2>1, <1>3 DEF W
 <2>3. Printing[n + 1] = e[p + 1]
  <3>1. Printing[n + 1] = a[n + 1] BY <2>1, <1>7
  <3>3. a[n + 1] = e[(n + 1) - First] BY <2>1, <1>4
  <3>2. (n + 1) - First = p + 1 BY <1>2
  <3>. QED BY <3>1, <3>2, <3>3
 <2>4. (p % Width) \in 0..(Width - 1)
  <3> QED BY <1>1, <2>1
 <2>. QED BY <2>2, <2>3, <2>4 DEF Read, Of
<1>9. ASSUME NEW n \in 0..(First - 1)
      PROVE  Printing[n + 1] = head[n + 1]
 <2>1. n + 1 \in 1..First /\ n + 1 \in 1..Past BY <1>2
 <2>. QED BY <2>1, <1>4, <1>7
<1>10. ASSUME NEW n \in Past..(Past + Len(tail) - 1)
       PROVE  Printing[n + 1] = tail[(n + 1) - Past]
 <2> DEFINE q == n + 1
 <2>1. q \in (Past + 1)..(Past + Len(tail)) BY <1>2, <1>7
 <2> HIDE DEF q
 <2>2. Printing[q] = tail[q - Past] BY <2>1, <1>7
 <2>. QED BY <2>2, <1>2, <1>7 DEF q
<1>. QED BY <1>7, <1>8, <1>9, <1>10

\* The line after n, before the members.
Before(n) ==
    CASE back_end = "sevenz" ->
            IF n = 0 THEN "version"
            ELSE IF n <= text THEN "text"
            ELSE IF n = text + 1 THEN (IF style = "old" THEN "archive" ELSE "separator")
            ELSE IF n = text + 2 THEN "size" ELSE "blank"
      [] back_end = "ace" -> IF n = 0 THEN "version" ELSE "titles"
      [] back_end = "dpkg" -> IF n = 0 THEN "about" ELSE "control"
      [] back_end = "iso" -> "heading"
      [] back_end \in {"alz", "arj", "rar", "zoo"} -> IF n = text THEN "separator" ELSE "text"
      [] OTHER -> "text"

HasSplit == \E i \in 1..Number : members[i].kind = "split"
Split == CHOOSE m \in Range(members) : m.kind = "split"

\* The line after n, after the members.
After(n) ==
    IF back_end = "zip" THEN Line("empty", Null)
    ELSE IF n = Past THEN Line("separator", Null)
    ELSE IF HasSplit /\ back_end = "rar" /\ n \in {Second, Second + 3} THEN Line("separator", Null)
    ELSE IF HasSplit /\ back_end = "rar" /\ n = Second + 1 THEN Line("name", Split)
    ELSE IF HasSplit /\ back_end = "rar" /\ n = Second + 2 THEN Line("rest", Split)
    ELSE Line("text", Null)

Tabled == {"alz", "arj", "rar", "zoo"}

PrintedAsExpected ==
    /\ Printing \in Seq(Lines) /\ Past <= Len(Printing)
    /\ \A n \in Nat : AtMember(n) =>
          /\ Read(n) \in 0..(Width - 1) /\ ((n - First) \div Width) + 1 \in 1..Number
          /\ Printing[n + 1] = Line(KindsOf[Read(n) + 1], Of(n))
    /\ \A n \in 0..(First - 1) : Printing[n + 1] = Line(Before(n), Null)
    /\ \A n \in Past..(Len(Printing) - 1) : Printing[n + 1] = After(n)
    /\ back_end \in Tabled => Past < Len(Printing)
    /\ back_end = "zip" => Past = Len(Printing) \/ Number = 0
    /\ back_end \notin Tabled \cup {"zip"} => Past = Len(Printing)

Associates(s, t, u) == (s \o t) \o u = s \o (t \o u)
LEMMA Associative == 
  ASSUME NEW S, NEW s \in Seq(S), NEW t \in Seq(S), NEW u \in Seq(S) 
  PROVE  Associates(s, t, u)
BY DEF Associates
Regroups(a, b, c, d, e) ==
    (a \o (((b \o c) \o b) \o d)) \o e = ((a \o b) \o c) \o ((b \o d) \o e)

LEMMA Regrouped ==
    ASSUME NEW S, NEW a \in Seq(S), NEW b \in Seq(S), NEW c \in Seq(S), NEW d \in Seq(S), NEW e \in Seq(S)
    PROVE  Regroups(a, b, c, d, e)
<1>1. b \o c \in Seq(S) /\ b \o d \in Seq(S) /\ a \o b \in Seq(S) BY ConcatProperties
<1>2. (a \o b) \o c \in Seq(S) BY <1>1, ConcatProperties
<1>3. Associates(a, b, c) BY Associative
<1>4. Associates(b \o c, b, d) BY <1>1, Associative
<1>5. Associates(a, b \o c, b \o d) BY <1>1, Associative
<1>6. Associates((a \o b) \o c, b \o d, e) BY <1>1, <1>2, Associative
<1>. QED BY <1>3, <1>4, <1>5, <1>6, Zenon DEF Associates, Regroups

LEMMA LinesTyped ==
    /\ \A k \in LineKinds : Line(k, Null) \in Lines /\ << Line(k, Null) >> \in Seq(Lines)
    /\ << Line("separator", Null) >> \in Seq(Lines) /\ << Line("version", Null) >> \in Seq(Lines)
    /\ << >> \in Seq(Lines)
<1>1. \A k \in LineKinds : Line(k, Null) \in Lines BY DEF Line, Lines
<1>2. {"separator", "version"} \subseteq LineKinds BY DEF LineKinds
<1>3. ASSUME NEW x \in Lines PROVE << x >> \in Seq(Lines) OBVIOUS
<1>. QED BY <1>1, <1>2, <1>3

\* No more is printed than the members.
LEMMA RowsOnly ==
    ASSUME Listed, back_end \in {"ar", "cpio", "gzip", "lha", "rpm", "tar", "unstuff"}
    PROVE  PrintedAsExpected
<1> DEFINE none == << >>
<1>1. none \in Seq(Lines) /\ Len(none) = 0 OBVIOUS
<1>2. First = 0 /\ Printing = Each(members, KindsOf) BY DEF First, Printing, Printed, KindsOf
<1>3. Width \in {1, 2, 3, 4} /\ Each(members, KindsOf) \in Seq(Lines)
 <2>1. Width \in {1, 2} /\ KindsOf \in Seq(LineKinds) /\ Len(KindsOf) = Width
  <3>1. CASE back_end = "unstuff" BY <3>1 DEF Width, KindsOf, LineKinds
  <3>2. CASE back_end # "unstuff"
   <4> QED BY <3>2 DEF Width, KindsOf, LineKinds
  <3>. QED BY <3>1, <3>2
 <2> HIDE DEF Width, KindsOf
 <2>2. members \in Seq(Member) BY Numbers
 <2>. QED BY <2>1, <2>2, EachIs
<1> DEFINE e == Each(members, KindsOf)
<1> HIDE DEF none, e, First
<1>4. Printing = (none \o e) \o none
 <2>1. none \o e = e /\ e \o none = e BY <1>3, ConcatEmptySeq DEF none, e
 <2>. QED BY <2>1, <1>2 DEF e
<1>5. /\ Printing \in Seq(Lines) /\ Len(Printing) = Past + Len(none)
      /\ \A n \in Nat : AtMember(n) =>
            /\ Read(n) \in 0..(Width - 1) /\ ((n - First) \div Width) + 1 \in 1..Number
            /\ Printing[n + 1] = Line(KindsOf[Read(n) + 1], Of(n))
 BY <1>1, <1>2, <1>4, BlockIs DEF e
<1>6. Past \in Nat BY Numbers
<1>. QED BY <1>1, <1>2, <1>5, <1>6 DEF PrintedAsExpected, Tabled

\* What BlockIs says, of some lines before and after.
Between(head, tail) ==
    /\ head \in Seq(Lines) /\ tail \in Seq(Lines) /\ Len(head) = First
    /\ Printing = (head \o Each(members, KindsOf)) \o tail
    /\ \A n \in 0..(First - 1) : head[n + 1] = Line(Before(n), Null)
    /\ \A q \in 0..(Len(tail) - 1) : tail[q + 1] = After(Past + q)
    /\ back_end \in Tabled => Len(tail) > 0
    /\ back_end = "zip" => Len(tail) = 0 \/ Number = 0
    /\ back_end \notin Tabled \cup {"zip"} => Len(tail) = 0

LEMMA BetweenIs ==
    ASSUME Listed, NEW head, NEW tail, Between(head, tail)
    PROVE  PrintedAsExpected
<1> DEFINE L == Len(tail)
<1>1. Past \in Nat /\ First \in Nat /\ Past >= First BY Numbers
<1>2. head \in Seq(Lines) /\ tail \in Seq(Lines) /\ L \in Nat BY DEF Between
<1>3. /\ Printing \in Seq(Lines) /\ Len(Printing) = Past + L
      /\ \A n \in Nat : AtMember(n) =>
            /\ Read(n) \in 0..(Width - 1) /\ ((n - First) \div Width) + 1 \in 1..Number
            /\ Printing[n + 1] = Line(KindsOf[Read(n) + 1], Of(n))
      /\ \A n \in 0..(First - 1) : Printing[n + 1] = head[n + 1]
      /\ \A n \in Past..(Past + L - 1) : Printing[n + 1] = tail[(n + 1) - Past]
 <2>1. Len(head) = First /\ Printing = (head \o Each(members, KindsOf)) \o tail BY DEF Between
 <2> HIDE DEF First, Printing, KindsOf, Width, Past, Number
 <2>. QED BY <2>1, <1>2, BlockIs
<1>4. \A n \in 0..(First - 1) : Printing[n + 1] = Line(Before(n), Null) BY <1>3 DEF Between
<1>5. ASSUME NEW n \in Past..(Len(Printing) - 1)
      PROVE  Printing[n + 1] = After(n)
 <2> DEFINE q == n - Past
 <2>1. q \in 0..(L - 1) /\ q + 1 = (n + 1) - Past /\ Past + q = n /\ n \in Past..(Past + L - 1)
  BY <1>1, <1>2, <1>3
 <2> HIDE DEF q
 <2>2. tail[q + 1] = After(Past + q) BY <2>1 DEF Between
 <2>. QED BY <2>1, <2>2, <1>3
<1>6. /\ Past <= Len(Printing)
      /\ back_end \in Tabled => Past < Len(Printing)
      /\ back_end = "zip" => Past = Len(Printing) \/ Number = 0
      /\ back_end \notin Tabled \cup {"zip"} => Past = Len(Printing)
 <2>1. /\ back_end \in Tabled => L > 0
       /\ back_end = "zip" => L = 0 \/ Number = 0
       /\ back_end \notin Tabled \cup {"zip"} => L = 0
  BY DEF Between
 <2>. QED BY <2>1, <1>1, <1>2, <1>3
<1>. QED BY <1>3, <1>4, <1>5, <1>6 DEF PrintedAsExpected

LEMMA EachTyped ==
    ASSUME Listed
    PROVE  Each(members, KindsOf) \in Seq(Lines) /\ Len(Each(members, KindsOf)) = Width * Number
<1>1. Width \in {1, 2, 3, 4} /\ KindsOf \in Seq(LineKinds) /\ Len(KindsOf) = Width
 <2>1. CASE back_end = "sevenz" BY <2>1 DEF Width, KindsOf, LineKinds
 <2>2. CASE back_end = "arj" BY <2>2 DEF Width, KindsOf, LineKinds
 <2>3. CASE back_end = "rar" BY <2>3 DEF Width, KindsOf, LineKinds
 <2>4. CASE back_end = "unstuff" BY <2>4 DEF Width, KindsOf, LineKinds
 <2>5. CASE back_end \notin {"sevenz", "arj", "rar", "unstuff"}
  <3> QED BY <2>5 DEF Width, KindsOf, LineKinds
 <2>. QED BY <2>1, <2>2, <2>3, <2>4, <2>5
<1>2. members \in Seq(Member) BY Numbers
<1> HIDE DEF Width, KindsOf
<1>. QED BY <1>1, <1>2, EachIs DEF Number

\* A line before or after the text.
LEMMA TextAnd ==
    ASSUME Listed, NEW x \in Lines
    PROVE  /\ Texts("text") \o << x >> \in Seq(Lines) /\ Len(Texts("text") \o << x >>) = text + 1
           /\ \A n \in 0..(text - 1) : (Texts("text") \o << x >>)[n + 1] = Line("text", Null)
           /\ (Texts("text") \o << x >>)[text + 1] = x
           /\ << x >> \o Texts("text") \in Seq(Lines) /\ Len(<< x >> \o Texts("text")) = text + 1
           /\ (<< x >> \o Texts("text"))[1] = x
           /\ \A q \in 1..text : (<< x >> \o Texts("text"))[q + 1] = Line("text", Null)
<1> DEFINE t == Texts("text")
<1> DEFINE one == << x >>
<1>1. text \in Nat BY DEF Listed
<1>2. t \in Seq(Lines) /\ Len(t) = text /\ \A p \in 1..text : t[p] = Line("text", Null) BY TextsAre
<1>3. one \in Seq(Lines) /\ Len(one) = 1 /\ one[1] = x OBVIOUS
<1> HIDE DEF t, one
<1>4. /\ t \o one \in Seq(Lines) /\ Len(t \o one) = Len(t) + Len(one)
      /\ \A p \in 1..Len(t) : (t \o one)[p] = t[p]
      /\ \A p \in (Len(t) + 1)..(Len(t) + Len(one)) : (t \o one)[p] = one[p - Len(t)]
 BY <1>2, <1>3, Concatenated
<1>5. /\ one \o t \in Seq(Lines) /\ Len(one \o t) = Len(one) + Len(t)
      /\ \A p \in 1..Len(one) : (one \o t)[p] = one[p]
      /\ \A p \in (Len(one) + 1)..(Len(one) + Len(t)) : (one \o t)[p] = t[p - Len(one)]
 BY <1>2, <1>3, Concatenated
<1>6. /\ t \o one \in Seq(Lines) /\ Len(t \o one) = text + 1
      /\ \A p \in 1..text : (t \o one)[p] = t[p]
      /\ (t \o one)[text + 1] = one[(text + 1) - text]
 <2>1. text + 1 \in (text + 1)..(text + 1) BY <1>1
 <2>. QED BY <1>4, <1>2, <1>3, <2>1
<1>7. /\ one \o t \in Seq(Lines) /\ Len(one \o t) = 1 + text
      /\ (one \o t)[1] = one[1]
      /\ \A p \in 2..(1 + text) : (one \o t)[p] = t[p - 1]
 <2>1. 1 \in 1..1 /\ 1 + 1 = 2 OBVIOUS
 <2>. QED BY <1>5, <1>2, <1>3, <2>1
<1>8. (text + 1) - text = 1 /\ 1 + text = text + 1 BY <1>1
<1>9. ASSUME NEW n \in 0..(text - 1) PROVE (t \o one)[n + 1] = Line("text", Null)
 <2>1. n + 1 \in 1..text BY <1>1
 <2>. QED BY <2>1, <1>2, <1>6
<1>10. ASSUME NEW q \in 1..text PROVE (one \o t)[q + 1] = Line("text", Null)
 <2>1. q + 1 \in 2..(1 + text) /\ (q + 1) - 1 = q BY <1>1
 <2>. QED BY <2>1, <1>2, <1>7
<1>. QED BY <1>3, <1>6, <1>7, <1>8, <1>9, <1>10 DEF t, one

LEMMA TableLines ==
    ASSUME Listed, back_end \in {"alz", "arj", "zoo"}
    PROVE  PrintedAsExpected
<1> DEFINE t == Texts("text")
<1> DEFINE one == << Line("separator", Null) >>
<1> DEFINE none == << >>
<1> DEFINE e == Each(members, KindsOf)
<1>1. /\ t \in Seq(Lines) /\ one \in Seq(Lines) /\ e \in Seq(Lines)
      /\ Line("separator", Null) \in Lines
 BY TextsAre, EachTyped, LinesTyped DEF LineKinds
<1>2. none \in Seq(Lines) OBVIOUS
<1>3. Printing = (t \o ((one \o e) \o one)) \o t BY DEF Printing, Printed, Table, KindsOf
<1>4. text \in Nat /\ First = text + 1 /\ Past \in Nat BY Numbers DEF First, Listed
<1>5. /\ t \o one \in Seq(Lines) /\ Len(t \o one) = text + 1
      /\ \A n \in 0..(text - 1) : (t \o one)[n + 1] = Line("text", Null)
      /\ (t \o one)[text + 1] = Line("separator", Null)
      /\ one \o t \in Seq(Lines) /\ Len(one \o t) = text + 1
      /\ (one \o t)[1] = Line("separator", Null)
      /\ \A q \in 1..text : (one \o t)[q + 1] = Line("text", Null)
 BY <1>1, TextAnd
<1> HIDE DEF t, one, none, e, First, Past
<1>6. Printing = ((t \o one) \o e) \o (one \o t)
 <2>1. Regroups(t, one, e, none, t) BY <1>1, <1>2, Regrouped
 <2>2. (one \o e) \o one \in Seq(Lines)
  <3>1. one \o e \in Seq(Lines) BY <1>1, ConcatProperties
  <3>. QED BY <3>1, <1>1, ConcatProperties
 <2>3. ((one \o e) \o one) \o none = (one \o e) \o one BY <2>2, ConcatEmptySeq DEF none
 <2>4. one \o none = one BY <1>1, ConcatEmptySeq DEF none
 <2>. QED BY <2>1, <2>3, <2>4, <1>3 DEF Regroups
<1> DEFINE head == t \o one
<1> DEFINE tail == one \o t
<1>7. \A n \in 0..(First - 1) : head[n + 1] = Line(Before(n), Null)
 <2> SUFFICES ASSUME NEW n \in 0..(First - 1) PROVE head[n + 1] = Line(Before(n), Null) OBVIOUS
 <2>1. Before(n) = IF n = text THEN "separator" ELSE "text" BY DEF Before
 <2>2. CASE n = text BY <2>1, <2>2, <1>5
 <2>3. CASE n # text
  <3>1. n \in 0..(text - 1) BY <2>3, <1>4
  <3>. QED BY <2>1, <2>3, <3>1, <1>5
 <2>. QED BY <2>2, <2>3
<1>8. \A q \in 0..(Len(tail) - 1) : tail[q + 1] = After(Past + q)
 <2> SUFFICES ASSUME NEW q \in 0..(Len(tail) - 1) PROVE tail[q + 1] = After(Past + q) OBVIOUS
 <2>1. q \in 0..text BY <1>4, <1>5
 <2>2. After(Past + q) = IF Past + q = Past THEN Line("separator", Null) ELSE Line("text", Null)
  BY DEF After
 <2>3. CASE q = 0 BY <2>2, <2>3, <1>4, <1>5
 <2>4. CASE q # 0
  <3>1. q \in 1..text /\ Past + q # Past BY <2>1, <2>4, <1>4
  <3>. QED BY <2>2, <3>1, <1>5
 <2>. QED BY <2>3, <2>4
<1>9. Between(head, tail)
 <2>1. Len(tail) > 0 /\ back_end \notin {"zip"} /\ back_end \in Tabled BY <1>4, <1>5 DEF Tabled
 <2>. QED BY <2>1, <1>4, <1>5, <1>6, <1>7, <1>8 DEF Between, e
<1>. QED BY <1>9, BetweenIs

\* Some lines and then the members.
LEMMA OnlyBefore ==
    ASSUME Listed, NEW head \in Seq(Lines), Len(head) = First,
           Printing = head \o Each(members, KindsOf),
           \A n \in 0..(First - 1) : head[n + 1] = Line(Before(n), Null),
           back_end \notin Tabled
    PROVE  PrintedAsExpected
<1> DEFINE e == Each(members, KindsOf)
<1> DEFINE none == << >>
<1>1. e \in Seq(Lines) /\ none \in Seq(Lines) /\ Len(none) = 0 BY EachTyped
<1> HIDE DEF e, none
<1>2. head \o e \in Seq(Lines) BY <1>1, ConcatProperties
<1>3. (head \o e) \o none = head \o e BY <1>2, ConcatEmptySeq DEF none
<1>4. Between(head, none)
 <2>1. Printing = (head \o e) \o none BY <1>3 DEF e
 <2>2. \A q \in 0..(Len(none) - 1) : none[q + 1] = After(Past + q) BY <1>1
 <2> HIDE DEF First, Past, Printing, Before, After, KindsOf, Number
 <2>. QED BY <2>1, <2>2, <1>1 DEF Between, e
<1>. QED BY <1>4, BetweenIs

LEMMA SmallTables ==
    ASSUME Listed, back_end \in {"ace", "dpkg", "iso", "lrzip"}
    PROVE  PrintedAsExpected
<1> DEFINE e == Each(members, KindsOf)
<1>1. KindsOf = <<"row">> /\ back_end \notin Tabled BY DEF KindsOf, Tabled
<1> HIDE DEF KindsOf
<1>2. CASE back_end = "ace"
 <2> DEFINE head == << Line("version", Null), Line("titles", Null) >>
 <2>1. Printing = head \o Each(members, KindsOf) /\ First = 2
  BY <1>1, <1>2 DEF Printing, Printed, First
 <2>2. head \in Seq(Lines) /\ Len(head) = 2 BY LinesTyped DEF LineKinds
 <2>3. \A n \in 0..(First - 1) : head[n + 1] = Line(Before(n), Null)
  <3>1. head[1] = Line(Before(0), Null) /\ head[2] = Line(Before(1), Null) BY <1>2 DEF Before
  <3> HIDE DEF head
  <3>. QED BY <3>1, <2>1
 <2> HIDE DEF head, First, Printing, Before
 <2>. QED BY <2>1, <2>2, <2>3, <1>1, OnlyBefore
<1>3. CASE back_end = "dpkg"
 <2> DEFINE head == << Line("about", Null), Line("control", Null) >>
 <2>1. Printing = head \o Each(members, KindsOf) /\ First = 2
  BY <1>1, <1>3 DEF Printing, Printed, First
 <2>2. head \in Seq(Lines) /\ Len(head) = 2 BY LinesTyped DEF LineKinds
 <2>3. \A n \in 0..(First - 1) : head[n + 1] = Line(Before(n), Null)
  <3>1. head[1] = Line(Before(0), Null) /\ head[2] = Line(Before(1), Null) BY <1>3 DEF Before
  <3> HIDE DEF head
  <3>. QED BY <3>1, <2>1
 <2> HIDE DEF head, First, Printing, Before
 <2>. QED BY <2>1, <2>2, <2>3, <1>1, OnlyBefore
<1>4. CASE back_end = "iso"
 <2> DEFINE head == << Line("heading", Null) >>
 <2>1. Printing = head \o Each(members, KindsOf) /\ First = 1
  BY <1>1, <1>4 DEF Printing, Printed, First
 <2>2. head \in Seq(Lines) /\ Len(head) = 1 BY LinesTyped DEF LineKinds
 <2>3. \A n \in 0..(First - 1) : head[n + 1] = Line(Before(n), Null)
  <3>1. head[1] = Line(Before(0), Null) BY <1>4 DEF Before
  <3> HIDE DEF head
  <3>. QED BY <3>1, <2>1
 <2> HIDE DEF head, First, Printing, Before
 <2>. QED BY <2>1, <2>2, <2>3, <1>1, OnlyBefore
<1>5. CASE back_end = "lrzip"
 <2> DEFINE head == Texts("text")
 <2>1. Printing = head \o Each(members, KindsOf) /\ First = text
  BY <1>1, <1>5 DEF Printing, Printed, First
 <2>2. head \in Seq(Lines) /\ Len(head) = text /\ \A p \in 1..text : head[p] = Line("text", Null)
  BY TextsAre
 <2>3. \A n \in 0..(First - 1) : head[n + 1] = Line(Before(n), Null)
  <3>1. \A n \in 0..(First - 1) : n + 1 \in 1..text /\ Before(n) = "text"
   BY <2>1, <1>5 DEF Listed, Before
  <3> HIDE DEF head, First, Before
  <3>. QED BY <3>1, <2>2
 <2> HIDE DEF head, First, Printing, Before
 <2>. QED BY <2>1, <2>2, <2>3, <1>1, OnlyBefore
<1>. QED BY <1>2, <1>3, <1>4, <1>5

LEMMA OneAndTwo ==
    ASSUME NEW S, NEW x \in S, NEW y \in S, NEW z \in S
    PROVE  << x >> \o << y, z >> = << x, y, z >>
<1> DEFINE a == << x >>
<1> DEFINE b == << y, z >>
<1> DEFINE c == << x, y, z >>
<1>1. a \in Seq(S) /\ Len(a) = 1 /\ a[1] = x OBVIOUS
<1>2. b \in Seq(S) /\ Len(b) = 2 /\ b[1] = y /\ b[2] = z OBVIOUS
<1>3. c \in Seq(S) /\ Len(c) = 3 /\ c[1] = x /\ c[2] = y /\ c[3] = z OBVIOUS
<1> HIDE DEF a, b, c
<1>4. /\ a \o b \in Seq(S) /\ Len(a \o b) = Len(a) + Len(b)
      /\ \A p \in 1..Len(a) : (a \o b)[p] = a[p]
      /\ \A p \in (Len(a) + 1)..(Len(a) + Len(b)) : (a \o b)[p] = b[p - Len(a)]
 BY <1>1, <1>2, Concatenated
<1> DEFINE d == a \o b
<1>5. d \in Seq(S) /\ Len(d) = 3 /\ d[1] = a[1] /\ d[2] = b[1] /\ d[3] = b[2] BY <1>1, <1>2, <1>4
<1> HIDE DEF d
<1>6. \A p \in 1..3 : d[p] = c[p] BY <1>1, <1>2, <1>3, <1>5
<1> QED BY <1>3, <1>5, <1>6, SeqEqual DEF a, b, c, d

LEMMA SevenzLines ==
    ASSUME Listed, back_end = "sevenz"
    PROVE  PrintedAsExpected
<1> DEFINE t == Texts("text")
<1> DEFINE one == << Line("version", Null) >>
<1> DEFINE rest == IF style = "old" THEN << Line("archive", Null), Line("size", Null), Line("blank", Null) >>
                   ELSE << Line("separator", Null) >>
<1> DEFINE e == Each(members, KindsOf)
<1> DEFINE head == (one \o t) \o rest
<1>1. text \in Nat /\ First = (IF style = "old" THEN 4 ELSE 2) + text /\ back_end \notin Tabled
 BY DEF Listed, First, Tabled
<1>2. /\ rest \in Seq(Lines) /\ Len(rest) = First - (text + 1) /\ e \in Seq(Lines)
      /\ \A q \in 1..Len(rest) : rest[q] = Line(Before(text + q), Null)
 <2>1. CASE style = "old"
  <3> DEFINE old == << Line("archive", Null), Line("size", Null), Line("blank", Null) >>
  <3>1. rest = old BY <2>1
  <3>2. old \in Seq(Lines) /\ Len(old) = 3 BY LinesTyped DEF LineKinds
  <3>3. First - (text + 1) = 3 BY <1>1, <2>1
  <3>4. Before(text + 1) = "archive" /\ Before(text + 2) = "size" /\ Before(text + 3) = "blank"
   BY <1>1, <2>1 DEF Before
  <3>5. /\ old[1] = Line("archive", Null) /\ old[2] = Line("size", Null) /\ old[3] = Line("blank", Null)
   OBVIOUS
  <3> HIDE DEF old, rest, First, Before
  <3>6. \A q \in 1..Len(old) : old[q] = Line(Before(text + q), Null) BY <3>2, <3>4, <3>5
  <3>. QED BY <3>1, <3>2, <3>3, <3>6, EachTyped
 <2>2. CASE style # "old"
  <3> DEFINE new == << Line("separator", Null) >>
  <3>1. rest = new BY <2>2
  <3>2. new \in Seq(Lines) /\ Len(new) = 1 BY LinesTyped
  <3>3. First - (text + 1) = 1 BY <1>1, <2>2
  <3>4. Before(text + 1) = "separator" BY <1>1, <2>2 DEF Before
  <3>5. new[1] = Line("separator", Null) OBVIOUS
  <3> HIDE DEF new, rest, First, Before
  <3>6. \A q \in 1..Len(new) : new[q] = Line(Before(text + q), Null) BY <3>2, <3>4, <3>5
  <3>. QED BY <3>1, <3>2, <3>3, <3>6, EachTyped
 <2>. QED BY <2>1, <2>2
<1>3. /\ one \o t \in Seq(Lines) /\ Len(one \o t) = text + 1
      /\ (one \o t)[1] = Line("version", Null)
      /\ \A q \in 1..text : (one \o t)[q + 1] = Line("text", Null)
 <2> QED BY LinesTyped, TextAnd DEF LineKinds
<1>4. Printing = head \o Each(members, KindsOf)
 <2>1. Printing = (one \o t) \o ((<< Line(IF style = "old" THEN "archive" ELSE "separator", Null) >>
                    \o (IF style = "old" THEN << Line("size", Null), Line("blank", Null) >> ELSE <<>>)) \o e)
  BY DEF Printing, Printed, Records, KindsOf
 <2>2. << Line(IF style = "old" THEN "archive" ELSE "separator", Null) >>
           \o (IF style = "old" THEN << Line("size", Null), Line("blank", Null) >> ELSE <<>>) = rest
  <3> DEFINE one_ == << Line("separator", Null) >>
  <3>1. << Line("archive", Null) >> \o << Line("size", Null), Line("blank", Null) >>
          = << Line("archive", Null), Line("size", Null), Line("blank", Null) >>
   BY LinesTyped, OneAndTwo DEF LineKinds
  <3>2. one_ \o << >> = one_
   <4>1. one_ \in Seq(Lines) BY LinesTyped
   <4> HIDE DEF one_
   <4>. QED BY <4>1, ConcatEmptySeq
  <3>. QED BY <3>1, <3>2
 <2> HIDE DEF one, t, e, rest
 <2>3. Associates(one \o t, rest, e) BY <1>2, <1>3, Associative
 <2>. QED BY <2>1, <2>2, <2>3 DEF Associates, e
<1> DEFINE h == one \o t
<1> HIDE DEF t, one, rest, e, First, Printing
<1>5. /\ head \in Seq(Lines) /\ Len(head) = First
      /\ \A p \in 1..(text + 1) : head[p] = h[p]
      /\ \A p \in (text + 2)..First : head[p] = rest[p - (text + 1)]
 <2> HIDE DEF h
 <2>1. /\ h \o rest \in Seq(Lines) /\ Len(h \o rest) = Len(h) + Len(rest)
       /\ \A p \in 1..Len(h) : (h \o rest)[p] = h[p]
       /\ \A p \in (Len(h) + 1)..(Len(h) + Len(rest)) : (h \o rest)[p] = rest[p - Len(h)]
  <3>1. h \in Seq(Lines) BY <1>3 DEF h
  <3>. QED BY <3>1, <1>2, Concatenated
 <2>2. Len(h) = text + 1 /\ Len(h) + Len(rest) = First /\ Len(h) + 1 = text + 2
  BY <1>1, <1>2, <1>3 DEF h
 <2>3. head = h \o rest BY DEF h
 <2> HIDE DEF head
 <2>. QED BY <2>1, <2>2, <2>3
<1> HIDE DEF head
<1>6. ASSUME NEW n \in 0..(First - 1)
      PROVE  head[n + 1] = Line(Before(n), Null)
 <2>1. CASE n = 0
  <3>1. Before(n) = "version" /\ n + 1 = 1 /\ 1 \in 1..(text + 1) BY <1>1, <2>1 DEF Before
  <3>. QED BY <3>1, <1>3, <1>5 DEF h
 <2>2. CASE n \in 1..text
  <3>1. Before(n) = "text" /\ n + 1 \in 1..(text + 1) BY <1>1, <2>2 DEF Before
  <3>. QED BY <3>1, <2>2, <1>3, <1>5 DEF h
 <2>3. CASE n > text
  <3> DEFINE q == n - text
  <3>1. n + 1 \in (text + 2)..First /\ (n + 1) - (text + 1) = q /\ q \in 1..Len(rest) /\ text + q = n
   BY <1>1, <1>2, <2>3
  <3> HIDE DEF q
  <3>2. rest[q] = Line(Before(text + q), Null) BY <3>1, <1>2
  <3>. QED BY <3>1, <3>2, <1>5
 <2>. QED BY <2>1, <2>2, <2>3, <1>1
<1>. QED BY <1>1, <1>4, <1>5, <1>6, OnlyBefore

LEMMA ZipLines ==
    ASSUME Listed, back_end = "zip"
    PROVE  PrintedAsExpected
<1> DEFINE t == Texts("text")
<1> DEFINE e == Each(members, KindsOf)
<1> DEFINE one == << Line("empty", Null) >>
<1>1. /\ KindsOf = <<"row">> /\ back_end \notin Tabled /\ First = text /\ text \in Nat /\ Width = 1
      /\ \A n : Before(n) = "text" /\ After(n) = Line("empty", Null)
 BY DEF KindsOf, Tabled, First, Before, After, Width, Listed
<1>2. Printing = t \o (IF members = << >> THEN one ELSE e) BY <1>1 DEF Printing, Printed
<1>3. /\ t \in Seq(Lines) /\ Len(t) = text /\ \A p \in 1..text : t[p] = Line("text", Null)
      /\ e \in Seq(Lines) /\ Len(e) = Width * Number
 BY TextsAre, EachTyped
<1>4. one \in Seq(Lines) /\ Len(one) = 1 /\ one[1] = Line("empty", Null) BY LinesTyped DEF LineKinds
<1> HIDE DEF t, e, one, KindsOf, First, Before, After, Printing, Width
<1>5. \A n \in 0..(First - 1) : t[n + 1] = Line(Before(n), Null)
 <2>1. \A n \in 0..(First - 1) : n + 1 \in 1..text BY <1>1
 <2>. QED BY <2>1, <1>1, <1>3
<1>6. CASE members # << >>
 <2>1. Printing = t \o Each(members, KindsOf) BY <1>2, <1>6 DEF e
 <2>. QED BY <2>1, <1>1, <1>3, <1>5, OnlyBefore
<1>7. CASE members = << >>
 <2>1. Number = 0 BY <1>7 DEF Number
 <2>2. Len(e) = 0 BY <1>1, <1>3, <2>1
 <2>3. t \o e = t
  <3>1. e = << >> BY <1>3, <2>2
  <3>. QED BY <3>1, <1>3, ConcatEmptySeq
 <2>4. Printing = (t \o e) \o one BY <1>2, <1>7, <2>3
 <2>5. \A q \in 0..(Len(one) - 1) : one[q + 1] = After(Past + q) BY <1>1, <1>4
 <2> QED BY <1>1, <1>3, <1>4, <1>5, <2>1, <2>4, <2>5, BetweenIs DEF Between, e
<1>. QED BY <1>6, <1>7

Joined(a, b, c) ==
    /\ c \in Seq(Lines) /\ Len(c) = Len(a) + Len(b)
    /\ \A p \in 1..Len(a) : c[p] = a[p]
    /\ \A p \in (Len(a) + 1)..(Len(a) + Len(b)) : c[p] = b[p - Len(a)]

LEMMA Joins ==
    ASSUME NEW a \in Seq(Lines), NEW b \in Seq(Lines)
    PROVE  Joined(a, b, a \o b)
BY Concatenated DEF Joined

\* What follows the members in a listing of rar.
Edge == << Line("separator", Null) >>
RarMore == IF HasSplit THEN Texts("text") \o RarTable(<< Split >>, "rest") ELSE << >>
RarTail == (Edge \o RarMore) \o Texts("text")

LEMMA RarTailIs ==
    ASSUME Listed, back_end = "rar"
    PROVE  /\ RarMore \in Seq(Lines) /\ RarTail \in Seq(Lines) /\ Len(RarTail) > 0
           /\ \A q \in 0..(Len(RarTail) - 1) : RarTail[q + 1] = After(Past + q)
<1> DEFINE one == Edge
<1> DEFINE more == RarMore
<1> DEFINE tail == RarTail
<1> DEFINE t == Texts("text")
<1>1. text \in Nat /\ t \in Seq(Lines) /\ Len(t) = text /\ \A p \in 1..text : t[p] = Line("text", Null)
 BY TextsAre DEF Listed
<1>2. one \in Seq(Lines) /\ Len(one) = 1 /\ one[1] = Line("separator", Null) BY LinesTyped DEF Edge
<1>3. Past \in Nat /\ Second = (Past + 1) + text BY Numbers DEF Second
<1>4. \A n : After(n) =
        IF n = Past THEN Line("separator", Null)
        ELSE IF HasSplit /\ n \in {Second, Second + 3} THEN Line("separator", Null)
        ELSE IF HasSplit /\ n = Second + 1 THEN Line("name", Split)
        ELSE IF HasSplit /\ n = Second + 2 THEN Line("rest", Split)
        ELSE Line("text", Null)
 BY DEF After
<1>7. tail = (one \o more) \o t BY DEF RarTail
<1> HIDE DEF t, After, Past, Second, one, more, tail
<1>5. CASE ~HasSplit
 <2>1. more = << >> BY <1>5 DEF more, RarMore
 <2>2. more \in Seq(Lines) /\ one \o more = one
  <3>1. << >> \in Seq(Lines) BY LinesTyped
  <3>2. one \o << >> = one BY <1>2, ConcatEmptySeq
  <3>. QED BY <2>1, <3>1, <3>2
 <2>3. tail = << Line("separator", Null) >> \o Texts("text") BY <2>2, <1>7 DEF one, t, Edge
 <2>4. Line("separator", Null) \in Lines BY LinesTyped DEF LineKinds
 <2>5. /\ tail \in Seq(Lines) /\ Len(tail) = text + 1
       /\ tail[1] = Line("separator", Null)
       /\ \A q \in 1..text : tail[q + 1] = Line("text", Null)
  BY <2>3, <2>4, TextAnd
 <2>6. ASSUME NEW q \in 0..(Len(tail) - 1) PROVE tail[q + 1] = After(Past + q)
  <3>1. q = 0 \/ (q \in 1..text /\ Past + q # Past) BY <2>5, <1>1, <1>3
  <3>2. CASE q = 0 BY <3>2, <2>5, <1>3, <1>4
  <3>3. CASE q \in 1..text /\ Past + q # Past BY <3>3, <2>5, <1>4, <1>5
  <3>. QED BY <3>1, <3>2, <3>3
 <2>. QED BY <2>2, <2>5, <2>6, <1>1 DEF more, tail
<1>6. CASE HasSplit
 <2> DEFINE a == Line("separator", Null)
 <2> DEFINE b == Line("name", Split)
 <2> DEFINE c == Line("rest", Split)
 <2> DEFINE two == Each(<< Split >>, <<"name", "rest">>)
 <2> DEFINE four == (one \o two) \o one
 <2>1. Split \in Member
  <3>1. PICK i \in 1..Number : members[i].kind = "split" BY <1>6 DEF HasSplit
  <3>2. \A x \in Range(members) : x \in Member BY Numbers DEF Range
  <3>3. members[i] \in Range(members) BY Numbers DEF Range
  <3>4. Split \in Range(members) BY <3>1, <3>3 DEF Split
  <3>. QED BY <3>2, <3>4
 <2>2. two \in Seq(Lines) /\ Len(two) = 2 /\ two[1] = b /\ two[2] = c
  <3> DEFINE ms == << Split >>
  <3> DEFINE kinds == <<"name", "rest">>
  <3>1. ms \in Seq(Member) /\ Len(ms) = 1 /\ ms[1] = Split BY <2>1
  <3>2. kinds \in Seq(LineKinds) /\ Len(kinds) = 2 /\ kinds[1] = "name" /\ kinds[2] = "rest"
   BY DEF LineKinds
  <3> HIDE DEF ms, kinds
  <3>3. /\ Each(ms, kinds) \in Seq(Lines) /\ Len(Each(ms, kinds)) = 2 * Len(ms)
        /\ \A p \in 0..(2 * Len(ms) - 1) :
              Each(ms, kinds)[p + 1] = Line(kinds[(p % 2) + 1], ms[(p \div 2) + 1])
   BY <3>1, <3>2, EachIs
  <3>4. /\ Each(ms, kinds)[0 + 1] = Line(kinds[(0 % 2) + 1], ms[(0 \div 2) + 1])
        /\ Each(ms, kinds)[1 + 1] = Line(kinds[(1 % 2) + 1], ms[(1 \div 2) + 1])
   <4>1. 0 \in 0..(2 * Len(ms) - 1) /\ 1 \in 0..(2 * Len(ms) - 1) BY <3>1
   <4>. QED BY <4>1, <3>3
  <3>5. /\ 0 + 1 = 1 /\ 1 + 1 = 2 /\ 0 % 2 = 0 /\ 0 \div 2 = 0 /\ 1 % 2 = 1 /\ 1 \div 2 = 0
   OBVIOUS
  <3>6. Each(ms, kinds)[1] = b /\ Each(ms, kinds)[2] = c BY <3>1, <3>2, <3>4, <3>5
  <3>7. two = Each(ms, kinds) BY DEF ms, kinds
  <3> HIDE DEF two
  <3>. QED BY <3>1, <3>3, <3>6, <3>7
 <2> HIDE DEF two
 <2> DEFINE oneTwo == one \o two
 <2>3. /\ oneTwo \in Seq(Lines) /\ Len(oneTwo) = 3 /\ oneTwo[1] = a /\ oneTwo[2] = b /\ oneTwo[3] = c
  <3>1. Joined(one, two, oneTwo) BY <1>2, <2>2, Joins DEF oneTwo
  <3> HIDE DEF oneTwo, a, b, c
  <3>. QED BY <3>1, <1>2, <2>2 DEF Joined, a
 <2> HIDE DEF oneTwo
 <2>4. /\ four \in Seq(Lines) /\ Len(four) = 4
       /\ four[1] = a /\ four[2] = b /\ four[3] = c /\ four[4] = a
  <3>1. Joined(oneTwo, one, oneTwo \o one) BY <1>2, <2>3, Joins
  <3>2. four = oneTwo \o one BY DEF oneTwo
  <3> HIDE DEF four, a, b, c
  <3>3. Joined(oneTwo, one, four) BY <3>1, <3>2
  <3>. QED BY <3>3, <1>2, <2>3 DEF a, Joined
 <2>5. more = t \o four BY <1>6 DEF RarTable, t, two, more, RarMore, one, Edge
 <2> HIDE DEF four, a, b, c
 <2>6. /\ more \in Seq(Lines) /\ Len(more) = text + 4
       /\ \A p \in 1..text : more[p] = t[p]
       /\ \A p \in (text + 1)..(text + 4) : more[p] = four[p - text]
  <3>1. Joined(t, four, t \o four) BY <1>1, <2>4, Joins
  <3>2. Joined(t, four, more) BY <3>1, <2>5
  <3>. QED BY <3>2, <1>1, <2>4 DEF Joined
 <2> DEFINE front == one \o more
 <2>7. /\ front \in Seq(Lines) /\ Len(front) = text + 5 /\ front[1] = one[1]
       /\ \A p \in 2..(text + 5) : front[p] = more[p - 1]
  <3>1. Joined(one, more, front) BY <1>2, <2>6, Joins DEF front
  <3> HIDE DEF front
  <3>3. Len(one) + Len(more) = text + 5 /\ Len(one) + 1 = 2 /\ 1 \in 1..Len(one)
   BY <1>1, <1>2, <2>6
  <3>. QED BY <3>1, <3>3, <1>2 DEF Joined
 <2> HIDE DEF front
 <2>8. /\ tail \in Seq(Lines) /\ Len(tail) = (text + 5) + text
       /\ \A p \in 1..(text + 5) : tail[p] = front[p]
       /\ \A p \in (text + 6)..((text + 5) + text) : tail[p] = t[p - (text + 5)]
  <3>1. Joined(front, t, front \o t) BY <1>1, <2>7, Joins
  <3>2. Joined(front, t, tail) BY <3>1, <1>7 DEF front
  <3>3. Len(front) + Len(t) = (text + 5) + text /\ Len(front) + 1 = text + 6 BY <1>1, <2>7
  <3>. QED BY <3>2, <3>3, <2>7 DEF Joined
 <2>9. ASSUME NEW q \in 0..(Len(tail) - 1) PROVE tail[q + 1] = After(Past + q)
  <3>0. q \in Nat /\ q < (text + 5) + text BY <2>8, <1>1
  <3>1. CASE q = 0
   <4>1. q + 1 \in 1..(text + 5) /\ q + 1 = 1 /\ Past + q = Past BY <3>1, <1>1, <1>3
   <4>. QED BY <4>1, <2>8, <2>7, <1>2, <1>4
  <3>2. CASE q \in 1..text
   <4>1. /\ q + 1 \in 1..(text + 5) /\ q + 1 \in 2..(text + 5) /\ (q + 1) - 1 = q
         /\ Past + q # Past /\ Past + q < Second
    BY <3>2, <1>1, <1>3
   <4>2. tail[q + 1] = t[q]
    <5>1. tail[q + 1] = front[q + 1] BY <4>1, <2>8
    <5>2. front[q + 1] = more[q] BY <4>1, <2>7
    <5>. QED BY <5>1, <5>2, <3>2, <2>6
   <4>3. Past + q \notin {Second, Second + 1, Second + 2, Second + 3} BY <4>1, <1>1, <1>3
   <4>. QED BY <4>1, <4>2, <4>3, <3>2, <1>1, <1>4
  <3>3. CASE q \in (text + 1)..(text + 4)
   <4> DEFINE j == q - text
   <4>1. /\ q + 1 \in 1..(text + 5) /\ q + 1 \in 2..(text + 5) /\ (q + 1) - 1 = q
         /\ q \in (text + 1)..(text + 4) /\ j \in {1, 2, 3, 4}
         /\ Past + q = (Second + j) - 1 /\ Past + q # Past
    BY <3>3, <1>1, <1>3
   <4>2. tail[q + 1] = four[q - text]
    <5>1. tail[q + 1] = front[q + 1] BY <4>1, <2>8
    <5>2. front[q + 1] = more[q] BY <4>1, <2>7
    <5>. QED BY <5>1, <5>2, <4>1, <2>6
   <4> HIDE DEF j
   <4>3. tail[q + 1] = four[j] BY <4>2 DEF j
   <4>4. Second \in Nat BY <1>1, <1>3
   <4>5. CASE j = 1
    <5>1. Past + q = Second BY <4>1, <4>4, <4>5
    <5>. QED BY <5>1, <4>1, <4>3, <4>5, <2>4, <1>4, <1>6 DEF a
   <4>6. CASE j = 2
    <5>1. Past + q = Second + 1 /\ Past + q \notin {Second, Second + 3} BY <4>1, <4>4, <4>6
    <5>. QED BY <5>1, <4>1, <4>3, <4>6, <2>4, <1>4, <1>6 DEF b
   <4>7. CASE j = 3
    <5>1. Past + q = Second + 2 /\ Past + q \notin {Second, Second + 3, Second + 1}
     BY <4>1, <4>4, <4>7
    <5>. QED BY <5>1, <4>1, <4>3, <4>7, <2>4, <1>4, <1>6 DEF c
   <4>8. CASE j = 4
    <5>1. Past + q = Second + 3 BY <4>1, <4>4, <4>8
    <5>. QED BY <5>1, <4>1, <4>3, <4>8, <2>4, <1>4, <1>6 DEF a
   <4>. QED BY <4>1, <4>5, <4>6, <4>7, <4>8
  <3>4. CASE q >= text + 5
   <4>1. /\ q + 1 \in (text + 6)..((text + 5) + text) /\ (q + 1) - (text + 5) \in 1..text
         /\ Past + q # Past /\ Past + q > Second + 3
    BY <3>0, <3>4, <1>1, <1>3
   <4>2. tail[q + 1] = Line("text", Null) BY <4>1, <2>8, <1>1
   <4>3. Past + q \notin {Second, Second + 1, Second + 2, Second + 3} BY <4>1, <1>1, <1>3
   <4>. QED BY <4>1, <4>2, <4>3, <1>4
  <3>5. q = 0 \/ q \in 1..text \/ q \in (text + 1)..(text + 4) \/ q >= text + 5 BY <3>0, <1>1
  <3>. QED BY <3>1, <3>2, <3>3, <3>4, <3>5
 <2>10. Len(tail) > 0 BY <2>8, <1>1
 <2>. QED BY <2>6, <2>8, <2>9, <2>10 DEF more, tail
<1>. QED BY <1>5, <1>6

LEMMA RarLines ==
    ASSUME Listed, back_end = "rar"
    PROVE  PrintedAsExpected
<1> DEFINE t == Texts("text")
<1> DEFINE e == Each(members, KindsOf)
<1> DEFINE head == t \o Edge
<1>1. KindsOf = <<"name", "info">> /\ First = text + 1 /\ text \in Nat BY DEF KindsOf, First, Listed
<1>2. /\ t \in Seq(Lines) /\ e \in Seq(Lines) /\ Edge \in Seq(Lines) /\ RarMore \in Seq(Lines)
      /\ RarTail \in Seq(Lines)
 BY TextsAre, EachTyped, LinesTyped, RarTailIs DEF Edge
<1>3. /\ head \in Seq(Lines) /\ Len(head) = text + 1
      /\ \A n \in 0..(text - 1) : head[n + 1] = Line("text", Null)
      /\ head[text + 1] = Line("separator", Null)
 <2> QED BY LinesTyped, TextAnd DEF LineKinds, Edge
<1>4. Printing = (t \o (((Edge \o e) \o Edge) \o RarMore)) \o t
 <2>1. (\E i \in DOMAIN members : members[i].kind = "split") <=> HasSplit BY Numbers DEF HasSplit
 <2>2. Printing = (Texts("text") \o RarVolumes(members)) \o Texts("text") BY DEF Printing, Printed
 <2>3. RarVolumes(members) = ((Edge \o e) \o Edge) \o RarMore
  <3>1. RarVolumes(members) = RarTable(members, "info") \o RarMore
   BY <2>1 DEF RarVolumes, RarMore, Split
  <3>2. RarTable(members, "info") = (Edge \o e) \o Edge BY <1>1 DEF RarTable, Edge
  <3>. QED BY <3>1, <3>2
 <2>. QED BY <2>2, <2>3
<1> HIDE DEF t, e, KindsOf, First, Printing, Edge, RarMore, RarTail
<1>5. Printing = (head \o e) \o RarTail
 <2>1. Regroups(t, Edge, e, RarMore, t) BY <1>2, Regrouped
 <2>. QED BY <2>1, <1>4 DEF Regroups, RarTail, t
<1> HIDE DEF head
<1>6. \A n \in 0..(First - 1) : head[n + 1] = Line(Before(n), Null)
 <2> SUFFICES ASSUME NEW n \in 0..(First - 1) PROVE head[n + 1] = Line(Before(n), Null) OBVIOUS
 <2>1. Before(n) = IF n = text THEN "separator" ELSE "text" BY DEF Before
 <2>2. CASE n = text BY <2>1, <2>2, <1>3
 <2>3. CASE n # text
  <3>1. n \in 0..(text - 1) BY <2>3, <1>1
  <3>. QED BY <2>1, <2>3, <3>1, <1>3
 <2>. QED BY <2>2, <2>3
<1>7. Between(head, RarTail)
 <2>1. Len(RarTail) > 0 /\ \A q \in 0..(Len(RarTail) - 1) : RarTail[q + 1] = After(Past + q)
  BY RarTailIs
 <2>2. back_end \in Tabled /\ back_end # "zip" /\ Len(head) = First BY <1>1, <1>3 DEF Tabled
 <2>. QED BY <2>1, <2>2, <1>2, <1>3, <1>5, <1>6 DEF Between, e
<1>. QED BY <1>7, BetweenIs

\* Every back end is one of those that have a line function.
Known ==
    {"sevenz", "ace", "alz", "ar", "arj", "cpio", "dpkg", "gzip", "iso", "lha", "lrzip", "rar",
     "rpm", "tar", "unstuff", "zip", "zoo"}

LEMMA IsPrintedAsExpected ==
    ASSUME Listed
    PROVE  PrintedAsExpected /\ back_end \in Known
<1> QED
 BY ListingAssumption, RowsOnly, SmallTables, TableLines, SevenzLines, ZipLines, RarLines DEF
    Listed, Known

----
(* Entries. *)
LEMMA MemberIs ==
    ASSUME NEW m \in Member
    PROVE  /\ m.date \in Moment /\ m # Null /\ m.kind \in {"file", "dir", "link", "split"}
           /\ m.absolute \in BOOLEAN
<1> QED BY ListingAssumption DEF Member

LEMMA ShownIs ==
    ASSUME NEW b, NEW d \in Moment
    PROVE  Shown(b, d) \in Moment
<1>1. d.year \in 1970..2069 /\ d.month \in 0..11 /\ d.hour \in 0..23 /\ 0 \in 0..23 /\ 0 \in 0..59
 BY DEF Moment
<1>2. [d EXCEPT !.hour = 0, !.sec = 0] \in Moment
 <2> DEFINE x == [d EXCEPT !.hour = 0]
 <2>1. x \in Moment BY <1>1 DEF Moment
 <2>2. [d EXCEPT !.hour = 0, !.sec = 0] = [x EXCEPT !.sec = 0] OBVIOUS
 <2> HIDE DEF x
 <2>3. [x EXCEPT !.sec = 0] \in Moment BY <1>1, <2>1 DEF Moment
 <2>. QED BY <2>2, <2>3
<1>4. [d EXCEPT !.sec = 0] \in Moment BY <1>1 DEF Moment
<1> QED BY <1>2, <1>4 DEF Shown

LEMMA ClockIs ==
    ASSUME NEW d, d.year \in Int, d.month \in Int, d.hour \in Int, d.sec \in Int
    PROVE  Clock(d) \in Int
BY DEF Clock

\* A number of seconds, of a year, and of the rest of a moment.
Seconds(year, month, d) == ((year * 12 + month) * 24 + d.hour) * 60 + d.sec
Advance(d) == IF d.month \in Summer THEN 60 ELSE 0

\* What mktime makes of the years since 1900 and the rest of a moment.
Made(y, d) == mktime(Tm(y, d))
MadeNoSummer(y, d) == mktime([Tm(y, d) EXCEPT !.dst = "no"])
MadeMonthLate(y, d) == mktime([Tm(y, d) EXCEPT !.mon = @ + 1, !.dst = "no"])

LEMMA MadeIs ==
    ASSUME NEW y \in Int, NEW d \in Moment
    PROVE  /\ Made(y, d) = Seconds(1900 + y, d.month, d)
           /\ MadeNoSummer(y, d) = Seconds(1900 + y, d.month, d) + Advance(d)
           /\ Made(y, d) \in Int /\ MadeNoSummer(y, d) \in Int /\ MadeMonthLate(y, d) \in Int
<1>1. d.year \in Int /\ d.month \in 0..11 /\ d.hour \in Int /\ d.sec \in Int BY DEF Moment
<1>2. d.month % 12 = d.month BY <1>1
<1>0. Seconds(1900 + y, d.month, d) \in Int /\ Seconds(1900 + y, d.month + 1, d) \in Int
 BY <1>1 DEF Seconds
<1>3. Made(y, d) = Seconds(1900 + y, d.month, d)
 <2> DEFINE tm == Tm(y, d)
 <2>1. tm.year = y /\ tm.mon = d.month /\ tm.hour = d.hour /\ tm.sec = d.sec /\ tm.dst # "no"
  BY DEF Tm
 <2> HIDE DEF tm
 <2>2. mktime(tm) = Seconds(1900 + y, d.month, d) + 0 BY <2>1 DEF mktime, Clock, Seconds
 <2>. QED BY <2>2, <1>0 DEF Made, tm
<1>4. MadeNoSummer(y, d) = Seconds(1900 + y, d.month, d) + Advance(d)
 <2> DEFINE tm == [Tm(y, d) EXCEPT !.dst = "no"]
 <2>1. tm.year = y /\ tm.mon = d.month /\ tm.hour = d.hour /\ tm.sec = d.sec /\ tm.dst = "no"
  BY DEF Tm
 <2> HIDE DEF tm
 <2> QED BY <1>2, <2>1 DEF mktime, Clock, Seconds, Advance, MadeNoSummer, tm
<1>5. MadeMonthLate(y, d) =
        Seconds(1900 + y, d.month + 1, d) + (IF (d.month + 1) % 12 \in Summer THEN 60 ELSE 0)
 <2> DEFINE tm == [Tm(y, d) EXCEPT !.mon = @ + 1, !.dst = "no"]
 <2>1. tm.year = y /\ tm.mon = d.month + 1 /\ tm.hour = d.hour /\ tm.sec = d.sec /\ tm.dst = "no"
  BY DEF Tm
 <2> HIDE DEF tm
 <2> QED BY <2>1 DEF mktime, Clock, Seconds, MadeMonthLate, tm
<1>7. Advance(d) \in Int /\ (IF (d.month + 1) % 12 \in Summer THEN 60 ELSE 0) \in Int BY DEF Advance
<1>. QED BY <1>0, <1>3, <1>4, <1>5, <1>7

LEMMA ModifiedIs ==
    ASSUME NEW b, NEW d \in Moment
    PROVE  Modified(b, d) \in Int
<1>1. d.year \in Int /\ Now.year \in Int BY DatesAssumption DEF Moment
<1>2. Clock(Now) \in Int BY DatesAssumption, ClockIs DEF Moment
<1>3. TwoDigits(d) \in Int BY <1>1 DEF TwoDigits
<1> DEFINE plain == d.year - 1900
<1> DEFINE in2000 == 100 + TwoDigits(d)
<1> DEFINE after75 == IF TwoDigits(d) > 75 THEN TwoDigits(d) ELSE 100 + TwoDigits(d)
<1> DEFINE from75 == IF TwoDigits(d) >= 75 THEN TwoDigits(d) ELSE 100 + TwoDigits(d)
<1> DEFINE ls == LsYear(d)
<1>4. plain \in Int /\ in2000 \in Int /\ ls \in Int /\ after75 \in Int /\ from75 \in Int
 BY <1>1, <1>3 DEF LsYear
<1>5. /\ Modified7z(d) = Made(plain, d) /\ ModifiedTar(d) = Made(plain, d)
      /\ ModifiedAr(d) = Made(plain, d) /\ ModifiedZip(d) = Made(plain, d)
      /\ ModifiedIso(d) = Made(plain, d)
 BY DEF Modified7z, ModifiedTar, ModifiedAr, ModifiedZip, ModifiedIso, Made
<1>6. /\ ModifiedAce(d) = Made(after75, d)
      /\ ModifiedArj(d) = Made(from75, d) /\ ModifiedZoo(d) = Made(from75, d)
 BY DEF ModifiedAce, ModifiedArj, ModifiedZoo, Made
<1>7. /\ ModifiedRar(d) = Made(in2000, d) /\ ModifiedAlz(d) = MadeNoSummer(in2000, d)
      /\ ModifiedDpkg(d) = MadeMonthLate(plain, d)
 BY DEF ModifiedRar, ModifiedAlz, ModifiedDpkg, Made, MadeNoSummer, MadeMonthLate
<1>8. ModifiedCpio(d) = Made(ls, d) /\ ModifiedRpm(d) = Made(ls, d) /\ ModifiedLha(d) = Made(ls, d)
 BY DEF ModifiedCpio, ModifiedRpm, ModifiedLha, Made
<1> HIDE DEF plain, in2000, after75, from75, ls
<1>9. \A y \in Int : Made(y, d) \in Int /\ MadeNoSummer(y, d) \in Int /\ MadeMonthLate(y, d) \in Int
 BY MadeIs
<1>. QED BY <1>2, <1>4, <1>5, <1>6, <1>7, <1>8, <1>9 DEF Modified

LEMMA ModifiedShownIs ==
    ASSUME NEW b, NEW m \in Member
    PROVE  Modified(b, Shown(b, m.date)) \in Int /\ Clock(Now) \in Int
<1>1. Shown(b, m.date) \in Moment BY MemberIs, ShownIs
<1>2. Clock(Now) \in Int BY DatesAssumption, ClockIs DEF Moment
<1>. QED BY <1>1, <1>2, ModifiedIs

LEMMA OrderIs ==
    /\ Order \in Seq(STRING) /\ Null \notin Range(Order)
    /\ \A p \in Range(Order) : Rank(p) \in 1..Len(Order) /\ Order[Rank(p)] = p
<1>1. Order \in Seq(STRING) /\ Null \notin STRING BY ListingAssumption
<1>2. Null \notin Range(Order) BY <1>1 DEF Range
<1>3. ASSUME NEW p \in Range(Order)
      PROVE  Rank(p) \in DOMAIN Order /\ Order[Rank(p)] = p
 <2>1. PICK i \in DOMAIN Order : Order[i] = p BY <1>3 DEF Range
 <2>. QED BY <2>1 DEF Rank
<1>4. DOMAIN Order = 1..Len(Order) BY <1>1
<1>. QED BY <1>1, <1>2, <1>3, <1>4

\* The fields of an entry.
EntryFields(e, of, original, full, dir, size, modified, name) ==
    /\ e.of = of /\ e.original = original /\ e.full = full /\ e.dir = dir
    /\ e.size = size /\ e.modified = modified /\ e.name = name

LEMMA NullIsNoEntry == \A e \in FileData : e # Null
BY ListingAssumption

LEMMA SizedIs ==
    ASSUME NEW e \in FileData, NEW m \in Member
    PROVE  /\ Sized(e, m) \in FileData
           /\ EntryFields(Sized(e, m), e.of, e.original, e.full, e.dir, m,
                     Modified(back_end, Shown(back_end, m.date)), e.name)
<1> DEFINE d == Modified(back_end, Shown(back_end, m.date))
<1>1. d \in Int /\ m # Null BY ModifiedShownIs, MemberIs
<1>2. Sized(e, m) = [e EXCEPT !.size = m, !.modified = d] BY <1>1 DEF Sized
<1> HIDE DEF d
<1> DEFINE x == [e EXCEPT !.size = m]
<1>3. x \in FileData /\ EntryFields(x, e.of, e.original, e.full, e.dir, m, e.modified, e.name)
 BY DEF FileData, EntryFields
<1>4. [e EXCEPT !.size = m, !.modified = d] = [x EXCEPT !.modified = d] OBVIOUS
<1> HIDE DEF x
<1> DEFINE y == [x EXCEPT !.modified = d]
<1>5. y \in FileData /\ EntryFields(y, x.of, x.original, x.full, x.dir, x.size, d, x.name)
 BY <1>1, <1>3 DEF FileData, EntryFields
<1>6. Sized(e, m) = y BY <1>2, <1>4
<1> HIDE DEF y
<1>. QED BY <1>3, <1>5, <1>6 DEF EntryFields, d

LEMMA IsDirIs ==
    ASSUME NEW e \in FileData
    PROVE  /\ IsDir(e) \in FileData
           /\ EntryFields(IsDir(e), e.of, e.original, e.full, e.of.kind = "dir", e.size, e.modified, e.name)
<1>1. (e.of.kind = "dir") \in BOOLEAN OBVIOUS
<1> DEFINE b == (e.of.kind = "dir")
<1>2. IsDir(e) = [e EXCEPT !.dir = b] BY DEF IsDir
<1>3. b \in BOOLEAN BY <1>1
<1> HIDE DEF b
<1> QED BY <1>2, <1>3 DEF FileData, EntryFields, b

NeedsSlash(e) == e.of.kind = "dir" /\ back_end \notin SlashPrinted

LEMMA SlashedIs ==
    ASSUME NEW e \in FileData, NeedsSlash(e) => e.full \o "/" \in Range(Order)
    PROVE  /\ Slashed(e) \in FileData
           /\ EntryFields(Slashed(e), e.of, e.original, IF NeedsSlash(e) THEN e.full \o "/" ELSE e.full,
                     e.dir, e.size, e.modified, e.name)
<1>1. CASE ~NeedsSlash(e) BY <1>1 DEF Slashed, EntryFields, NeedsSlash
<1>2. CASE NeedsSlash(e)
 <2> DEFINE p == e.full \o "/"
 <2>1. Slashed(e) = [e EXCEPT !.full = p] /\ p \in Range(Order) BY <1>2 DEF Slashed, NeedsSlash
 <2> HIDE DEF p
 <2>2. /\ Slashed(e) \in FileData
       /\ EntryFields(Slashed(e), e.of, e.original, p, e.dir, e.size, e.modified, e.name)
  BY <2>1 DEF FileData, EntryFields
 <2>. QED BY <1>2, <2>2 DEF p
<1>. QED BY <1>1, <1>2

LEMMA RootedIs ==
    ASSUME NEW e \in FileData
    PROVE  /\ Rooted(e) \in FileData
           /\ EntryFields(Rooted(e), e.of, e.full, e.full, e.dir, e.size, e.modified, e.name)
BY DEF Rooted, FileData, EntryFields

\* Where the paths of a member are.
LEMMA PathsAre ==
    ASSUME Listed, NEW i \in 1..Number, NEW m, m = members[i]
    PROVE  /\ m \in Member /\ m # Null
           /\ Name(m) \in Range(Order)
           /\ Entry(m).full \in Range(Order)
           /\ NeedsSlash(Entry(m)) => Entry(m).full \o "/" \in Range(Order)
           /\ m.kind \in MayHold(back_end)
<1>1. m \in Member /\ m # Null /\ i \in DOMAIN members BY Numbers
<1>2. PathsBy(back_end, style, members[i]) \subseteq Range(Order)
 <2>1. members \in Archives /\ back_end \in {x \in BackEnds : Holds(x, members)} /\ style \in Styles(back_end)
  BY DEF Listed
 <2>. QED BY <1>1, <2>1, OrderAssumption
<1>3. PathsBy(back_end, style, m) \subseteq Range(Order) BY <1>2
<1>4. m.kind \in MayHold(back_end) BY <1>1 DEF Listed, Holds
<1> DEFINE full == IF m.absolute THEN Name(m) ELSE "/" \o Name(m)
<1>5. PathsBy(back_end, style, m) =
        {Name(m), full} \cup (IF m.kind = "dir" /\ back_end \notin SlashPrinted THEN {full \o "/"} ELSE {})
 BY DEF PathsBy, Name
<1>6. Entry(m).full = full /\ Entry(m).of = m BY DEF Entry
<1> HIDE DEF full
<1>. QED BY <1>1, <1>3, <1>4, <1>5, <1>6 DEF NeedsSlash

LEMMA EntryIs ==
    ASSUME Listed, NEW i \in 1..Number, NEW m, m = members[i]
    PROVE  /\ Entry(m) \in FileData
           /\ Entry(m).original = Name(m)
           /\ EntryFields(Entry(m), m, Name(m), Entry(m).full, FALSE, Null, Null, m)
<1>1. m \in Member /\ Name(m) \in Range(Order) /\ Entry(m).full \in Range(Order) BY PathsAre
<1>2. EntryFields(Entry(m), m, Name(m), Entry(m).full, FALSE, Null, Null, m)
 BY DEF Entry, EntryFields
<1> DEFINE full == IF m.absolute THEN Name(m) ELSE "/" \o Name(m)
<1>3. Entry(m) = [of |-> m, original |-> Name(m), full |-> full,
                  dir |-> FALSE, size |-> Null, modified |-> Null, name |-> m]
 BY DEF Entry
<1>4. full = Entry(m).full BY <1>3
<1> HIDE DEF full
<1>5. Entry(m) \in FileData BY <1>1, <1>3, <1>4 DEF FileData
<1>. QED BY <1>2, <1>5 DEF EntryFields

LEMMA Unchanged ==
    ASSUME NEW e \in FileData
    PROVE  /\ e.size = Null => [e EXCEPT !.size = Null] = e
           /\ e.modified = Null => [e EXCEPT !.modified = Null] = e
BY DEF FileData

LEMMA NoPathIs ==
    /\ NoPath \in FileData /\ NoPath.original = Null /\ NoPath # Null
    /\ Sized(NoPath, Null) = NoPath
<1>1. NoPath \in FileData /\ NoPath.original = Null BY DEF NoPath, FileData
<1>2. Sized(NoPath, Null) = NoPath
 <2>1. Sized(NoPath, Null) = [NoPath EXCEPT !.size = Null, !.modified = Null] BY DEF Sized
 <2> DEFINE x == [NoPath EXCEPT !.size = Null]
 <2>0. NoPath.size = Null /\ NoPath.modified = Null BY DEF NoPath
 <2>2. x = NoPath BY <1>1, <2>0, Unchanged
 <2>3. [NoPath EXCEPT !.size = Null, !.modified = Null] = [x EXCEPT !.modified = Null] OBVIOUS
 <2>4. [NoPath EXCEPT !.modified = Null] = NoPath BY <1>1, <2>0, Unchanged
 <2> HIDE DEF x
 <2>. QED BY <2>1, <2>2, <2>3, <2>4
<1>. QED BY <1>1, <1>2, NullIsNoEntry

LEMMA ControlEntryIs == ControlEntry \in FileData /\ Fine(ControlEntry)
<1> DEFINE p == "DEBIAN/control"
<1> DEFINE q == "/" \o "DEBIAN/control"
<1>1. p \in Range(Order) /\ q \in Range(Order) BY OrderAssumption
<1>2. ControlEntry = [of |-> Null, original |-> p, full |-> q, dir |-> FALSE, size |-> Null,
                      modified |-> Null, name |-> Null]
 BY DEF ControlEntry
<1> HIDE DEF p, q
<1>. QED BY <1>1, <1>2 DEF FileData, Fine, IsDated, HasPaths

\* What is kept of a member when all of its lines are read.
Final(m) ==
    CASE back_end \in {"ace", "ar", "arj", "gzip", "lrzip", "zoo"} -> Row(m)
      [] back_end \in {"alz", "lha", "tar", "zip"} -> IsDir(Row(m))
      [] back_end \in {"cpio", "dpkg", "rar", "rpm"} -> IsDir(Slashed(Row(m)))
      [] back_end = "iso" -> Rooted(Row(m))
      [] back_end = "sevenz" -> Sized(IsDir(Entry(m)), m)
      [] back_end = "unstuff" -> Sized([Rooted(Entry(m)) EXCEPT !.modified = Clock(Now)], m)

\* Of a file that is not unpacked yet.
Unsized(m) == [Rooted(Entry(m)) EXCEPT !.modified = Clock(Now)]

\* That an entry may be kept, and is the one of the member.
Keeps(e, m) == e \in FileData /\ Fine(e) /\ (~NameLost(m) => IsOf(e, m))

LEMMA NameIs ==
    ASSUME NEW m, ~NameLost(m)
    PROVE  /\ Name(m) \in {m.name, m.name \o "/"}
           /\ back_end \notin SlashPrinted => Name(m) = m.name
BY DEF NameLost, Name, NameBy

\* From the fields of it.
LEMMA KeepsIs ==
    ASSUME Listed, NEW m \in Member, NEW e \in FileData, NEW original, NEW full, NEW dir,
           EntryFields(e, m, original, full, dir, m, Modified(back_end, Shown(back_end, m.date)), m),
           original \in Range(Order), full \in Range(Order),
           ~NameLost(m) => original \in {m.name, m.name \o "/", "/" \o m.name},
           dir = (m.kind = "dir")
    PROVE  Keeps(e, m)
BY DEF Keeps, EntryFields, Fine, IsDated, HasPaths, IsOf

LEMMA RowIs ==
    ASSUME Listed, NEW i \in 1..Number, NEW m, m = members[i]
    PROVE  /\ Row(m) \in FileData
           /\ EntryFields(Row(m), m, Name(m), Entry(m).full, FALSE, m,
                     Modified(back_end, Shown(back_end, m.date)), m)
<1>1. /\ Entry(m) \in FileData
      /\ EntryFields(Entry(m), m, Name(m), Entry(m).full, FALSE, Null, Null, m)
 BY EntryIs
<1>2. m \in Member BY Numbers
<1>3. /\ Sized(Entry(m), m) \in FileData
      /\ EntryFields(Sized(Entry(m), m), Entry(m).of, Entry(m).original, Entry(m).full, Entry(m).dir, m,
                Modified(back_end, Shown(back_end, m.date)), Entry(m).name)
 BY <1>1, <1>2, SizedIs
<1>. QED BY <1>1, <1>3 DEF Row, EntryFields

LEMMA FinalIs ==
    ASSUME Listed, NEW i \in 1..Number, NEW m, m = members[i], ~(back_end = "iso" /\ m.kind = "dir")
    PROVE  Keeps(Final(m), m)
<1> DEFINE row == Row(m)
<1> DEFINE date == Modified(back_end, Shown(back_end, m.date))
<1> DEFINE full == Entry(m).full
<1> DEFINE dirs == {"alz", "cpio", "dpkg", "iso", "lha", "rar", "rpm", "sevenz", "tar", "zip"}
<1>1. /\ m \in Member /\ m # Null /\ Name(m) \in Range(Order) /\ full \in Range(Order)
      /\ NeedsSlash(Entry(m)) => full \o "/" \in Range(Order)
      /\ m.kind \in MayHold(back_end)
 BY PathsAre
<1>2. back_end \notin dirs => m.kind # "dir" BY <1>1 DEF MayHold
<1>3. row \in FileData /\ EntryFields(row, m, Name(m), full, FALSE, m, date, m) BY RowIs
<1>4. ~NameLost(m) =>
        /\ Name(m) \in {m.name, m.name \o "/"}
        /\ back_end \notin SlashPrinted => Name(m) = m.name
 BY NameIs
<1>5. back_end \in Known BY IsPrintedAsExpected
<1>6. Entry(m) \in FileData /\ EntryFields(Entry(m), m, Name(m), full, FALSE, Null, Null, m)
 BY EntryIs
<1>7. NeedsSlash(row) <=> NeedsSlash(Entry(m)) BY <1>3, <1>6 DEF NeedsSlash, EntryFields
<1> HIDE DEF row, date, full
<1>8. CASE back_end \in {"ace", "ar", "arj", "gzip", "lrzip", "zoo"}
 <2>1. Final(m) = row BY <1>8 DEF Final, row
 <2>2. FALSE = (m.kind = "dir") BY <1>8, <1>2
 <2>3. Keeps(row, m) BY <2>2, <1>1, <1>3, <1>4, KeepsIs DEF date
 <2>. QED BY <2>1, <2>3
<1>9. CASE back_end \in {"alz", "lha", "tar", "zip"}
 <2>1. Final(m) = IsDir(row) BY <1>9 DEF Final, row
 <2>2. IsDir(row) \in FileData /\ EntryFields(IsDir(row), m, Name(m), full, m.kind = "dir", m, date, m)
  <3>1. /\ IsDir(row) \in FileData
        /\ EntryFields(IsDir(row), row.of, row.original, row.full, row.of.kind = "dir", row.size, row.modified,
                  row.name)
   BY <1>3, IsDirIs
  <3>. QED BY <3>1, <1>3 DEF EntryFields
 <2>3. Keeps(IsDir(row), m) BY <2>2, <1>1, <1>4, KeepsIs DEF date
 <2>. QED BY <2>1, <2>3
<1>10. CASE back_end \in {"cpio", "dpkg", "rar", "rpm"}
 <2> DEFINE x == Slashed(row)
 <2> DEFINE p == IF NeedsSlash(row) THEN full \o "/" ELSE full
 <2>1. Final(m) = IsDir(x) BY <1>10 DEF Final, row
 <2>2. p \in Range(Order) BY <1>1, <1>7
 <2>3. x \in FileData /\ EntryFields(x, m, Name(m), p, FALSE, m, date, m)
  <3>1. row.full = full BY <1>3 DEF EntryFields
  <3>2. NeedsSlash(row) => row.full \o "/" \in Range(Order) BY <1>1, <1>7, <3>1
  <3>3. /\ Slashed(row) \in FileData
        /\ EntryFields(Slashed(row), row.of, row.original,
                  IF NeedsSlash(row) THEN row.full \o "/" ELSE row.full,
                  row.dir, row.size, row.modified, row.name)
   BY <1>3, <3>2, SlashedIs
  <3>. QED BY <3>1, <3>3, <1>3 DEF EntryFields
 <2> HIDE DEF x, p
 <2>4. IsDir(x) \in FileData /\ EntryFields(IsDir(x), m, Name(m), p, m.kind = "dir", m, date, m)
  <3>1. /\ IsDir(x) \in FileData
        /\ EntryFields(IsDir(x), x.of, x.original, x.full, x.of.kind = "dir", x.size, x.modified, x.name)
   BY <2>3, IsDirIs
  <3>. QED BY <3>1, <2>3 DEF EntryFields
 <2>5. Keeps(IsDir(x), m) BY <2>2, <2>4, <1>1, <1>4, KeepsIs DEF date
 <2>. QED BY <2>1, <2>5
<1>11. CASE back_end = "iso"
 <2>1. Final(m) = Rooted(row) BY <1>11 DEF Final, row
 <2>2. Rooted(row) \in FileData /\ EntryFields(Rooted(row), m, full, full, FALSE, m, date, m)
  <3>1. /\ Rooted(row) \in FileData
        /\ EntryFields(Rooted(row), row.of, row.full, row.full, row.dir, row.size, row.modified, row.name)
   BY <1>3, RootedIs
  <3>. QED BY <3>1, <1>3 DEF EntryFields
 <2>3. FALSE = (m.kind = "dir") BY <1>11
 <2>4. full \in {Name(m), "/" \o Name(m)} BY DEF full, Entry
 <2>5. ~NameLost(m) => full \in {m.name, m.name \o "/", "/" \o m.name}
  BY <2>4, <1>4, <1>11 DEF SlashPrinted
 <2>6. Keeps(Rooted(row), m) BY <2>2, <2>3, <2>5, <1>1, KeepsIs DEF date
 <2>. QED BY <2>1, <2>6
<1>12. CASE back_end = "sevenz"
 <2> DEFINE x == IsDir(Entry(m))
 <2>1. Final(m) = Sized(x, m) BY <1>12 DEF Final
 <2>2. x \in FileData /\ EntryFields(x, m, Name(m), full, m.kind = "dir", Null, Null, m)
  <3>1. /\ IsDir(Entry(m)) \in FileData
        /\ EntryFields(IsDir(Entry(m)), Entry(m).of, Entry(m).original, Entry(m).full, Entry(m).of.kind = "dir",
                  Entry(m).size, Entry(m).modified, Entry(m).name)
   BY <1>6, IsDirIs
  <3>. QED BY <3>1, <1>6 DEF EntryFields
 <2> HIDE DEF x
 <2>3. Sized(x, m) \in FileData /\ EntryFields(Sized(x, m), m, Name(m), full, m.kind = "dir", m, date, m)
  <3>1. /\ Sized(x, m) \in FileData
        /\ EntryFields(Sized(x, m), x.of, x.original, x.full, x.dir, m,
                  Modified(back_end, Shown(back_end, m.date)), x.name)
   BY <2>2, <1>1, SizedIs
  <3>. QED BY <3>1, <2>2 DEF EntryFields, date
 <2>4. Keeps(Sized(x, m), m) BY <2>3, <1>1, <1>4, KeepsIs DEF date
 <2>. QED BY <2>1, <2>4
<1>13. CASE back_end = "unstuff"
 <2> DEFINE x == Unsized(m)
 <2>1. Final(m) = Sized(x, m) BY <1>13 DEF Final, Unsized
 <2>2. x \in FileData /\ EntryFields(x, m, full, full, FALSE, Null, Clock(Now), m)
  <3> DEFINE y == Rooted(Entry(m))
  <3>1. y \in FileData /\ EntryFields(y, m, full, full, FALSE, Null, Null, m)
   <4>1. /\ Rooted(Entry(m)) \in FileData
         /\ EntryFields(Rooted(Entry(m)), Entry(m).of, Entry(m).full, Entry(m).full, Entry(m).dir,
                   Entry(m).size, Entry(m).modified, Entry(m).name)
    BY <1>6, RootedIs
   <4>. QED BY <4>1, <1>6 DEF EntryFields
  <3>2. Clock(Now) \in Int BY <1>1, ModifiedShownIs
  <3>3. x = [y EXCEPT !.modified = Clock(Now)] BY DEF Unsized
  <3> HIDE DEF x, y
  <3>. QED BY <3>1, <3>2, <3>3 DEF FileData, EntryFields
 <2> HIDE DEF x
 <2>3. Sized(x, m) \in FileData /\ EntryFields(Sized(x, m), m, full, full, FALSE, m, date, m)
  <3>1. /\ Sized(x, m) \in FileData
        /\ EntryFields(Sized(x, m), x.of, x.original, x.full, x.dir, m,
                  Modified(back_end, Shown(back_end, m.date)), x.name)
   BY <2>2, <1>1, SizedIs
  <3>. QED BY <3>1, <2>2 DEF EntryFields, date
 <2>4. FALSE = (m.kind = "dir") BY <1>13, <1>2
 <2>5. full \in {Name(m), "/" \o Name(m)} BY DEF full, Entry
 <2>6. ~NameLost(m) => full \in {m.name, m.name \o "/", "/" \o m.name}
  BY <2>5, <1>4, <1>13 DEF SlashPrinted
 <2>7. Keeps(Sized(x, m), m) BY <2>3, <2>4, <2>6, <1>1, KeepsIs DEF date
 <2>. QED BY <2>1, <2>7
<1>. QED BY <1>5, <1>8, <1>9, <1>10, <1>11, <1>12, <1>13 DEF Known

----
(* From one line to the next. *)
Walks(n) ==
    /\ AtMember(n) => Read(n) \in 0..(Width - 1)
    /\ (AtMember(n) /\ Read(n) # Width - 1) =>
          AtMember(n + 1) /\ Read(n + 1) = Read(n) + 1 /\ Of(n + 1) = Of(n)
    /\ (AtMember(n) /\ Read(n) = Width - 1) => InTable(n + 1) /\ Read(n + 1) = 0
    /\ n + 1 = First => Read(n + 1) = 0 /\ InTable(n + 1)
    /\ \A i \in 1..Number : n + 1 = First + Width * i =>
          AtMember(n) /\ Read(n) = Width - 1 /\ Of(n) = members[i]

\* Numbers alone: after p lines of w for each of k members.
Divided(p, w, k) ==
    /\ p % w \in 0..(w - 1)
    /\ (p < w * k /\ p % w # w - 1) =>
          p + 1 < w * k /\ (p + 1) % w = (p % w) + 1 /\ (p + 1) \div w = p \div w
    /\ (p < w * k /\ p % w = w - 1) => p + 1 <= w * k /\ (p + 1) % w = 0
    /\ \A i \in 1..k : p + 1 = w * i => p < w * k /\ p % w = w - 1 /\ (p \div w) + 1 = i

LEMMA Divides ==
    ASSUME NEW p \in Nat, NEW w \in 1..4, NEW k \in Nat
    PROVE  Divided(p, w, k)
<1>1. CASE w = 1 BY <1>1 DEF Divided
<1>2. CASE w = 2 BY <1>2 DEF Divided
<1>3. CASE w = 3 BY <1>3 DEF Divided
<1>4. CASE w = 4 BY <1>4 DEF Divided
<1>. QED BY <1>1, <1>2, <1>3, <1>4

LEMMA Walk ==
    ASSUME Listed, NEW n \in Nat
    PROVE  Walks(n)
<1> DEFINE p == n - First
<1>1. First \in Nat /\ Width \in 1..4 /\ Number \in Nat /\ Past = First + Width * Number /\ Width * Number \in Nat
 <2> QED BY Numbers
<1> HIDE DEF First, Past, Width, Number
<1>2. p >= 0 => Divided(p, Width, Number) BY <1>1, Divides
<1>3. (n + 1) - First = p + 1 BY <1>1
<1>4. Read(n) = p % Width /\ Read(n + 1) = (p + 1) % Width BY <1>3 DEF Read
<1>5. Of(n) = members[(p \div Width) + 1] /\ Of(n + 1) = members[((p + 1) \div Width) + 1]
 BY <1>3 DEF Of
<1>6. AtMember(n) <=> p >= 0 /\ p < Width * Number BY <1>1 DEF AtMember
<1>7. /\ AtMember(n + 1) <=> p + 1 >= 0 /\ p + 1 < Width * Number
      /\ InTable(n + 1) <=> p + 1 >= 0 /\ p + 1 <= Width * Number
 BY <1>1 DEF AtMember, InTable
<1>8. p \in Int BY <1>1
<1>9. n + 1 = First => p + 1 = 0 BY <1>1
<1>10. \A i \in 1..Number : n + 1 = First + Width * i => p + 1 = Width * i /\ p >= 0
 <2> SUFFICES ASSUME NEW i \in 1..Number, n + 1 = First + Width * i
              PROVE  p + 1 = Width * i /\ p >= 0
  OBVIOUS
 <2>1. Width * i \in Nat /\ Width * i >= 1 BY <1>1
 <2>. QED BY <1>1, <2>1
<1> HIDE DEF p
<1>11. 0 % Width = 0 /\ 0 <= Width * Number BY <1>1
<1>12. CASE p >= 0
 <2>1. Divided(p, Width, Number) BY <1>2, <1>12
 <2>2. AtMember(n) => Read(n) \in 0..(Width - 1) BY <1>4, <2>1 DEF Divided
 <2>3. (AtMember(n) /\ Read(n) # Width - 1) =>
         AtMember(n + 1) /\ Read(n + 1) = Read(n) + 1 /\ Of(n + 1) = Of(n)
  BY <1>4, <1>5, <1>6, <1>7, <1>8, <1>12, <2>1 DEF Divided
 <2>4. (AtMember(n) /\ Read(n) = Width - 1) => InTable(n + 1) /\ Read(n + 1) = 0
  BY <1>4, <1>6, <1>7, <1>8, <1>12, <2>1 DEF Divided
 <2>5. n + 1 # First BY <1>8, <1>9, <1>12
 <2>6. \A i \in 1..Number : n + 1 = First + Width * i =>
         AtMember(n) /\ Read(n) = Width - 1 /\ Of(n) = members[i]
  BY <1>4, <1>5, <1>6, <1>10, <2>1 DEF Divided
 <2>. QED BY <2>2, <2>3, <2>4, <2>5, <2>6 DEF Walks
<1>13. CASE ~(p >= 0)
 <2>1. ~AtMember(n) BY <1>6, <1>13
 <2>2. \A i \in 1..Number : n + 1 # First + Width * i BY <1>10, <1>13
 <2>3. n + 1 = First => Read(n + 1) = 0 /\ InTable(n + 1) BY <1>4, <1>7, <1>9, <1>11
 <2>. QED BY <2>1, <2>2, <2>3 DEF Walks
<1>. QED BY <1>12, <1>13

\* What a line may do to the entries.
Filed(old, new) ==
    /\ new \in Seq(FileData)
    /\ \A k \in DOMAIN new : Fine(new[k])
    /\ \A i \in 1..Number : Shows(old, members[i]) => Shows(new, members[i])
Closes(new, n) == (AtMember(n) /\ Read(n) = Width - 1) => Shows(new, Of(n)) \/ Excused(Of(n))

LEMMA StaysShown ==
    ASSUME Listed, NEW n \in Nat, NEW old, NEW new, ShownAt(old, n), Filed(old, new), Closes(new, n)
    PROVE  ShownAt(new, n + 1)
<1> SUFFICES ASSUME NEW i \in 1..Number, n + 1 >= First + Width * i
             PROVE  Shows(new, members[i]) \/ Excused(members[i])
 BY DEF ShownAt
<1>1. First + Width * i \in Nat
 <2>1. First \in Nat /\ Width \in 1..4 /\ Number \in Nat BY Numbers
 <2> HIDE DEF First, Width, Number
 <2>. QED BY <2>1
<1> HIDE DEF First, Width, Number, Shows, Excused
<1>2. CASE n >= First + Width * i BY <1>2 DEF ShownAt, Filed
<1>3. CASE ~(n >= First + Width * i)
 <2>1. n + 1 = First + Width * i BY <1>1, <1>3
 <2> QED BY <2>1, Walk DEF Walks, Closes
<1>. QED BY <1>2, <1>3

LEMMA NothingFiled ==
    ASSUME NEW s \in States, \A k \in DOMAIN s.files : Fine(s.files[k])
    PROVE  Filed(s.files, s.files)
BY DEF Filed, States

LEMMA EntryAdded ==
    ASSUME Listed, NEW s \in States, \A k \in DOMAIN s.files : Fine(s.files[k]),
           NEW e \in FileData, Fine(e)
    PROVE  /\ Add(s, e) \in States /\ Add(s, e).r = s.r /\ Add(s, e).crashed = s.crashed
           /\ Filed(s.files, Add(s, e).files)
           /\ Add(s, e).files = Append(s.files, e)
           /\ \A m : IsOf(e, m) => Shows(Add(s, e).files, m)
<1> DEFINE old == s.files
<1> DEFINE new == Append(old, e)
<1>1. old \in Seq(FileData) /\ \A k \in DOMAIN old : Fine(old[k]) BY DEF States
<1>2. Add(s, e) \in States /\ Add(s, e).r = s.r /\ Add(s, e).crashed = s.crashed /\ Add(s, e).files = new
 BY DEF States, Add
<1> HIDE DEF old
<1>3. /\ new \in Seq(FileData) /\ DOMAIN new = 1..(Len(old) + 1) /\ DOMAIN old = 1..Len(old)
      /\ Len(old) \in Nat
      /\ \A k \in 1..Len(old) : new[k] = old[k]
      /\ new[Len(old) + 1] = e
 BY <1>1
<1> HIDE DEF new
<1>4. \A k \in DOMAIN new : Fine(new[k])
 <2> SUFFICES ASSUME NEW k \in DOMAIN new PROVE Fine(new[k]) OBVIOUS
 <2>1. k \in 1..Len(old) \/ k = Len(old) + 1 BY <1>3
 <2>. QED BY <1>1, <1>3, <2>1
<1>5. \A i \in 1..Number : Shows(old, members[i]) => Shows(new, members[i])
 <2> SUFFICES ASSUME NEW m, Shows(old, m) PROVE Shows(new, m) OBVIOUS
 <2>1. PICK k \in DOMAIN old : IsOf(old[k], m) BY DEF Shows
 <2>2. k \in DOMAIN new /\ new[k] = old[k] BY <1>3, <2>1
 <2>. QED BY <2>1, <2>2 DEF Shows
<1>6. \A m : IsOf(e, m) => Shows(new, m) BY <1>3 DEF Shows
<1>7. Filed(old, new) BY <1>3, <1>4, <1>5 DEF Filed
<1>. QED BY <1>2, <1>6, <1>7 DEF old, new

\* The state of a line function.
Has(r, started, style_, pending, odd, line_no, folder, empty) ==
    /\ r.started = started /\ r.style = style_ /\ r.pending = pending /\ r.odd = odd
    /\ r.line_no = line_no /\ r.folder = folder /\ r.empty = empty

WithOdd(s, b) == [s EXCEPT !.r.odd = b]
WithLine(s, n) == [s EXCEPT !.r.line_no = n]
WithStyle(s, x) == [s EXCEPT !.r.style = x]
WithFolder(s, x) == [s EXCEPT !.r.folder = x]
WithEmpty(s, b) == [s EXCEPT !.r.empty = b]

LEMMA StartIs ==
    ASSUME NEW s \in States, NEW b \in BOOLEAN
    PROVE  /\ Start(s, b) \in States
           /\ Start(s, b).files = s.files /\ Start(s, b).crashed = s.crashed
           /\ Has(Start(s, b).r, b, s.r.style, s.r.pending, s.r.odd, s.r.line_no, s.r.folder, s.r.empty)
<1> DEFINE r == s.r
<1> DEFINE q == [r EXCEPT !.started = b]
<1>1. r \in Readers BY DEF States
<1>2. Start(s, b) = [s EXCEPT !.r = q] BY DEF Start
<1>3. q \in Readers /\ Has(q, b, r.style, r.pending, r.odd, r.line_no, r.folder, r.empty)
 <2> HIDE DEF r
 <2>. QED BY <1>1 DEF Readers, Has
<1> HIDE DEF q
<1>4. Start(s, b) \in States /\ Start(s, b).files = s.files /\ Start(s, b).crashed = s.crashed /\ Start(s, b).r = q
 BY <1>2, <1>3 DEF States
<1>. QED BY <1>3, <1>4 DEF r

LEMMA PendIs ==
    ASSUME NEW s \in States, NEW e \in FileData \cup {Null}
    PROVE  /\ Pend(s, e) \in States
           /\ Pend(s, e).files = s.files /\ Pend(s, e).crashed = s.crashed
           /\ Has(Pend(s, e).r, s.r.started, s.r.style, e, s.r.odd, s.r.line_no, s.r.folder, s.r.empty)
<1> DEFINE r == s.r
<1> DEFINE q == [r EXCEPT !.pending = e]
<1>1. r \in Readers BY DEF States
<1>2. Pend(s, e) = [s EXCEPT !.r = q] BY DEF Pend
<1>3. q \in Readers /\ Has(q, r.started, r.style, e, r.odd, r.line_no, r.folder, r.empty)
 <2> HIDE DEF r
 <2>. QED BY <1>1 DEF Readers, Has
<1> HIDE DEF q
<1>4. Pend(s, e) \in States /\ Pend(s, e).files = s.files /\ Pend(s, e).crashed = s.crashed /\ Pend(s, e).r = q
 BY <1>2, <1>3 DEF States
<1>. QED BY <1>3, <1>4 DEF r

LEMMA WithOddIs ==
    ASSUME NEW s \in States, NEW b \in BOOLEAN
    PROVE  /\ WithOdd(s, b) \in States
           /\ WithOdd(s, b).files = s.files /\ WithOdd(s, b).crashed = s.crashed
           /\ Has(WithOdd(s, b).r, s.r.started, s.r.style, s.r.pending, b, s.r.line_no, s.r.folder, s.r.empty)
<1> DEFINE r == s.r
<1> DEFINE q == [r EXCEPT !.odd = b]
<1>1. r \in Readers BY DEF States
<1>2. WithOdd(s, b) = [s EXCEPT !.r = q] BY DEF WithOdd
<1>3. q \in Readers /\ Has(q, r.started, r.style, r.pending, b, r.line_no, r.folder, r.empty)
 <2> HIDE DEF r
 <2>. QED BY <1>1 DEF Readers, Has
<1> HIDE DEF q
<1>4. WithOdd(s, b) \in States /\ WithOdd(s, b).files = s.files /\ WithOdd(s, b).crashed = s.crashed /\ WithOdd(s, b).r = q
 BY <1>2, <1>3 DEF States
<1>. QED BY <1>3, <1>4 DEF r

LEMMA WithLineIs ==
    ASSUME NEW s \in States, NEW n \in Nat
    PROVE  /\ WithLine(s, n) \in States
           /\ WithLine(s, n).files = s.files /\ WithLine(s, n).crashed = s.crashed
           /\ Has(WithLine(s, n).r, s.r.started, s.r.style, s.r.pending, s.r.odd, n, s.r.folder, s.r.empty)
<1> DEFINE r == s.r
<1> DEFINE q == [r EXCEPT !.line_no = n]
<1>1. r \in Readers BY DEF States
<1>2. WithLine(s, n) = [s EXCEPT !.r = q] BY DEF WithLine
<1>3. q \in Readers /\ Has(q, r.started, r.style, r.pending, r.odd, n, r.folder, r.empty)
 <2> HIDE DEF r
 <2>. QED BY <1>1 DEF Readers, Has
<1> HIDE DEF q
<1>4. WithLine(s, n) \in States /\ WithLine(s, n).files = s.files /\ WithLine(s, n).crashed = s.crashed /\ WithLine(s, n).r = q
 BY <1>2, <1>3 DEF States
<1>. QED BY <1>3, <1>4 DEF r

LEMMA WithStyleIs ==
    ASSUME NEW s \in States, NEW x \in {"unknown", "old", "new"}
    PROVE  /\ WithStyle(s, x) \in States
           /\ WithStyle(s, x).files = s.files /\ WithStyle(s, x).crashed = s.crashed
           /\ Has(WithStyle(s, x).r, s.r.started, x, s.r.pending, s.r.odd, s.r.line_no, s.r.folder, s.r.empty)
<1> DEFINE r == s.r
<1> DEFINE q == [r EXCEPT !.style = x]
<1>1. r \in Readers BY DEF States
<1>2. WithStyle(s, x) = [s EXCEPT !.r = q] BY DEF WithStyle
<1>3. q \in Readers /\ Has(q, r.started, x, r.pending, r.odd, r.line_no, r.folder, r.empty)
 <2> HIDE DEF r
 <2>. QED BY <1>1 DEF Readers, Has
<1> HIDE DEF q
<1>4. WithStyle(s, x) \in States /\ WithStyle(s, x).files = s.files /\ WithStyle(s, x).crashed = s.crashed /\ WithStyle(s, x).r = q
 BY <1>2, <1>3 DEF States
<1>. QED BY <1>3, <1>4 DEF r

LEMMA WithFolderIs ==
    ASSUME NEW s \in States, NEW x \in {Null, "/"}
    PROVE  /\ WithFolder(s, x) \in States
           /\ WithFolder(s, x).files = s.files /\ WithFolder(s, x).crashed = s.crashed
           /\ Has(WithFolder(s, x).r, s.r.started, s.r.style, s.r.pending, s.r.odd, s.r.line_no, x, s.r.empty)
<1> DEFINE r == s.r
<1> DEFINE q == [r EXCEPT !.folder = x]
<1>1. r \in Readers BY DEF States
<1>2. WithFolder(s, x) = [s EXCEPT !.r = q] BY DEF WithFolder
<1>3. q \in Readers /\ Has(q, r.started, r.style, r.pending, r.odd, r.line_no, x, r.empty)
 <2> HIDE DEF r
 <2>. QED BY <1>1 DEF Readers, Has
<1> HIDE DEF q
<1>4. WithFolder(s, x) \in States /\ WithFolder(s, x).files = s.files /\ WithFolder(s, x).crashed = s.crashed /\ WithFolder(s, x).r = q
 BY <1>2, <1>3 DEF States
<1>. QED BY <1>3, <1>4 DEF r

LEMMA WithEmptyIs ==
    ASSUME NEW s \in States, NEW b \in BOOLEAN
    PROVE  /\ WithEmpty(s, b) \in States
           /\ WithEmpty(s, b).files = s.files /\ WithEmpty(s, b).crashed = s.crashed
           /\ Has(WithEmpty(s, b).r, s.r.started, s.r.style, s.r.pending, s.r.odd, s.r.line_no, s.r.folder, b)
<1> DEFINE r == s.r
<1> DEFINE q == [r EXCEPT !.empty = b]
<1>1. r \in Readers BY DEF States
<1>2. WithEmpty(s, b) = [s EXCEPT !.r = q] BY DEF WithEmpty
<1>3. q \in Readers /\ Has(q, r.started, r.style, r.pending, r.odd, r.line_no, r.folder, b)
 <2> HIDE DEF r
 <2>. QED BY <1>1 DEF Readers, Has
<1> HIDE DEF q
<1>4. WithEmpty(s, b) \in States /\ WithEmpty(s, b).files = s.files /\ WithEmpty(s, b).crashed = s.crashed /\ WithEmpty(s, b).r = q
 BY <1>2, <1>3 DEF States
<1>. QED BY <1>3, <1>4 DEF r

\* The lines, by where they are.
LEMMA LineAt ==
    ASSUME Listed, NEW n \in Nat, n < Len(Printing), NEW line, line = Printing[n + 1]
    PROVE  /\ line.kind \in LineKinds
           /\ AtMember(n) =>
                /\ line.kind = KindsOf[Read(n) + 1] /\ line.of = Of(n) /\ Read(n) \in 0..(Width - 1)
                /\ \E i \in 1..Number : Of(n) = members[i]
           /\ n < First => line.kind = Before(n) /\ line.of = Null /\ line = Line(Before(n), Null)
           /\ n >= Past => line = After(n)
           /\ n < First \/ AtMember(n) \/ n >= Past
           /\ First \in Nat /\ Past \in Nat /\ First <= Past /\ text \in Nat
<1>1. PrintedAsExpected /\ First \in Nat /\ Past \in Nat /\ First <= Past
 BY IsPrintedAsExpected, Numbers
<1>2. line \in Lines BY <1>1 DEF PrintedAsExpected
<1>3. ASSUME AtMember(n)
      PROVE  /\ line.kind = KindsOf[Read(n) + 1] /\ line.of = Of(n) /\ Read(n) \in 0..(Width - 1)
             /\ \E i \in 1..Number : Of(n) = members[i]
 <2>1. /\ Read(n) \in 0..(Width - 1) /\ ((n - First) \div Width) + 1 \in 1..Number
       /\ line = Line(KindsOf[Read(n) + 1], Of(n))
  BY <1>1, <1>3 DEF PrintedAsExpected
 <2> HIDE DEF Width, First, Number, Read, KindsOf
 <2>. QED BY <2>1 DEF Line, Of
<1> HIDE DEF First, Past
<1>4. ASSUME n < First PROVE line.kind = Before(n) /\ line.of = Null /\ line = Line(Before(n), Null)
 <2>1. n \in 0..(First - 1) BY <1>1, <1>4
 <2> QED BY <1>1, <2>1 DEF PrintedAsExpected, Line
<1>5. ASSUME n >= Past PROVE line = After(n)
 <2>1. n \in Past..(Len(Printing) - 1) BY <1>1, <1>5 DEF PrintedAsExpected
 <2>. QED BY <1>1, <2>1 DEF PrintedAsExpected
<1>6. n < First \/ AtMember(n) \/ n >= Past BY <1>1 DEF AtMember
<1>7. text \in Nat BY DEF Listed
<1>. QED BY <1>1, <1>2, <1>3, <1>4, <1>5, <1>6, <1>7 DEF Lines

Stepped(t, n) ==
    /\ t.crashed => back_end = "arj" /\ restarts > 0
    /\ ~t.crashed => Good(t, n + 1)

LEMMA IsStepped ==
    ASSUME Listed, NEW n \in Nat, NEW s, Good(s, n), NEW t \in States, ~t.crashed,
           Filed(s.files, t.files), Closes(t.files, n), ReaderAt(t, n + 1)
    PROVE  Stepped(t, n)
<1>1. ShownAt(t.files, n + 1) BY StaysShown DEF Good
<1>2. \A k \in DOMAIN t.files : Fine(t.files[k]) BY DEF Filed
<1>. QED BY <1>1, <1>2 DEF Stepped, Good

\* A line that adds nothing.
LEMMA IsSteppedOver ==
    ASSUME Listed, NEW n \in Nat, NEW s, Good(s, n), NEW t \in States, ~t.crashed,
           t.files = s.files, ReaderAt(t, n + 1),
           AtMember(n) => Read(n) # Width - 1 \/ Shows(s.files, Of(n)) \/ Excused(Of(n))
    PROVE  Stepped(t, n)
<1>1. Filed(s.files, t.files) BY NothingFiled DEF Good
<1>2. Closes(t.files, n) BY DEF Closes
<1>. QED BY <1>1, <1>2, IsStepped

\* What the last line of a member makes.
LEMMA FinalAdded ==
    ASSUME Listed, NEW n \in Nat, n < Len(Printing), AtMember(n), NEW s, Good(s, n),
           ~(back_end = "iso" /\ Of(n).kind = "dir"), NEW t, t = Add(s, Final(Of(n)))
    PROVE  /\ t \in States /\ ~t.crashed /\ t.r = s.r
           /\ Filed(s.files, t.files) /\ Closes(t.files, n)
           /\ Shows(t.files, Of(n)) \/ Excused(Of(n))
<1>1. PICK i \in 1..Number : Of(n) = members[i] BY LineAt
<1>2. Keeps(Final(Of(n)), Of(n)) BY <1>1, FinalIs
<1> DEFINE e == Final(Of(n))
<1>3. e \in FileData /\ Fine(e) /\ (~NameLost(Of(n)) => IsOf(e, Of(n))) BY <1>2 DEF Keeps
<1>4. s \in States /\ ~s.crashed /\ \A k \in DOMAIN s.files : Fine(s.files[k]) BY DEF Good
<1> HIDE DEF e
<1>5. /\ Add(s, e) \in States /\ Add(s, e).r = s.r /\ Add(s, e).crashed = s.crashed
      /\ Filed(s.files, Add(s, e).files)
      /\ \A m : IsOf(e, m) => Shows(Add(s, e).files, m)
 BY <1>3, <1>4, EntryAdded
<1>6. t = Add(s, e) BY DEF e
<1>7. Shows(t.files, Of(n)) \/ Excused(Of(n)) BY <1>3, <1>5, <1>6 DEF Excused
<1>. QED BY <1>4, <1>5, <1>6, <1>7 DEF Closes

----
(* The line functions, one by one. *)
LEMMA RowsStep ==
    ASSUME Listed, NEW n \in Nat, n < Len(Printing), NEW line, line = Printing[n + 1],
           NEW s, Good(s, n), NEW t, t = ReadLine(s, line),
           back_end \in {"ar", "cpio", "gzip", "lha", "rpm", "tar"}
    PROVE  Stepped(t, n)
<1>1. PrintedAsExpected /\ First = 0 /\ Past = Len(Printing)
 BY IsPrintedAsExpected DEF PrintedAsExpected, Tabled, First
<1>2. AtMember(n) BY <1>1 DEF AtMember
<1>3. line.of = Of(n) BY <1>2, LineAt
<1>4. t = Add(s, Final(Of(n)))
 <2>1. t = Add(s, Final(line.of))
  <3>1. CASE back_end \in {"ar", "gzip"} BY <3>1 DEF ReadLine, ReadAr, ReadGzip, Final
  <3>2. CASE back_end \in {"lha", "tar"} BY <3>2 DEF ReadLine, ReadLha, ReadTar, Final
  <3>3. CASE back_end \in {"cpio", "rpm"} BY <3>3 DEF ReadLine, ReadCpio, ReadRpm, Final
  <3>. QED BY <3>1, <3>2, <3>3
 <2>. QED BY <1>3, <2>1
<1>5. ReaderAt(t, n + 1) BY DEF ReaderAt
<1>6. t \in States /\ ~t.crashed /\ Filed(s.files, t.files) /\ Closes(t.files, n)
 BY <1>2, <1>4, FinalAdded
<1>. QED BY <1>5, <1>6, IsStepped

LEMMA SameStep ==
    ASSUME Listed, NEW n \in Nat, NEW s, Good(s, n), ~AtMember(n), ReaderAt(s, n + 1)
    PROVE  Stepped(s, n)
<1> QED BY IsSteppedOver DEF Good

LEMMA LrzipStep ==
    ASSUME Listed, NEW n \in Nat, n < Len(Printing), NEW line, line = Printing[n + 1],
           NEW s, Good(s, n), NEW t, t = ReadLine(s, line), back_end = "lrzip"
    PROVE  Stepped(t, n)
<1>1. PrintedAsExpected /\ Past = Len(Printing) BY IsPrintedAsExpected DEF PrintedAsExpected, Tabled
<1>2. \A x : ReaderAt(x, n + 1) BY DEF ReaderAt
<1>3. t = IF line.kind = "row" THEN Add(s, Row(line.of)) ELSE s BY DEF ReadLine, ReadLrzip
<1>4. CASE AtMember(n)
 <2>1. line.kind = "row" /\ line.of = Of(n)
  <3>1. line.kind = KindsOf[Read(n) + 1] /\ line.of = Of(n) /\ Read(n) \in 0..(Width - 1)
   BY <1>4, LineAt
  <3>2. KindsOf = <<"row">> /\ Width = 1 BY DEF KindsOf, Width
  <3>. QED BY <3>1, <3>2
 <2>2. t = Add(s, Final(Of(n))) BY <1>3, <2>1 DEF Final
 <2>3. t \in States /\ ~t.crashed /\ Filed(s.files, t.files) /\ Closes(t.files, n)
  BY <1>4, <2>2, FinalAdded
 <2>. QED BY <1>2, <2>3, IsStepped
<1>5. CASE ~AtMember(n)
 <2>1. n < First BY <1>1, <1>5, LineAt
 <2>2. line.kind = "text" BY <2>1, LineAt DEF Before
 <2>3. t = s BY <1>3, <2>2
 <2>. QED BY <1>2, <1>5, <2>3, SameStep
<1>. QED BY <1>4, <1>5

\* One line for each member.
LEMMA RowAt ==
    ASSUME Listed, NEW n \in Nat, n < Len(Printing), NEW line, line = Printing[n + 1], AtMember(n),
           back_end \notin {"sevenz", "arj", "rar", "unstuff"}
    PROVE  line.kind = "row" /\ line.of = Of(n) /\ \E i \in 1..Number : Of(n) = members[i]
<1>1. /\ line.kind = KindsOf[Read(n) + 1] /\ line.of = Of(n) /\ Read(n) \in 0..(Width - 1)
      /\ \E i \in 1..Number : Of(n) = members[i]
 BY LineAt
<1>2. KindsOf = <<"row">> /\ Width = 1 BY DEF KindsOf, Width
<1>. QED BY <1>1, <1>2

LEMMA ZooStep ==
    ASSUME Listed, NEW n \in Nat, n < Len(Printing), NEW line, line = Printing[n + 1],
           NEW s, Good(s, n), NEW t, t = ReadLine(s, line), back_end = "zoo"
    PROVE  Stepped(t, n)
<1>2. \A x : ReaderAt(x, n + 1) BY DEF ReaderAt
<1>3. t = IF line.kind = "row" THEN Add(s, Row(line.of)) ELSE s BY DEF ReadLine, ReadZoo
<1>4. CASE AtMember(n)
 <2>1. line.kind = "row" /\ line.of = Of(n) BY <1>4, RowAt
 <2>2. t = Add(s, Final(Of(n))) BY <1>3, <2>1 DEF Final
 <2>3. t \in States /\ ~t.crashed /\ Filed(s.files, t.files) /\ Closes(t.files, n)
  BY <1>4, <2>2, FinalAdded
 <2>. QED BY <1>2, <2>3, IsStepped
<1>5. CASE ~AtMember(n)
 <2>1. n < First => line.kind = Before(n) BY LineAt
 <2>2. n >= Past => line = After(n) BY LineAt
 <2>3. n < First \/ n >= Past BY <1>5, LineAt
 <2>4. Before(n) # "row" /\ After(n).kind # "row" BY DEF Before, After, Line
 <2>5. t = s BY <1>3, <2>1, <2>2, <2>3, <2>4
 <2>. QED BY <1>2, <1>5, <2>5, SameStep
<1>. QED BY <1>4, <1>5

LEMMA DpkgStep ==
    ASSUME Listed, NEW n \in Nat, n < Len(Printing), NEW line, line = Printing[n + 1],
           NEW s, Good(s, n), NEW t, t = ReadLine(s, line), back_end = "dpkg"
    PROVE  Stepped(t, n)
<1>1. PrintedAsExpected /\ Past = Len(Printing) /\ First = 2
 BY IsPrintedAsExpected DEF PrintedAsExpected, Tabled, First
<1>2. \A x : ReaderAt(x, n + 1) BY DEF ReaderAt
<1>3. t = ReadDpkg(s, line) BY DEF ReadLine
<1>4. CASE AtMember(n)
 <2>1. line.kind = "row" /\ line.of = Of(n) BY <1>4, RowAt
 <2>2. t = Add(s, Final(Of(n))) BY <1>3, <2>1 DEF Final, ReadDpkg
 <2>3. t \in States /\ ~t.crashed /\ Filed(s.files, t.files) /\ Closes(t.files, n)
  BY <1>4, <2>2, FinalAdded
 <2>. QED BY <1>2, <2>3, IsStepped
<1>5. CASE ~AtMember(n)
 <2>1. n < First BY <1>1, <1>5, LineAt
 <2>2. line.kind = Before(n) BY <2>1, LineAt
 <2>3. CASE n = 0
  <3>1. line.kind = "about" BY <2>2, <2>3 DEF Before
  <3>2. t = s BY <1>3, <3>1 DEF ReadDpkg
  <3>. QED BY <1>2, <1>5, <3>2, SameStep
 <2>4. CASE n # 0
  <3>1. line.kind = "control" BY <2>2, <2>4 DEF Before
  <3>2. t = Add(s, ControlEntry) BY <1>3, <3>1 DEF ReadDpkg
  <3>3. s \in States /\ ~s.crashed /\ \A k \in DOMAIN s.files : Fine(s.files[k]) BY DEF Good
  <3>4. t \in States /\ ~t.crashed /\ Filed(s.files, t.files)
   BY <3>2, <3>3, ControlEntryIs, EntryAdded
  <3>5. Closes(t.files, n) BY <1>5 DEF Closes
  <3>. QED BY <1>2, <3>4, <3>5, IsStepped
 <2>. QED BY <2>3, <2>4
<1>. QED BY <1>4, <1>5

LEMMA IsoStep ==
    ASSUME Listed, NEW n \in Nat, n < Len(Printing), NEW line, line = Printing[n + 1],
           NEW s, Good(s, n), NEW t, t = ReadLine(s, line), back_end = "iso"
    PROVE  Stepped(t, n)
<1>1. PrintedAsExpected /\ Past = Len(Printing) /\ First = 1
 BY IsPrintedAsExpected DEF PrintedAsExpected, Tabled, First
<1>2. \A x : ReaderAt(x, n + 1) <=> x.r.folder = "/" BY DEF ReaderAt
<1>3. t = ReadIso(s, line) BY DEF ReadLine
<1>4. s \in States /\ ~s.crashed /\ (n > 0 => s.r.folder = "/") BY DEF Good, ReaderAt
<1>5. CASE AtMember(n)
 <2>1. line.kind = "row" /\ line.of = Of(n) BY <1>5, RowAt
 <2>2. n > 0 /\ s.r.folder = "/" /\ s.r.folder # Null
  BY <1>1, <1>4, <1>5, ListingAssumption DEF AtMember
 <2>3. CASE Of(n).kind = "dir"
  <3>1. t = s BY <1>3, <2>1, <2>3 DEF ReadIso
  <3>2. Excused(Of(n)) BY <2>3 DEF Excused
  <3>. QED BY <1>2, <1>4, <2>2, <3>1, <3>2, IsSteppedOver
 <2>4. CASE Of(n).kind # "dir"
  <3>1. t = Add(s, Final(Of(n))) BY <1>3, <2>1, <2>2, <2>4 DEF ReadIso, Final
  <3>2. t \in States /\ ~t.crashed /\ t.r = s.r /\ Filed(s.files, t.files) /\ Closes(t.files, n)
   BY <1>5, <2>4, <3>1, FinalAdded
  <3>. QED BY <1>2, <2>2, <3>2, IsStepped
 <2>. QED BY <2>3, <2>4
<1>6. CASE ~AtMember(n)
 <2>1. n < First BY <1>1, <1>6, LineAt
 <2>2. line.kind = "heading" BY <2>1, LineAt DEF Before
 <2>3. t = WithFolder(s, "/") BY <1>3, <2>2 DEF ReadIso, WithFolder
 <2>4. "/" \in {Null, "/"} OBVIOUS
 <2>5. t \in States /\ t.files = s.files /\ t.crashed = s.crashed /\ t.r.folder = "/"
  BY <1>4, <2>3, <2>4, WithFolderIs DEF Has
 <2>. QED BY <1>2, <1>4, <1>6, <2>5, IsSteppedOver
<1>. QED BY <1>5, <1>6

LEMMA ZipStep ==
    ASSUME Listed, NEW n \in Nat, n < Len(Printing), NEW line, line = Printing[n + 1],
           NEW s, Good(s, n), NEW t, t = ReadLine(s, line), back_end = "zip"
    PROVE  Stepped(t, n)
<1>1. PrintedAsExpected /\ (Past = Len(Printing) \/ Number = 0)
 BY IsPrintedAsExpected DEF PrintedAsExpected
<1>2. \A x : ReaderAt(x, n + 1) <=> (x.r.empty => Number = 0) BY DEF ReaderAt
<1>3. t = ReadZip(s, line) BY DEF ReadLine
<1>4. s \in States /\ ~s.crashed /\ (s.r.empty => Number = 0) /\ s.r.empty \in BOOLEAN
 BY DEF Good, ReaderAt, States, Readers
<1>5. CASE AtMember(n)
 <2>1. line.kind = "row" /\ line.of = Of(n) /\ \E i \in 1..Number : Of(n) = members[i]
  BY <1>5, RowAt
 <2>2. ~s.r.empty BY <1>4, <2>1
 <2>3. CASE Of(n).kind = "link"
  <3>1. t = s BY <1>3, <2>1, <2>2, <2>3 DEF ReadZip
  <3>2. Excused(Of(n)) BY <2>3 DEF Excused
  <3>. QED BY <1>2, <1>4, <3>1, <3>2, IsSteppedOver
 <2>4. CASE Of(n).kind # "link"
  <3>1. t = Add(s, Final(Of(n))) BY <1>3, <2>1, <2>2, <2>4 DEF ReadZip, Final
  <3>2. t \in States /\ ~t.crashed /\ t.r = s.r /\ Filed(s.files, t.files) /\ Closes(t.files, n)
   BY <1>5, <3>1, FinalAdded
  <3>. QED BY <1>2, <1>4, <3>2, IsStepped
 <2>. QED BY <2>3, <2>4
<1>6. CASE ~AtMember(n) /\ n < First
 <2>2. line.kind = "text" BY <1>6, LineAt DEF Before
 <2>3. t = s BY <1>3, <1>4, <2>2 DEF ReadZip
 <2>. QED BY <1>2, <1>4, <1>6, <2>3, SameStep
<1>7. CASE ~AtMember(n) /\ n >= Past
 <2>1. Number = 0
  <3>1. Past # Len(Printing) BY <1>7, LineAt
  <3>. QED BY <1>1, <3>1
 <2>2. line.kind = "empty" BY <1>7, LineAt DEF After, Line
 <2>3. t = s \/ t = WithEmpty(s, TRUE) BY <1>3, <1>4, <2>2 DEF ReadZip, WithEmpty
 <2>4. t \in States /\ t.files = s.files /\ ~t.crashed BY <1>4, <2>3, WithEmptyIs
 <2>. QED BY <1>2, <1>7, <2>1, <2>4, IsSteppedOver
<1>. QED BY <1>5, <1>6, <1>7, LineAt

LEMMA AceStep ==
    ASSUME Listed, NEW n \in Nat, n < Len(Printing), NEW line, line = Printing[n + 1],
           NEW s, Good(s, n), NEW t, t = ReadLine(s, line), back_end = "ace"
    PROVE  Stepped(t, n)
<1>1. PrintedAsExpected /\ Past = Len(Printing) /\ First = 2
 BY IsPrintedAsExpected DEF PrintedAsExpected, Tabled, First
<1>2. \A x : ReaderAt(x, n + 1) <=> x.r.style = style /\ (x.r.started <=> n + 1 >= 2)
 <2> QED BY DEF ReaderAt, AtAce
<1>3. t = ReadAce(s, line) BY DEF ReadLine
<1>4. /\ s \in States /\ ~s.crashed
      /\ s.r.style = (IF n = 0 THEN "unknown" ELSE style) /\ (s.r.started <=> n >= 2)
 BY DEF Good, ReaderAt, AtAce
<1>5. style \in {"old", "new"} BY DEF Listed, Styles
<1>6. CASE AtMember(n)
 <2>1. line.kind = "row" /\ line.of = Of(n) BY <1>6, RowAt
 <2>2. n >= 2 BY <1>1, <1>6 DEF AtMember
 <2>3. t = Add(s, Final(Of(n))) BY <1>3, <1>4, <1>5, <2>1, <2>2 DEF ReadAce, Final
 <2>4. t \in States /\ ~t.crashed /\ t.r = s.r /\ Filed(s.files, t.files) /\ Closes(t.files, n)
  BY <1>6, <2>3, FinalAdded
 <2>5. ReaderAt(t, n + 1) BY <1>2, <1>4, <2>2, <2>4
 <2>. QED BY <2>4, <2>5, IsStepped
<1>7. CASE ~AtMember(n)
 <2>1. n < First BY <1>1, <1>7, LineAt
 <2>2. line.kind = Before(n) BY <2>1, LineAt
 <2>3. CASE n = 0
  <3>1. line.kind = "version" BY <2>2, <2>3 DEF Before
  <3>2. t = WithStyle(s, style) BY <1>3, <1>4, <2>3, <3>1 DEF ReadAce, WithStyle
  <3>3. style \in {"unknown", "old", "new"} BY <1>5
  <3>4. t \in States /\ t.files = s.files /\ t.crashed = s.crashed /\ t.r.style = style /\ t.r.started = s.r.started
   BY <1>4, <3>2, <3>3, WithStyleIs DEF Has
  <3>5. ReaderAt(t, n + 1) BY <1>2, <1>4, <3>4, <2>3
  <3>. QED BY <1>4, <1>7, <3>4, <3>5, IsSteppedOver
 <2>4. CASE n # 0
  <3>0. n = 1 BY <1>1, <2>1, <2>4
  <3>1. line.kind = "titles" BY <2>2, <2>4 DEF Before
  <3> DEFINE b == (line.kind = "titles")
  <3>2. t = Start(s, b) BY <1>3, <1>4, <1>5, <3>0 DEF ReadAce
  <3>3. b \in BOOLEAN /\ b = TRUE BY <3>1
  <3> HIDE DEF b
  <3>4. t \in States /\ t.files = s.files /\ t.crashed = s.crashed /\ t.r.style = s.r.style /\ t.r.started = TRUE
   <4>1. t = Start(s, TRUE) BY <3>2, <3>3
   <4>. QED BY <1>4, <4>1, StartIs DEF Has
  <3>5. ReaderAt(t, n + 1) BY <1>2, <1>4, <3>4, <3>0
  <3>. QED BY <1>4, <1>7, <3>4, <3>5, IsSteppedOver
 <2>. QED BY <2>3, <2>4
<1>. QED BY <1>6, <1>7

LEMMA AlzStep ==
    ASSUME Listed, NEW n \in Nat, n < Len(Printing), NEW line, line = Printing[n + 1],
           NEW s, Good(s, n), NEW t, t = ReadLine(s, line), back_end = "alz"
    PROVE  Stepped(t, n)
<1>1. First = text + 1 /\ First \in Nat /\ Past \in Nat /\ First <= Past /\ text \in Nat
 BY LineAt DEF First
<1>2. \A x : ReaderAt(x, n + 1) <=> (x.r.started <=> InTable(n + 1)) BY DEF ReaderAt
<1>3. t = ReadAlz(s, line) BY DEF ReadLine
<1>4. s \in States /\ ~s.crashed /\ (s.r.started <=> InTable(n)) BY DEF Good, ReaderAt
<1>5. /\ InTable(n) <=> First <= n /\ n <= Past
      /\ InTable(n + 1) <=> First <= n + 1 /\ n + 1 <= Past
 BY DEF InTable
<1>6. CASE AtMember(n)
 <2>1. line.kind = "row" /\ line.of = Of(n) BY <1>6, RowAt
 <2>2. InTable(n) /\ InTable(n + 1) BY <1>1, <1>5, <1>6 DEF AtMember
 <2>3. t = Add(s, Final(Of(n))) BY <1>3, <1>4, <2>1, <2>2 DEF ReadAlz, Final
 <2>4. t \in States /\ ~t.crashed /\ t.r = s.r /\ Filed(s.files, t.files) /\ Closes(t.files, n)
  BY <1>6, <2>3, FinalAdded
 <2>5. ReaderAt(t, n + 1) BY <1>2, <1>4, <2>2, <2>4
 <2>. QED BY <2>4, <2>5, IsStepped
<1>7. CASE ~AtMember(n)
 <2>1. n < First => line.kind = Before(n) BY LineAt
 <2>2. n >= Past => line = After(n) BY LineAt
 <2>3. n < First \/ n >= Past BY <1>7, LineAt
 <2>4. Before(n) = (IF n = text THEN "separator" ELSE "text") BY DEF Before
 <2>5. After(n).kind = (IF n = Past THEN "separator" ELSE "text") BY DEF After, Line
 <2>6. CASE line.kind = "separator"
  <3>1. t = Start(s, ~s.r.started) BY <1>3, <2>6 DEF ReadAlz
  <3>2. InTable(n + 1) <=> ~InTable(n)
   <4>1. n = text \/ n = Past BY <2>1, <2>2, <2>3, <2>4, <2>5, <2>6
   <4>. QED BY <1>1, <1>5, <4>1
  <3> DEFINE b == ~s.r.started
  <3>3. b \in BOOLEAN /\ t = Start(s, b) BY <3>1
  <3> HIDE DEF b
  <3>6. t \in States /\ t.files = s.files /\ t.crashed = s.crashed /\ t.r.started = b
   BY <1>4, <3>3, StartIs DEF Has
  <3>4. t \in States /\ t.files = s.files /\ t.crashed = s.crashed /\ (t.r.started <=> ~s.r.started)
   BY <3>6 DEF b
  <3>5. ReaderAt(t, n + 1) BY <1>2, <1>4, <3>2, <3>4
  <3>. QED BY <1>4, <1>7, <3>4, <3>5, IsSteppedOver
 <2>7. CASE line.kind # "separator"
  <3>1. ~InTable(n) /\ ~InTable(n + 1)
   <4>1. (n < First /\ n # text) \/ (n >= Past /\ n # Past) BY <2>1, <2>2, <2>3, <2>4, <2>5, <2>7
   <4>. QED BY <1>1, <1>5, <4>1
  <3>2. t = s BY <1>3, <1>4, <2>7, <3>1 DEF ReadAlz
  <3>. QED BY <1>2, <1>4, <1>7, <3>1, <3>2, SameStep
 <2>. QED BY <2>6, <2>7
<1>. QED BY <1>6, <1>7

\* The last entry of them gets a size.
ResizedLast(s, m) == [s EXCEPT !.files[Len(s.files)] = Sized(@, m)]

LEMMA LastSized ==
    ASSUME Listed, NEW s \in States, \A k \in DOMAIN s.files : Fine(s.files[k]), s.files # <<>>,
           NEW i \in 1..Number, NEW m, m = members[i], s.files[Len(s.files)] = Unsized(m),
           Keeps(Sized(Unsized(m), m), m)
    PROVE  /\ ResizedLast(s, m) \in States /\ ResizedLast(s, m).r = s.r
           /\ ResizedLast(s, m).crashed = s.crashed
           /\ Filed(s.files, ResizedLast(s, m).files)
           /\ ~NameLost(m) => Shows(ResizedLast(s, m).files, m)
<1> DEFINE old == s.files
<1> DEFINE L == Len(s.files)
<1> DEFINE e == Sized(Unsized(m), m)
<1> DEFINE new == [old EXCEPT ![L] = e]
<1>1. old \in Seq(FileData) /\ L \in Nat /\ L >= 1 /\ DOMAIN old = 1..L BY DEF States
<1>2. ResizedLast(s, m) = [s EXCEPT !.files = new] BY DEF ResizedLast
<1>3. e \in FileData /\ Fine(e) /\ (~NameLost(m) => IsOf(e, m)) BY DEF Keeps
<1>4. old[L] = Unsized(m) /\ \A k \in DOMAIN old : Fine(old[k]) OBVIOUS
<1>5. \A x \in Member : ~IsOf(Unsized(m), x)
 <2> QED BY MemberIs DEF Unsized, Rooted, Entry, IsOf
<1> HIDE DEF e, L, old
<1>6. new \in Seq(FileData) /\ DOMAIN new = 1..L /\ new[L] = e /\ \A k \in 1..L : k # L => new[k] = old[k]
 BY <1>1, <1>3
<1> HIDE DEF new
<1>7. /\ ResizedLast(s, m) \in States /\ ResizedLast(s, m).r = s.r
      /\ ResizedLast(s, m).crashed = s.crashed /\ ResizedLast(s, m).files = new
 BY <1>2, <1>6 DEF States
<1>8. \A k \in DOMAIN new : Fine(new[k]) BY <1>1, <1>3, <1>4, <1>6
<1>9. ASSUME NEW j \in 1..Number, Shows(old, members[j]) PROVE Shows(new, members[j])
 <2>1. members[j] \in Member BY Numbers
 <2>2. PICK k \in DOMAIN old : IsOf(old[k], members[j]) BY <1>9 DEF Shows
 <2>3. k # L BY <1>4, <1>5, <2>1, <2>2
 <2>. QED BY <1>1, <1>6, <2>2, <2>3 DEF Shows
<1>10. Filed(old, new) BY <1>6, <1>8, <1>9 DEF Filed
<1>11. ~NameLost(m) => Shows(new, m) BY <1>1, <1>3, <1>6 DEF Shows
<1>. QED BY <1>7, <1>10, <1>11 DEF old

LEMMA UnstuffStep ==
    ASSUME Listed, NEW n \in Nat, n < Len(Printing), NEW line, line = Printing[n + 1],
           NEW s, Good(s, n), NEW t, t = ReadLine(s, line), back_end = "unstuff"
    PROVE  Stepped(t, n)
<1>1. PrintedAsExpected /\ First = 0 /\ Past = Len(Printing) /\ Width = 2
 BY IsPrintedAsExpected DEF PrintedAsExpected, Tabled, First, Width
<1>2. AtMember(n) BY <1>1 DEF AtMember
<1>3. /\ line.kind = <<"row", "size">>[Read(n) + 1] /\ line.of = Of(n) /\ Read(n) \in 0..1
      /\ \E i \in 1..Number : Of(n) = members[i]
 <2>1. /\ line.kind = KindsOf[Read(n) + 1] /\ line.of = Of(n) /\ Read(n) \in 0..(Width - 1)
       /\ \E i \in 1..Number : Of(n) = members[i]
  BY <1>2, LineAt
 <2>2. KindsOf = <<"row", "size">> BY DEF KindsOf
 <2>. QED BY <1>1, <2>1, <2>2
<1>4. PICK i \in 1..Number : Of(n) = members[i] BY <1>3
<1> DEFINE m == Of(n)
<1>5. t = ReadUnstuff(s, line) BY DEF ReadLine
<1>6. s \in States /\ ~s.crashed /\ AtUnstuff(s.r, s.files, n) /\ \A k \in DOMAIN s.files : Fine(s.files[k])
 BY DEF Good, ReaderAt
<1>7. \A x : ReaderAt(x, n + 1) <=> AtUnstuff(x.r, x.files, n + 1) BY DEF ReaderAt
<1>8. Keeps(Final(m), m) /\ Final(m) = Sized(Unsized(m), m)
 <2> QED BY <1>4, FinalIs DEF Final, Unsized
<1>9. Walks(n) BY Walk
<1> HIDE DEF m
<1>10. CASE Read(n) = 0
 <2>1. line.kind = "row" /\ line.of = m BY <1>3, <1>10 DEF m
 <2>2. t = Pend(Add(s, Unsized(m)), Entry(m)) BY <1>5, <2>1 DEF ReadUnstuff, Unsized
 <2>3. Unsized(m) \in FileData /\ Fine(Unsized(m)) /\ Entry(m) \in FileData
  <3>1. /\ Entry(m) \in FileData
        /\ EntryFields(Entry(m), m, Name(m), Entry(m).full, FALSE, Null, Null, m)
   BY <1>4, EntryIs DEF m
  <3> DEFINE y == Rooted(Entry(m))
  <3>2. y \in FileData /\ y.full = Entry(m).full /\ y.original = Entry(m).full
   BY <3>1, RootedIs DEF EntryFields
  <3>3. Clock(Now) \in Int /\ Entry(m).full \in Range(Order)
   <4> QED BY <1>4, PathsAre, ModifiedShownIs DEF m
  <3>4. Unsized(m) = [y EXCEPT !.modified = Clock(Now)] BY DEF Unsized
  <3> HIDE DEF y
  <3>5. Unsized(m) \in FileData /\ Unsized(m).full = y.full /\ Unsized(m).original = y.original
   BY <3>2, <3>3, <3>4 DEF FileData
  <3>. QED BY <3>1, <3>2, <3>3, <3>5 DEF Fine, IsDated, HasPaths, Dateless
 <2> DEFINE u == Add(s, Unsized(m))
 <2>4. /\ u \in States /\ ~u.crashed /\ Filed(s.files, u.files)
       /\ u.files = Append(s.files, Unsized(m))
  BY <1>6, <2>3, EntryAdded
 <2> HIDE DEF u
 <2>5. Entry(m) \in FileData \cup {Null} /\ Entry(m) # Null BY <2>3, NullIsNoEntry
 <2>6. t \in States /\ t.files = u.files /\ t.crashed = u.crashed /\ t.r.pending = Entry(m)
  BY <2>2, <2>4, <2>5, PendIs DEF u, Has
 <2>7. Read(n + 1) = 1 /\ Of(n + 1) = m BY <1>1, <1>2, <1>9, <1>10 DEF Walks, m
 <2>8. t.files # << >> /\ t.files[Len(t.files)] = Unsized(m)
  <3>1. s.files \in Seq(FileData) BY <1>6 DEF States
  <3> DEFINE f == s.files
  <3>2. f \in Seq(FileData) BY <3>1
  <3> HIDE DEF f
  <3> DEFINE g == Append(f, Unsized(m))
  <3>3. g # << >> /\ g[Len(g)] = Unsized(m) BY <3>2, <2>3
  <3>4. t.files = g BY <2>4, <2>6 DEF f
  <3>. QED BY <3>3, <3>4
 <2>9. ReaderAt(t, n + 1) BY <1>7, <2>5, <2>6, <2>7, <2>8 DEF AtUnstuff, Unsized
 <2>10. Closes(t.files, n) BY <1>1, <1>10 DEF Closes
 <2>. QED BY <2>4, <2>6, <2>9, <2>10, IsStepped
<1>11. CASE Read(n) = 1
 <2>1. line.kind = "size" /\ line.of = m BY <1>3, <1>11 DEF m
 <2>2. s.r.pending # Null /\ s.files # << >> /\ s.files[Len(s.files)] = Unsized(m)
  BY <1>2, <1>6, <1>11 DEF AtUnstuff, Unsized, m
 <2>3. t = ResizedLast(s, m) BY <1>5, <2>1, <2>2 DEF ReadUnstuff, ResizedLast
 <2>4. m = members[i] /\ Keeps(Sized(Unsized(m), m), m) BY <1>4, <1>8 DEF m
 <2>5. /\ t \in States /\ t.crashed = s.crashed /\ Filed(s.files, t.files)
       /\ ~NameLost(m) => Shows(t.files, m)
  BY <1>6, <2>2, <2>3, <2>4, LastSized
 <2>6. Closes(t.files, n) BY <2>5 DEF Closes, Excused, m
 <2>7. Read(n + 1) = 0 BY <1>1, <1>2, <1>9, <1>11 DEF Walks
 <2>8. ReaderAt(t, n + 1) BY <1>7, <2>7 DEF AtUnstuff
 <2>. QED BY <1>6, <2>5, <2>6, <2>8, IsStepped
<1>. QED BY <1>3, <1>10, <1>11

Pending7z(n) ==
    IF AtMember(n) THEN Half7z(Of(n), Read(n))
    ELSE IF style = "old" /\ n = First - 1 THEN NoPath ELSE Null

\* What is made of the lines of a record, one after another.
LEMMA Records7z ==
    ASSUME Listed, NEW i \in 1..Number, NEW m, m = members[i]
    PROVE  /\ Half7z(m, 0) = Null
           /\ Half7z(m, 1) = [Entry(m) EXCEPT !.dir = NoPath.dir, !.size = NoPath.size, !.modified = NoPath.modified]
           /\ Half7z(m, 2) = IsDir(Half7z(m, 1)) /\ Half7z(m, 1).of = m
           /\ Half7z(m, 3) = Sized(Half7z(m, 2), m)
           /\ \A j \in 1..3 : Half7z(m, j) \in FileData
           /\ Half7z(m, 3).original \in Range(Order)
<1>1. Entry(m) \in FileData /\ EntryFields(Entry(m), m, Name(m), Entry(m).full, FALSE, Null, Null, m)
 BY EntryIs
<1>2. m \in Member /\ Name(m) \in Range(Order) BY PathsAre
<1>3. /\ Half7z(m, 0) = Null /\ Half7z(m, 1) = Entry(m)
      /\ Half7z(m, 2) = IsDir(Entry(m)) /\ Half7z(m, 3) = Sized(IsDir(Entry(m)), m)
 BY DEF Half7z
<1>4. [Entry(m) EXCEPT !.dir = NoPath.dir, !.size = NoPath.size, !.modified = NoPath.modified] = Entry(m)
 <2> DEFINE e == Entry(m)
 <2>1. NoPath.dir = FALSE /\ NoPath.size = Null /\ NoPath.modified = Null BY DEF NoPath
 <2>2. e \in FileData /\ e.dir = FALSE /\ e.size = Null /\ e.modified = Null
  BY <1>1 DEF EntryFields
 <2> HIDE DEF e
 <2> DEFINE x == [e EXCEPT !.dir = FALSE]
 <2>3. x = e BY <2>2 DEF FileData
 <2> DEFINE y == [e EXCEPT !.size = Null]
 <2>4. y = e BY <2>2, Unchanged
 <2>5. [e EXCEPT !.modified = Null] = e BY <2>2, Unchanged
 <2>6. [e EXCEPT !.dir = FALSE, !.size = Null, !.modified = Null] = [[x EXCEPT !.size = Null] EXCEPT !.modified = Null]
  OBVIOUS
 <2> HIDE DEF x
 <2>7. [x EXCEPT !.size = Null] = e BY <2>3, <2>4
 <2>8. [e EXCEPT !.dir = FALSE, !.size = Null, !.modified = Null] = e BY <2>5, <2>6, <2>7
 <2>9. [e EXCEPT !.dir = NoPath.dir, !.size = NoPath.size, !.modified = NoPath.modified]
         = [e EXCEPT !.dir = FALSE, !.size = Null, !.modified = Null]
  BY <2>1
 <2>. QED BY <2>8, <2>9 DEF e
<1> DEFINE d == IsDir(Entry(m))
<1>5. d \in FileData /\ d.original = Name(m) BY <1>1, IsDirIs DEF EntryFields
<1> HIDE DEF d
<1>6. Sized(d, m) \in FileData /\ Sized(d, m).original = d.original
 BY <1>2, <1>5, SizedIs DEF EntryFields
<1>7. Entry(m).of = m BY <1>1 DEF EntryFields
<1>8. \A j \in 1..3 : Half7z(m, j) \in FileData
 <2> QED BY <1>1, <1>3, <1>5, <1>6 DEF d
<1>. QED BY <1>2, <1>3, <1>4, <1>5, <1>6, <1>7, <1>8 DEF d

LEMMA SevenzStep ==
    ASSUME Listed, NEW n \in Nat, n < Len(Printing), NEW line, line = Printing[n + 1],
           NEW s, Good(s, n), NEW t, t = ReadLine(s, line), back_end = "sevenz"
    PROVE  Stepped(t, n)
<1>1. /\ PrintedAsExpected /\ Past = Len(Printing) /\ Width = 4
      /\ First = (IF style = "old" THEN 4 ELSE 2) + text
      /\ First \in Nat /\ Past \in Nat /\ First <= Past /\ text \in Nat
 BY IsPrintedAsExpected, LineAt DEF PrintedAsExpected, Tabled, First, Width
<1>2. \A x : ReaderAt(x, n + 1) <=>
        x.r.style = style /\ (x.r.started <=> n + 1 >= 2 + text) /\ x.r.pending = Pending7z(n + 1)
 <2> QED BY DEF ReaderAt, At7z, Pending7z
<1>3. t = Read7z(s, line) BY DEF ReadLine
<1>4. /\ s \in States /\ ~s.crashed /\ (n > 0 => s.r.style = style)
      /\ (s.r.started <=> n >= 2 + text) /\ s.r.pending = Pending7z(n)
      /\ \A k \in DOMAIN s.files : Fine(s.files[k])
 BY DEF Good, ReaderAt, At7z, Pending7z
<1>5. style \in {"old", "new"} /\ style \in {"unknown", "old", "new"} BY DEF Listed, Styles
<1>6. Walks(n) BY Walk
<1>7. n < First \/ AtMember(n) BY <1>1, LineAt
<1>8. n < First => line.kind = Before(n) /\ line.of = Null BY LineAt
<1> HIDE DEF First, Past, Width
<1>9. CASE n < First /\ n <= text + 1
 <2>1. Pending7z(n) = Null BY <1>1, <1>9 DEF Pending7z, AtMember
 <2>2. Pending7z(n + 1) = Null
  <3>1. ~(style = "old" /\ n + 1 = First - 1) BY <1>1, <1>9
  <3>2. CASE n + 1 # First
   <4>1. ~AtMember(n + 1) BY <1>1, <1>9, <3>2 DEF AtMember
   <4>. QED BY <3>1, <4>1 DEF Pending7z
  <3>3. CASE n + 1 = First
   <4>1. Read(n + 1) = 0 BY <1>6, <3>3 DEF Walks
   <4>. QED BY <3>1, <4>1 DEF Pending7z, Half7z
  <3>. QED BY <3>2, <3>3
 <2>3. ~AtMember(n) BY <1>1, <1>9 DEF AtMember
 <2>4. CASE n = 0
  <3>1. line.kind = "version" /\ ~s.r.started BY <1>1, <1>4, <1>8, <1>9, <2>4 DEF Before
  <3>2. t = WithStyle(s, style) BY <1>3, <3>1 DEF Read7z, WithStyle
  <3>3. /\ t \in States /\ t.files = s.files /\ t.crashed = s.crashed /\ t.r.style = style
        /\ t.r.started = s.r.started /\ t.r.pending = s.r.pending
   BY <1>4, <1>5, <3>2, WithStyleIs DEF Has
  <3>4. ~(n + 1 >= 2 + text) BY <1>1, <2>4
  <3>5. ReaderAt(t, n + 1) BY <1>2, <1>4, <2>1, <2>2, <3>1, <3>3, <3>4
  <3>. QED BY <1>4, <2>3, <3>3, <3>5, IsSteppedOver
 <2>5. CASE n # 0
  <3>1. line.kind = (IF n <= text THEN "text" ELSE IF style = "old" THEN "archive" ELSE "separator")
   BY <1>1, <1>8, <1>9, <2>5 DEF Before
  <3>2. ~s.r.started /\ line.kind # "version" /\ s.r.style = style BY <1>1, <1>4, <1>9, <2>5, <3>1
  <3> DEFINE b == (line.kind = (IF s.r.style = "old" THEN "archive" ELSE "separator"))
  <3>3. t = Start(s, b) BY <1>3, <3>2 DEF Read7z
  <3>4. b \in BOOLEAN /\ (b <=> n + 1 >= 2 + text) BY <1>1, <1>5, <1>9, <3>1, <3>2
  <3>5. /\ t \in States /\ t.files = s.files /\ t.crashed = s.crashed /\ t.r.style = s.r.style
        /\ (t.r.started <=> b) /\ t.r.pending = s.r.pending
   <4> HIDE DEF b
   <4>1. b = TRUE \/ b = FALSE BY <3>4
   <4>2. CASE b = TRUE
    <5>1. t = Start(s, TRUE) BY <3>3, <4>2
    <5>2. /\ t \in States /\ t.files = s.files /\ t.crashed = s.crashed
          /\ Has(t.r, TRUE, s.r.style, s.r.pending, s.r.odd, s.r.line_no, s.r.folder, s.r.empty)
     BY <1>4, <5>1, StartIs
    <5>3. t.r.started = TRUE /\ t.r.style = s.r.style /\ t.r.pending = s.r.pending
     BY <5>2 DEF Has
    <5>4. t.r.started <=> b BY <4>2, <5>3
    <5>. QED BY <5>2, <5>3, <5>4
   <4>3. CASE b = FALSE
    <5>1. t = Start(s, FALSE) BY <3>3, <4>3
    <5>2. /\ t \in States /\ t.files = s.files /\ t.crashed = s.crashed
          /\ Has(t.r, FALSE, s.r.style, s.r.pending, s.r.odd, s.r.line_no, s.r.folder, s.r.empty)
     BY <1>4, <5>1, StartIs
    <5>3. t.r.started = FALSE /\ t.r.style = s.r.style /\ t.r.pending = s.r.pending
     BY <5>2 DEF Has
    <5>4. t.r.started <=> b BY <4>3, <5>3
    <5>. QED BY <5>2, <5>3, <5>4
   <4>. QED BY <4>1, <4>2, <4>3
  <3> HIDE DEF b
  <3>6. ReaderAt(t, n + 1) BY <1>2, <1>4, <2>1, <2>2, <3>2, <3>4, <3>5
  <3>. QED BY <1>4, <2>3, <3>5, <3>6, IsSteppedOver
 <2>. QED BY <2>4, <2>5
<1>10. CASE n < First /\ n > text + 1
 <2>1. style = "old" /\ n \in {text + 2, text + 3} /\ First = text + 4 BY <1>1, <1>10
 <2>2. ~AtMember(n) /\ s.r.started /\ n + 1 >= 2 + text /\ s.r.style = style
  BY <1>1, <1>4, <1>10 DEF AtMember
 <2>3. CASE n = text + 2
  <3>1. line.kind = "size" /\ line.of = Null BY <1>1, <1>8, <1>10, <2>3 DEF Before
  <3>2. Pending7z(n) = Null /\ Pending7z(n + 1) = NoPath
   BY <1>1, <2>1, <2>3 DEF Pending7z, AtMember
  <3>3. Record(s, line) = NoPath BY <1>4, <3>1, <3>2, NoPathIs DEF Record
  <3>4. t = Pend(s, NoPath) BY <1>3, <2>2, <3>1, <3>3 DEF Read7z
  <3>5. NoPath \in FileData \cup {Null} BY NoPathIs
  <3>6. /\ t \in States /\ t.files = s.files /\ t.crashed = s.crashed /\ t.r.style = s.r.style
        /\ t.r.started = s.r.started /\ t.r.pending = NoPath
   BY <1>4, <3>4, <3>5, PendIs DEF Has
  <3>7. ReaderAt(t, n + 1) BY <1>2, <2>2, <3>2, <3>6
  <3>. QED BY <1>4, <2>2, <3>6, <3>7, IsSteppedOver
 <2>4. CASE n = text + 3
  <3>1. line.kind = "blank" BY <1>1, <1>8, <1>10, <2>4 DEF Before
  <3>2. Pending7z(n) = NoPath BY <1>1, <2>1, <2>4 DEF Pending7z, AtMember
  <3>3. Pending7z(n + 1) = Null
   <4>1. n + 1 = First BY <1>1, <2>1, <2>4
   <4> QED BY <1>1, <1>6, <4>1 DEF Walks, Pending7z, Half7z
  <3>4. t = Pend(s, Null) BY <1>3, <1>4, <2>2, <3>1, <3>2, NoPathIs DEF Read7z
  <3>5. Null \in FileData \cup {Null} OBVIOUS
  <3>6. /\ t \in States /\ t.files = s.files /\ t.crashed = s.crashed /\ t.r.style = s.r.style
        /\ t.r.started = s.r.started /\ t.r.pending = Null
   BY <1>4, <3>4, <3>5, PendIs DEF Has
  <3>7. ReaderAt(t, n + 1) BY <1>2, <2>2, <3>3, <3>6
  <3>. QED BY <1>4, <2>2, <3>6, <3>7, IsSteppedOver
 <2>. QED BY <2>1, <2>3, <2>4
<1>11. CASE AtMember(n)
 <2> DEFINE j == Read(n)
 <2> DEFINE m == Of(n)
 <2>1. /\ line.kind = <<"path", "folder", "size", "blank">>[j + 1] /\ line.of = m /\ j \in 0..3
       /\ \E i \in 1..Number : m = members[i]
  <3>1. /\ line.kind = KindsOf[Read(n) + 1] /\ line.of = Of(n) /\ Read(n) \in 0..(Width - 1)
        /\ \E i \in 1..Number : Of(n) = members[i]
   BY <1>11, LineAt
  <3>2. KindsOf = <<"path", "folder", "size", "blank">> BY DEF KindsOf
  <3>. QED BY <1>1, <3>1, <3>2
 <2>2. PICK i \in 1..Number : m = members[i] BY <2>1
 <2>3. s.r.pending = Half7z(m, j) BY <1>4, <1>11 DEF Pending7z
 <2>4. /\ Half7z(m, 0) = Null
       /\ Half7z(m, 1) = [Entry(m) EXCEPT !.dir = NoPath.dir, !.size = NoPath.size, !.modified = NoPath.modified]
       /\ Half7z(m, 2) = IsDir(Half7z(m, 1)) /\ Half7z(m, 1).of = m
       /\ Half7z(m, 3) = Sized(Half7z(m, 2), m)
       /\ \A k \in 1..3 : Half7z(m, k) \in FileData
       /\ Half7z(m, 3).original \in Range(Order)
  BY <2>2, Records7z
 <2>5. s.r.started /\ n + 1 >= 2 + text /\ n > 0 /\ s.r.style = style
  BY <1>1, <1>4, <1>11 DEF AtMember
 <2>6. n + 1 # First - 1 /\ n # First - 1 BY <1>1, <1>11 DEF AtMember
 <2>7. j # 3 => Pending7z(n + 1) = Half7z(m, j + 1) BY <1>1, <1>6, <1>11, <2>6 DEF Walks, Pending7z
 <2>8. j = 3 => Pending7z(n + 1) = Null
  BY <1>1, <1>6, <1>11, <2>4, <2>6 DEF Walks, Pending7z, Half7z
 <2>9. \A k \in 1..3 : Half7z(m, k) # Null BY <2>4, NullIsNoEntry
 <2>10. m = Of(n) OBVIOUS
 <2> HIDE DEF j, m
 <2>11. CASE j # 3
  <3>1. line.kind # "blank" BY <2>1, <2>11
  <3>2. Record(s, line) = Half7z(m, j + 1)
   <4>1. CASE j = 0
    <5>1. line.kind = "path" /\ line.of = m /\ s.r.pending = Null BY <2>1, <2>3, <2>4, <4>1
    <5>2. Record(s, line) =
            [Entry(m) EXCEPT !.dir = NoPath.dir, !.size = NoPath.size, !.modified = NoPath.modified]
     BY <5>1 DEF Record
    <5>. QED BY <2>4, <4>1, <5>2
   <4>2. CASE j = 1
    <5>1. line.kind = "folder" /\ line.of = m /\ s.r.pending = Half7z(m, 1) /\ s.r.pending # Null
     BY <2>1, <2>3, <2>9, <4>2
    <5>2. Record(s, line) = IsDir(Half7z(m, 1)) BY <2>4, <5>1 DEF Record, IsDir
    <5>. QED BY <2>4, <4>2, <5>2
   <4>3. CASE j = 2
    <5>1. line.kind = "size" /\ line.of = m /\ s.r.pending = Half7z(m, 2) /\ s.r.pending # Null
     BY <2>1, <2>3, <2>9, <4>3
    <5>2. Record(s, line) = Sized(Half7z(m, 2), m) BY <5>1 DEF Record
    <5>. QED BY <2>4, <4>3, <5>2
   <4>. QED BY <2>1, <2>11, <4>1, <4>2, <4>3
  <3>3. t = Pend(s, Half7z(m, j + 1)) BY <1>3, <2>5, <3>1, <3>2 DEF Read7z
  <3>4. Half7z(m, j + 1) \in FileData \cup {Null}
   <4>1. j + 1 \in 1..3 BY <2>1, <2>11
   <4>. QED BY <2>4, <4>1
  <3>5. /\ t \in States /\ t.files = s.files /\ t.crashed = s.crashed /\ t.r.style = s.r.style
        /\ t.r.started = s.r.started /\ t.r.pending = Half7z(m, j + 1)
   BY <1>4, <3>3, <3>4, PendIs DEF Has
  <3>6. ReaderAt(t, n + 1) BY <1>2, <2>5, <2>7, <2>11, <3>5
  <3>7. Read(n) # Width - 1 BY <1>1, <2>11 DEF j
  <3>. QED BY <1>4, <3>5, <3>6, <3>7, IsSteppedOver
 <2>12. CASE j = 3
  <3>1. line.kind = "blank" BY <2>1, <2>12
  <3>2. s.r.pending = Half7z(m, 3) /\ s.r.pending # Null /\ s.r.pending.original # Null
   BY <2>3, <2>4, <2>9, <2>12, OrderIs
  <3>3. Half7z(m, 3) = Final(m) BY DEF Half7z, Final
  <3> DEFINE u == Add(s, Final(m))
  <3>4. t = Pend(u, Null) BY <1>3, <2>5, <3>1, <3>2, <3>3 DEF Read7z
  <3>5. u \in States /\ ~u.crashed /\ u.r = s.r /\ Filed(s.files, u.files) /\ Closes(u.files, n)
   BY <1>11, <2>10, FinalAdded
  <3> HIDE DEF u
  <3>6. Null \in FileData \cup {Null} OBVIOUS
  <3>7. /\ t \in States /\ t.files = u.files /\ t.crashed = u.crashed /\ t.r.style = u.r.style
        /\ t.r.started = u.r.started /\ t.r.pending = Null
   BY <3>4, <3>5, <3>6, PendIs DEF Has
  <3>8. ReaderAt(t, n + 1) BY <1>2, <2>5, <2>8, <2>12, <3>5, <3>7
  <3>. QED BY <3>5, <3>7, <3>8, IsStepped
 <2>. QED BY <2>11, <2>12
<1>12. n <= text + 1 \/ n > text + 1 BY <1>1
<1>. QED BY <1>7, <1>9, <1>10, <1>11, <1>12

\* A line of arj that makes nothing.
LEMMA ArjIdle ==
    ASSUME Listed, NEW n \in Nat, NEW s, Good(s, n), NEW t \in States, back_end = "arj",
           ~t.crashed, t.files = s.files, t.r.pending = Null,
           restarts = 0 => (t.r.started <=> InTable(n + 1)),
           (AtMember(n + 1) /\ restarts = 0) => Read(n + 1) = 0,
           (AtMember(n + 1) /\ Read(n + 1) = 2) => Excused(Of(n + 1)),
           AtMember(n) => Read(n) # Width - 1 \/ Shows(s.files, Of(n)) \/ Excused(Of(n))
    PROVE  Stepped(t, n)
<1>1. AtArj(t.r, n + 1)
 <2> QED BY DEF AtArj
<1> QED BY <1>1, IsSteppedOver DEF ReaderAt

LEMMA ArjStep ==
    ASSUME Listed, NEW n \in Nat, n < Len(Printing), NEW line, line = Printing[n + 1],
           NEW s, Good(s, n), NEW t, t = ReadLine(s, line), back_end = "arj"
    PROVE  Stepped(t, n)
<1>1. First = text + 1 /\ First \in Nat /\ Past \in Nat /\ First <= Past /\ text \in Nat /\ Width = 3
 BY LineAt DEF First, Width
<1>2. t = ReadArj(s, line) BY DEF ReadLine
<1>3. /\ s \in States /\ ~s.crashed /\ AtArj(s.r, n)
      /\ (AtMember(n) /\ Read(n) = 2) => Shows(s.files, Of(n)) \/ Excused(Of(n))
      /\ \A k \in DOMAIN s.files : Fine(s.files[k])
 BY DEF Good, ReaderAt
<1>4. s.r.line_no \in Nat /\ s.r.line_no + 1 \in Nat /\ s.r.started \in BOOLEAN
 BY <1>3 DEF States, Readers
<1>5. restarts \in Nat /\ (restarts # 0 => restarts > 0) BY DEF Listed
<1>6. Walks(n) BY Walk
<1>7. /\ InTable(n) <=> First <= n /\ n <= Past
      /\ InTable(n + 1) <=> First <= n + 1 /\ n + 1 <= Past
      /\ AtMember(n) <=> First <= n /\ n < Past
      /\ AtMember(n + 1) <=> First <= n + 1 /\ n + 1 < Past
 BY DEF InTable, AtMember
<1>8. restarts # 0 => \A m : Excused(m) BY <1>5 DEF Excused
<1>9. ASSUME t = Crash(s), restarts # 0 PROVE Stepped(t, n)
 <2>1. t.crashed = TRUE BY <1>3, <1>9 DEF Crash, States
 <2>. QED BY <1>5, <1>9, <2>1 DEF Stepped
<1> DEFINE next == WithLine(s, s.r.line_no + 1)
<1>10. /\ next \in States /\ next.files = s.files /\ next.crashed = s.crashed
       /\ Has(next.r, s.r.started, s.r.style, s.r.pending, s.r.odd, s.r.line_no + 1, s.r.folder, s.r.empty)
 BY <1>3, <1>4, WithLineIs
<1>11. next.r.started = s.r.started /\ next.r.pending = s.r.pending BY <1>10 DEF Has
<1>12. line.kind # "separator" /\ ~s.r.started => t = s BY <1>2 DEF ReadArj
<1>13. line.kind \in {"info", "more", "text"} /\ s.r.started =>
         t = IF s.r.line_no # 2 THEN next
             ELSE IF s.r.pending = Null THEN Crash(s)
             ELSE [Pend(Add(s, Sized(s.r.pending, line.of)), Null) EXCEPT !.r.line_no = 3]
 BY <1>2, <1>4 DEF ReadArj, WithLine
<1> HIDE DEF next, First, Past, Width, AtMember, InTable, Read, Of
<1>14. CASE AtMember(n)
 <2> DEFINE m == Of(n)
 <2>1. /\ line.kind = <<"name", "info", "more">>[Read(n) + 1] /\ line.of = m /\ Read(n) \in 0..2
       /\ \E i \in 1..Number : m = members[i]
  <3>1. /\ line.kind = KindsOf[Read(n) + 1] /\ line.of = Of(n) /\ Read(n) \in 0..(Width - 1)
        /\ \E i \in 1..Number : Of(n) = members[i]
   BY <1>14, LineAt
  <3>2. KindsOf = <<"name", "info", "more">> BY DEF KindsOf
  <3>. QED BY <1>1, <3>1, <3>2
 <2>2. PICK i \in 1..Number : m = members[i] BY <2>1
 <2>3. Entry(m) \in FileData /\ Entry(m) # Null BY <2>2, EntryIs, NullIsNoEntry
 <2>4. InTable(n) /\ InTable(n + 1) /\ n + 1 # First BY <1>1, <1>7, <1>14
 <2>5. restarts = 0 => s.r.started BY <1>3, <2>4 DEF AtArj
 <2>6. Read(n) # 1 => s.r.pending = Null BY <1>3 DEF AtArj
 <2>7. s.r.pending # Null => s.r.pending = Entry(m) /\ s.r.line_no = 2 /\ s.r.started
  BY <1>3 DEF AtArj
 <2>8. Read(n) # 2 => AtMember(n + 1) /\ Read(n + 1) = Read(n) + 1 /\ Of(n + 1) = m
  BY <1>1, <1>6, <1>14 DEF Walks
 <2>9. Read(n) = 2 => Read(n + 1) = 0 BY <1>1, <1>6, <1>14 DEF Walks
 <2>10. m = Of(n) OBVIOUS
 <2> HIDE DEF m
 <2>11. CASE Read(n) = 0
  <3>1. line.kind = "name" /\ line.of = m BY <2>1, <2>11
  <3>2. Read(n + 1) = 1 BY <2>8, <2>11
  <3>3. CASE ~s.r.started
   <4>1. t = s /\ restarts # 0 BY <1>12, <2>5, <3>1, <3>3
   <4>. QED BY <1>1, <1>3, <1>8, <2>6, <2>11, <3>2, <4>1, ArjIdle
  <3>4. CASE s.r.started
   <4> DEFINE u == Pend(s, Entry(m))
   <4>1. t = WithLine(u, 2) BY <1>2, <3>1, <3>4 DEF ReadArj, WithLine
   <4>2. /\ u \in States /\ u.files = s.files /\ u.crashed = s.crashed
         /\ Has(u.r, s.r.started, s.r.style, Entry(m), s.r.odd, s.r.line_no, s.r.folder, s.r.empty)
    BY <1>3, <2>3, PendIs
   <4> HIDE DEF u
   <4>3. /\ t \in States /\ t.files = u.files /\ t.crashed = u.crashed
         /\ Has(t.r, u.r.started, u.r.style, u.r.pending, u.r.odd, 2, u.r.folder, u.r.empty)
    <5> DEFINE k == 2
    <5>1. k \in Nat /\ t = WithLine(u, k) BY <4>1
    <5> HIDE DEF k
    <5> QED BY <4>2, <5>1, WithLineIs DEF k
   <4>4. t.r.started /\ t.r.pending = Entry(m) /\ t.r.line_no = 2 BY <3>4, <4>2, <4>3 DEF Has
   <4>5. AtArj(t.r, n + 1) BY <2>3, <2>4, <2>8, <2>11, <3>2, <4>4 DEF AtArj
   <4>6. ReaderAt(t, n + 1) BY <3>2, <4>5 DEF ReaderAt
   <4>. QED BY <1>1, <1>3, <2>11, <4>2, <4>3, <4>6, IsSteppedOver
  <3>. QED BY <3>3, <3>4
 <2>12. CASE Read(n) = 1
  <3>1. line.kind = "info" /\ line.of = m BY <2>1, <2>12
  <3>2. Read(n + 1) = 2 /\ AtMember(n + 1) /\ Of(n + 1) = m BY <2>8, <2>12
  <3>3. restarts = 0 => s.r.pending # Null BY <1>3, <1>14, <2>12 DEF AtArj
  <3>4. CASE ~s.r.started
   <4>1. t = s /\ restarts # 0 /\ s.r.pending = Null BY <1>12, <2>5, <2>7, <3>1, <3>4
   <4>. QED BY <1>1, <1>3, <1>8, <2>12, <4>1, ArjIdle
  <3>5. CASE s.r.started /\ s.r.line_no = 2 /\ s.r.pending = Null
   <4>1. t = Crash(s) /\ restarts # 0 BY <1>13, <3>1, <3>3, <3>5
   <4>. QED BY <1>9, <4>1
  <3>6. CASE s.r.started /\ s.r.line_no # 2
   <4>1. t = next /\ restarts # 0 /\ s.r.pending = Null BY <1>13, <2>7, <3>1, <3>3, <3>6
   <4>. QED BY <1>1, <1>3, <1>8, <1>10, <1>11, <2>12, <4>1, ArjIdle
  <3>7. CASE s.r.started /\ s.r.line_no = 2 /\ s.r.pending # Null
   <4>1. s.r.pending = Entry(m) BY <2>7, <3>7
   <4> DEFINE u == Add(s, Final(m))
   <4> DEFINE v == Pend(u, Null)
   <4>2. Final(m) = Sized(Entry(m), m) BY DEF Final, Row
   <4>3. t = WithLine(v, 3) BY <1>13, <3>1, <3>7, <4>1, <4>2 DEF WithLine
   <4>4. /\ u \in States /\ ~u.crashed /\ u.r = s.r /\ Filed(s.files, u.files) /\ Closes(u.files, n)
         /\ Shows(u.files, m) \/ Excused(m)
    BY <1>14, <2>10, FinalAdded
   <4> HIDE DEF u
   <4>5. /\ v \in States /\ v.files = u.files /\ v.crashed = u.crashed
         /\ Has(v.r, u.r.started, u.r.style, Null, u.r.odd, u.r.line_no, u.r.folder, u.r.empty)
    BY <4>4, PendIs
   <4> HIDE DEF v
   <4>6. /\ t \in States /\ t.files = v.files /\ t.crashed = v.crashed
         /\ Has(t.r, v.r.started, v.r.style, v.r.pending, v.r.odd, 3, v.r.folder, v.r.empty)
    <5> DEFINE k == 3
    <5>1. k \in Nat /\ t = WithLine(v, k) BY <4>3
    <5> HIDE DEF k
    <5> QED BY <4>5, <5>1, WithLineIs DEF k
   <4>7. t.r.started /\ t.r.pending = Null /\ t.r.line_no = 3 BY <3>7, <4>4, <4>5, <4>6 DEF Has
   <4>8. AtArj(t.r, n + 1) BY <2>4, <3>2, <4>7 DEF AtArj
   <4>9. ReaderAt(t, n + 1) BY <3>2, <4>4, <4>5, <4>6, <4>8 DEF ReaderAt
   <4>. QED BY <4>4, <4>5, <4>6, <4>9, IsStepped
  <3>. QED BY <3>4, <3>5, <3>6, <3>7
 <2>13. CASE Read(n) = 2
  <3>1. line.kind = "more" BY <2>1, <2>13
  <3>2. Read(n + 1) = 0 /\ s.r.pending = Null BY <2>6, <2>9, <2>13
  <3>3. Shows(s.files, Of(n)) \/ Excused(Of(n)) BY <1>3, <1>14, <2>13
  <3>4. restarts = 0 => s.r.line_no = 3 BY <1>3, <1>14, <2>13 DEF AtArj
  <3>5. CASE ~s.r.started
   <4>1. t = s /\ restarts # 0 BY <1>12, <2>5, <3>1, <3>5
   <4>. QED BY <1>3, <3>2, <3>3, <4>1, ArjIdle
  <3>6. CASE s.r.started /\ s.r.line_no = 2
   <4>1. t = Crash(s) /\ restarts # 0 BY <1>13, <3>1, <3>2, <3>4, <3>6
   <4>. QED BY <1>9, <4>1
  <3>7. CASE s.r.started /\ s.r.line_no # 2
   <4>1. t = next BY <1>13, <3>1, <3>7
   <4>2. t.r.started /\ InTable(n + 1) BY <1>11, <2>4, <3>7, <4>1
   <4>. QED BY <1>3, <1>10, <1>11, <3>2, <3>3, <4>1, <4>2, ArjIdle
  <3>. QED BY <3>5, <3>6, <3>7
 <2>. QED BY <2>1, <2>11, <2>12, <2>13
<1>15. CASE ~AtMember(n)
 <2>1. n < First => line.kind = Before(n) BY LineAt
 <2>2. n >= Past => line = After(n) BY LineAt
 <2>3. n < First \/ n >= Past BY <1>15, LineAt
 <2>4. Before(n) = (IF n = text THEN "separator" ELSE "text") BY DEF Before
 <2>5. After(n).kind = (IF n = Past THEN "separator" ELSE "text") BY DEF After, Line
 <2>6. s.r.pending = Null BY <1>3, <1>15 DEF AtArj
 <2>7. AtMember(n + 1) => Read(n + 1) = 0
  <3>1. AtMember(n + 1) => n + 1 = First BY <1>1, <1>7, <1>15
  <3>. QED BY <1>6, <3>1 DEF Walks
 <2>8. restarts = 0 => (s.r.started <=> InTable(n)) BY <1>3 DEF AtArj
 <2>9. CASE line.kind = "separator"
  <3>1. InTable(n + 1) <=> ~InTable(n)
   <4>1. n = text \/ n = Past BY <2>1, <2>2, <2>3, <2>4, <2>5, <2>9
   <4>. QED BY <1>1, <1>7, <4>1
  <3>2. CASE s.r.started
   <4>1. t = Start(s, FALSE) BY <1>2, <2>9, <3>2 DEF ReadArj
   <4>2. /\ t \in States /\ t.files = s.files /\ t.crashed = s.crashed
         /\ Has(t.r, FALSE, s.r.style, s.r.pending, s.r.odd, s.r.line_no, s.r.folder, s.r.empty)
    BY <1>3, <4>1, StartIs
   <4>3. ~t.r.started /\ t.r.pending = Null BY <2>6, <4>2 DEF Has
   <4>4. restarts = 0 => (t.r.started <=> InTable(n + 1)) BY <2>8, <3>1, <3>2, <4>3
   <4>. QED BY <1>3, <1>15, <2>7, <4>2, <4>3, <4>4, ArjIdle
  <3>3. CASE ~s.r.started
   <4> DEFINE u == Start(s, TRUE)
   <4>1. t = WithLine(u, 1) BY <1>2, <2>9, <3>3 DEF ReadArj, WithLine
   <4>2. /\ u \in States /\ u.files = s.files /\ u.crashed = s.crashed
         /\ Has(u.r, TRUE, s.r.style, s.r.pending, s.r.odd, s.r.line_no, s.r.folder, s.r.empty)
    BY <1>3, StartIs
   <4> HIDE DEF u
   <4>3. /\ t \in States /\ t.files = u.files /\ t.crashed = u.crashed
         /\ Has(t.r, u.r.started, u.r.style, u.r.pending, u.r.odd, 1, u.r.folder, u.r.empty)
    <5> DEFINE k == 1
    <5>1. k \in Nat /\ t = WithLine(u, k) BY <4>1
    <5> HIDE DEF k
    <5> QED BY <4>2, <5>1, WithLineIs DEF k
   <4>4. t.r.started /\ t.r.pending = Null BY <2>6, <4>2, <4>3 DEF Has
   <4>5. restarts = 0 => (t.r.started <=> InTable(n + 1)) BY <2>8, <3>1, <3>3, <4>4
   <4>. QED BY <1>3, <1>15, <2>7, <4>2, <4>3, <4>4, <4>5, ArjIdle
  <3>. QED BY <3>2, <3>3
 <2>10. CASE line.kind # "separator"
  <3>1. ~InTable(n) /\ ~InTable(n + 1)
   <4>1. (n < First /\ n # text) \/ (n >= Past /\ n # Past)
    BY <2>1, <2>2, <2>3, <2>4, <2>5, <2>10
   <4>. QED BY <1>1, <1>7, <4>1
  <3>2. line.kind = "text" BY <2>1, <2>2, <2>3, <2>4, <2>5, <2>10
  <3>3. CASE ~s.r.started
   <4>1. t = s BY <1>12, <2>10, <3>3
   <4>. QED BY <1>3, <1>15, <2>6, <2>7, <3>1, <3>3, <4>1, ArjIdle
  <3>4. CASE s.r.started /\ s.r.line_no = 2
   <4>1. t = Crash(s) /\ restarts # 0 BY <1>13, <2>6, <2>8, <3>1, <3>2, <3>4
   <4>. QED BY <1>9, <4>1
  <3>5. CASE s.r.started /\ s.r.line_no # 2
   <4>1. t = next /\ restarts # 0 BY <1>13, <2>8, <3>1, <3>2, <3>5
   <4>. QED BY <1>3, <1>10, <1>11, <1>15, <2>6, <2>7, <4>1, ArjIdle
  <3>. QED BY <3>3, <3>4, <3>5
 <2>. QED BY <2>9, <2>10
<1>. QED BY <1>14, <1>15

\* The member that is in two volumes.
LEMMA SplitIs ==
    ASSUME Listed, HasSplit
    PROVE  Entry(Split) \in FileData
<1>1. PICK i \in 1..Number : members[i].kind = "split" BY DEF HasSplit
<1>2. DOMAIN members = 1..Number BY Numbers
<1>3. members[i] \in Range(members) BY <1>1, <1>2 DEF Range
<1>4. Split \in Range(members) BY <1>1, <1>3 DEF Split
<1>5. PICK k \in 1..Number : Split = members[k] BY <1>2, <1>4 DEF Range
<1>. QED BY <1>5, EntryIs

\* In the table of the second volume.
There(n) == n > Second /\ n <= Second + 3

LEMMA RarSeparates ==
    ASSUME NEW s, NEW line, line.kind = "separator"
    PROVE  ReadRar(s, line) = IF s.r.started THEN Start(s, FALSE) ELSE WithOdd(Start(s, TRUE), TRUE)
<1>1. ReadRar(s, line) = IF s.r.started THEN Start(s, FALSE) ELSE [Start(s, TRUE) EXCEPT !.r.odd = TRUE]
 BY DEF ReadRar
<1> DEFINE u == Start(s, TRUE)
<1>2. WithOdd(u, TRUE) = [u EXCEPT !.r.odd = TRUE] BY DEF WithOdd
<1>. QED BY <1>1, <1>2, Zenon

LEMMA RarStep ==
    ASSUME Listed, NEW n \in Nat, n < Len(Printing), NEW line, line = Printing[n + 1],
           NEW s, Good(s, n), NEW t, t = ReadLine(s, line), back_end = "rar"
    PROVE  Stepped(t, n)
<1>1. First = text + 1 /\ First \in Nat /\ Past \in Nat /\ First <= Past /\ text \in Nat /\ Width = 2
 BY LineAt DEF First, Width
<1>2. t = ReadRar(s, line) BY DEF ReadLine
<1>3. s \in States /\ ~s.crashed /\ AtRar(s.r, n) /\ \A k \in DOMAIN s.files : Fine(s.files[k])
 BY DEF Good, ReaderAt
<1>4. \A x : ReaderAt(x, n + 1) <=> AtRar(x.r, n + 1) BY DEF ReaderAt
<1>5. \A r, k : AtRar(r, k) <=>
        /\ r.started <=> (InTable(k) \/ (There(k) /\ HasSplit))
        /\ InTable(k) => (r.odd <=> Read(k) = 0) /\ (Read(k) = 1 => r.pending = Entry(Of(k)))
        /\ (r.started /\ There(k)) => (r.odd <=> k # Second + 2)
 BY DEF AtRar, There, HasSplit
<1>6. Walks(n) BY Walk
<1>7. /\ InTable(n) <=> First <= n /\ n <= Past
      /\ InTable(n + 1) <=> First <= n + 1 /\ n + 1 <= Past
      /\ AtMember(n) <=> First <= n /\ n < Past
      /\ There(n) <=> n > Second /\ n <= Second + 3
      /\ There(n + 1) <=> n + 1 > Second /\ n + 1 <= Second + 3
 BY DEF InTable, AtMember, There
<1>8. Second = Past + 1 + text BY DEF Second
<1>9. AtMember(n) => Read(n) # Width - 1 \/ Read(n) = 1 BY <1>1
<1> HIDE DEF First, Past, Second, Width, AtMember, InTable, There, Read, Of, HasSplit
<1>10. CASE AtMember(n)
 <2> DEFINE m == Of(n)
 <2>1. /\ line.kind = <<"name", "info">>[Read(n) + 1] /\ line.of = m /\ Read(n) \in 0..1
       /\ \E i \in 1..Number : m = members[i]
  <3>1. /\ line.kind = KindsOf[Read(n) + 1] /\ line.of = Of(n) /\ Read(n) \in 0..(Width - 1)
        /\ \E i \in 1..Number : Of(n) = members[i]
   BY <1>10, LineAt
  <3>2. KindsOf = <<"name", "info">> BY DEF KindsOf
  <3>. QED BY <1>1, <3>1, <3>2
 <2>2. PICK i \in 1..Number : m = members[i] BY <2>1
 <2>3. Entry(m) \in FileData \cup {Null} BY <2>2, EntryIs
 <2>4. InTable(n) /\ InTable(n + 1) /\ ~There(n + 1) BY <1>1, <1>7, <1>8, <1>10
 <2>5. s.r.started /\ (s.r.odd <=> Read(n) = 0) /\ (Read(n) = 1 => s.r.pending = Entry(m))
  BY <1>3, <1>5, <2>4
 <2>6. Read(n) = 0 => Read(n + 1) = 1 /\ Of(n + 1) = m BY <1>1, <1>6, <1>10 DEF Walks
 <2>7. Read(n) = 1 => Read(n + 1) = 0 BY <1>1, <1>6, <1>10 DEF Walks
 <2>8. m = Of(n) OBVIOUS
 <2> HIDE DEF m
 <2>9. CASE Read(n) = 0
  <3> DEFINE u == Pend(s, Entry(m))
  <3>1. line.kind = "name" /\ line.of = m BY <2>1, <2>9
  <3>2. t = WithOdd(u, FALSE) BY <1>2, <2>5, <2>9, <3>1 DEF ReadRar, WithOdd
  <3>3. /\ u \in States /\ u.files = s.files /\ u.crashed = s.crashed
        /\ Has(u.r, s.r.started, s.r.style, Entry(m), s.r.odd, s.r.line_no, s.r.folder, s.r.empty)
   BY <1>3, <2>3, PendIs
  <3> HIDE DEF u
  <3>4. /\ t \in States /\ t.files = u.files /\ t.crashed = u.crashed
        /\ Has(t.r, u.r.started, u.r.style, u.r.pending, FALSE, u.r.line_no, u.r.folder, u.r.empty)
   BY <3>2, <3>3, WithOddIs
  <3>5. t.r.started /\ ~t.r.odd /\ t.r.pending = Entry(m) BY <2>5, <3>3, <3>4 DEF Has
  <3>6. AtRar(t.r, n + 1) BY <1>5, <2>4, <2>6, <2>9, <3>5
  <3>. QED BY <1>1, <1>3, <1>4, <2>9, <3>3, <3>4, <3>6, IsSteppedOver
 <2>10. CASE Read(n) = 1
  <3> DEFINE u == Add(s, Final(m))
  <3> DEFINE v == Pend(u, Null)
  <3>1. line.kind = "info" /\ line.of = m /\ s.r.started /\ ~s.r.odd /\ s.r.pending = Entry(m)
   BY <2>1, <2>5, <2>10
  <3>2. Final(m) = IsDir(Slashed(Sized(Entry(m), m))) BY DEF Final, Row
  <3>3. t = WithOdd(v, TRUE) BY <1>2, <3>1, <3>2 DEF ReadRar, WithOdd
  <3>4. /\ u \in States /\ ~u.crashed /\ u.r = s.r /\ Filed(s.files, u.files) /\ Closes(u.files, n)
   BY <1>10, <2>8, FinalAdded
  <3> HIDE DEF u
  <3>5. Null \in FileData \cup {Null} OBVIOUS
  <3>6. /\ v \in States /\ v.files = u.files /\ v.crashed = u.crashed
        /\ Has(v.r, u.r.started, u.r.style, Null, u.r.odd, u.r.line_no, u.r.folder, u.r.empty)
   BY <3>4, <3>5, PendIs
  <3> HIDE DEF v
  <3>7. /\ t \in States /\ t.files = v.files /\ t.crashed = v.crashed
        /\ Has(t.r, v.r.started, v.r.style, v.r.pending, TRUE, v.r.line_no, v.r.folder, v.r.empty)
   BY <3>3, <3>6, WithOddIs
  <3>8. t.r.started /\ t.r.odd BY <3>1, <3>4, <3>6, <3>7 DEF Has
  <3>9. AtRar(t.r, n + 1) BY <1>5, <2>4, <2>7, <2>10, <3>8
  <3>. QED BY <1>4, <3>4, <3>6, <3>7, <3>9, IsStepped
 <2>. QED BY <2>1, <2>9, <2>10
<1>11. ASSUME ~AtMember(n), t = WithOdd(Start(s, TRUE), TRUE),
              InTable(n + 1) \/ (There(n + 1) /\ HasSplit),
              InTable(n + 1) => Read(n + 1) = 0, There(n + 1) => n + 1 # Second + 2
       PROVE  Stepped(t, n)
 <2> DEFINE u == Start(s, TRUE)
 <2>1. /\ u \in States /\ u.files = s.files /\ u.crashed = s.crashed
       /\ Has(u.r, TRUE, s.r.style, s.r.pending, s.r.odd, s.r.line_no, s.r.folder, s.r.empty)
  BY <1>3, StartIs
 <2>2. t = WithOdd(u, TRUE) BY <1>11
 <2> HIDE DEF u
 <2>3. /\ t \in States /\ t.files = u.files /\ t.crashed = u.crashed
       /\ Has(t.r, u.r.started, u.r.style, u.r.pending, TRUE, u.r.line_no, u.r.folder, u.r.empty)
  BY <2>1, <2>2, WithOddIs
 <2>4. t.r.started /\ t.r.odd BY <2>1, <2>3 DEF Has
 <2>5. AtRar(t.r, n + 1)
  <3>0. Read(n + 1) = 0 => Read(n + 1) # 1 OBVIOUS
  <3>1. InTable(n + 1) => (t.r.odd <=> Read(n + 1) = 0) /\ Read(n + 1) # 1
   <4>1. InTable(n + 1) => Read(n + 1) = 0 BY <1>11
   <4>. QED BY <2>4, <3>0, <4>1
  <3>2. There(n + 1) => (t.r.odd <=> n + 1 # Second + 2) BY <1>11, <2>4
  <3>3. t.r.started <=> (InTable(n + 1) \/ (There(n + 1) /\ HasSplit)) BY <1>11, <2>4
  <3>. QED BY <1>5, <3>1, <3>2, <3>3
 <2>. QED BY <1>3, <1>4, <1>11, <2>1, <2>3, <2>5, IsSteppedOver
<1>12. ASSUME ~AtMember(n), t = Start(s, FALSE), ~InTable(n + 1), ~There(n + 1)
       PROVE  Stepped(t, n)
 <2>1. /\ t \in States /\ t.files = s.files /\ t.crashed = s.crashed
       /\ Has(t.r, FALSE, s.r.style, s.r.pending, s.r.odd, s.r.line_no, s.r.folder, s.r.empty)
  BY <1>3, <1>12, StartIs
 <2>2. ~t.r.started BY <2>1 DEF Has
 <2>3. AtRar(t.r, n + 1) BY <1>5, <1>12, <2>2
 <2>. QED BY <1>3, <1>4, <1>12, <2>1, <2>3, IsSteppedOver
<1>13. ASSUME ~AtMember(n), line.kind = "text", ~s.r.started,
              ~InTable(n + 1), ~(There(n + 1) /\ HasSplit)
       PROVE  Stepped(t, n)
 <2>1. t = s BY <1>2, <1>13 DEF ReadRar
 <2>2. AtRar(s.r, n + 1) BY <1>5, <1>13
 <2>. QED BY <1>4, <1>13, <2>1, <2>2, SameStep
<1>14. line.kind = "separator" =>
         t = IF s.r.started THEN Start(s, FALSE) ELSE WithOdd(Start(s, TRUE), TRUE)
 BY <1>2, RarSeparates
<1>15. CASE ~AtMember(n) /\ n < First
 <2>1. line.kind = (IF n = text THEN "separator" ELSE "text") BY <1>15, LineAt DEF Before
 <2>2. ~InTable(n) /\ ~There(n) /\ ~There(n + 1) /\ ~s.r.started
  BY <1>1, <1>3, <1>5, <1>7, <1>8, <1>15
 <2>3. CASE n = text
  <3>1. n + 1 = First BY <1>1, <2>3
  <3>2. InTable(n + 1) /\ Read(n + 1) = 0 BY <1>6, <3>1 DEF Walks
  <3>. QED BY <1>11, <1>14, <1>15, <2>1, <2>2, <2>3, <3>2
 <2>4. CASE n # text
  <3>1. ~InTable(n + 1) BY <1>1, <1>7, <1>15, <2>4
  <3>. QED BY <1>13, <1>15, <2>1, <2>2, <2>4, <3>1
 <2>. QED BY <2>3, <2>4
<1>16. CASE ~AtMember(n) /\ n >= Past
 <2>1. line = After(n) BY <1>16, LineAt
 <2>2. ~InTable(n + 1) /\ Second \in Nat /\ Second > Past BY <1>1, <1>7, <1>8, <1>16
 <2>3. CASE n = Past
  <3>1. line.kind = "separator" BY <2>1, <2>3 DEF After, Line
  <3>2. s.r.started /\ ~There(n + 1) BY <1>1, <1>3, <1>5, <1>7, <1>8, <2>3
  <3>. QED BY <1>12, <1>14, <1>16, <2>2, <3>1, <3>2
 <2>4. n # Past => ~InTable(n) BY <1>1, <1>7, <1>16
 <2>5. CASE n # Past /\ HasSplit /\ n = Second
  <3>1. line.kind = "separator" BY <2>1, <2>5 DEF After, Line
  <3>2. ~s.r.started
   <4>1. ~There(n) BY <1>7, <2>2, <2>5
   <4>. QED BY <1>3, <1>5, <2>4, <2>5, <4>1
  <3>3. There(n + 1) /\ n + 1 # Second + 2 BY <1>7, <2>2, <2>5
  <3>. QED BY <1>11, <1>14, <1>16, <2>2, <2>5, <3>1, <3>2, <3>3
 <2>6. CASE n # Past /\ HasSplit /\ n = Second + 3
  <3>1. line.kind = "separator" BY <2>1, <2>6 DEF After, Line
  <3>2. There(n) /\ ~There(n + 1) BY <1>7, <2>2, <2>6
  <3>3. s.r.started BY <1>3, <1>5, <2>6, <3>2
  <3>. QED BY <1>12, <1>14, <1>16, <2>2, <3>1, <3>2, <3>3
 <2>7. CASE n # Past /\ HasSplit /\ n = Second + 1
  <3> DEFINE u == Pend(s, Entry(Split))
  <3>1. line = Line("name", Split)
   <4>1. n \notin {Second, Second + 3} BY <2>2, <2>7
   <4>. QED BY <2>1, <2>7, <4>1 DEF After
  <3>2. There(n) /\ There(n + 1) /\ n + 1 = Second + 2 /\ n # Second + 2 BY <1>7, <2>2, <2>7
  <3>3. s.r.started /\ s.r.odd BY <1>3, <1>5, <2>7, <3>2
  <3>4. line.kind = "name" /\ line.of = Split BY <3>1 DEF Line
  <3>5. t = WithOdd(u, FALSE) BY <1>2, <3>3, <3>4 DEF ReadRar, WithOdd
  <3>6. Entry(Split) \in FileData \cup {Null} BY <2>7, SplitIs
  <3>7. /\ u \in States /\ u.files = s.files /\ u.crashed = s.crashed
        /\ Has(u.r, s.r.started, s.r.style, Entry(Split), s.r.odd, s.r.line_no, s.r.folder, s.r.empty)
   BY <1>3, <3>6, PendIs
  <3> HIDE DEF u
  <3>8. /\ t \in States /\ t.files = u.files /\ t.crashed = u.crashed
        /\ Has(t.r, u.r.started, u.r.style, u.r.pending, FALSE, u.r.line_no, u.r.folder, u.r.empty)
   BY <3>5, <3>7, WithOddIs
  <3>9. t.r.started /\ ~t.r.odd BY <3>3, <3>7, <3>8 DEF Has
  <3>10. AtRar(t.r, n + 1) BY <1>5, <2>2, <2>7, <3>2, <3>9
  <3>. QED BY <1>3, <1>4, <1>16, <3>7, <3>8, <3>10, IsSteppedOver
 <2>8. CASE n # Past /\ HasSplit /\ n = Second + 2
  <3> DEFINE u == Pend(s, Null)
  <3>1. line = Line("rest", Split)
   <4>1. n \notin {Second, Second + 3} /\ n # Second + 1 BY <2>2, <2>8
   <4>. QED BY <2>1, <2>8, <4>1 DEF After
  <3>2. There(n) /\ There(n + 1) /\ n + 1 # Second + 2 BY <1>7, <2>2, <2>8
  <3>3. s.r.started /\ ~s.r.odd BY <1>3, <1>5, <2>8, <3>2
  <3>4. line.kind = "rest" /\ line.of = Split BY <3>1 DEF Line
  <3>5. t = WithOdd(u, TRUE) BY <1>2, <3>3, <3>4 DEF ReadRar, WithOdd
  <3>6. Null \in FileData \cup {Null} OBVIOUS
  <3>7. /\ u \in States /\ u.files = s.files /\ u.crashed = s.crashed
        /\ Has(u.r, s.r.started, s.r.style, Null, s.r.odd, s.r.line_no, s.r.folder, s.r.empty)
   BY <1>3, <3>6, PendIs
  <3> HIDE DEF u
  <3>8. /\ t \in States /\ t.files = u.files /\ t.crashed = u.crashed
        /\ Has(t.r, u.r.started, u.r.style, u.r.pending, TRUE, u.r.line_no, u.r.folder, u.r.empty)
   BY <3>5, <3>7, WithOddIs
  <3>9. t.r.started /\ t.r.odd BY <3>3, <3>7, <3>8 DEF Has
  <3>10. AtRar(t.r, n + 1) BY <1>5, <2>2, <2>8, <3>2, <3>9
  <3>. QED BY <1>3, <1>4, <1>16, <3>7, <3>8, <3>10, IsSteppedOver
 <2>9. CASE n # Past /\ ~(HasSplit /\ n \in {Second, Second + 1, Second + 2, Second + 3})
  <3>1. line.kind = "text" BY <2>1, <2>9 DEF After, Line
  <3>2. ~(There(n) /\ HasSplit) /\ ~(There(n + 1) /\ HasSplit) BY <1>7, <2>2, <2>9
  <3>3. ~s.r.started BY <1>3, <1>5, <2>4, <2>9, <3>2
  <3>. QED BY <1>13, <1>16, <2>2, <3>1, <3>2, <3>3
 <2>. QED BY <2>3, <2>5, <2>6, <2>7, <2>8, <2>9
<1>. QED BY <1>10, <1>15, <1>16, LineAt

\* Whatever the back end is, a line keeps the state what it should be.
LEMMA LineStep ==
    ASSUME Listed, NEW n \in Nat, n < Len(Printing), NEW line, line = Printing[n + 1],
           NEW s, Good(s, n), NEW t, t = ReadLine(s, line)
    PROVE  Stepped(t, n)
<1>1. back_end \in Known BY IsPrintedAsExpected
<1>2. CASE back_end \in {"ar", "cpio", "gzip", "lha", "rpm", "tar"} BY <1>2, RowsStep
<1>3. CASE back_end \in {"lrzip", "zoo", "dpkg", "iso", "zip"}
 BY <1>3, LrzipStep, ZooStep, DpkgStep, IsoStep, ZipStep
<1>4. CASE back_end \in {"ace", "alz", "unstuff", "sevenz", "arj", "rar"}
 BY <1>4, AceStep, AlzStep, UnstuffStep, SevenzStep, ArjStep, RarStep
<1>. QED BY <1>1, <1>2, <1>3, <1>4 DEF Known

----
(* Sorting. *)
\* That in f, what is of i comes before what is of k.
Precedes(f, i, k) ==
    \/ Rank(f[i].full) < Rank(f[k].full)
    \/ Rank(f[i].full) = Rank(f[k].full) /\ i < k
Preceding(f, i) == { j \in DOMAIN f : Precedes(f, j, i) }
Place(f, i) == Cardinality(Preceding(f, i)) + 1

Ranked(f) == f \in Seq(FileData) /\ \A k \in DOMAIN f : HasPaths(f[k])

LEMMA RanksAre ==
    ASSUME NEW f, Ranked(f)
    PROVE  /\ Len(f) \in Nat /\ DOMAIN f = 1..Len(f)
           /\ \A i \in 1..Len(f) : Rank(f[i].full) \in Nat /\ f[i] \in FileData
<1>1. Len(f) \in Nat /\ DOMAIN f = 1..Len(f) /\ \A i \in 1..Len(f) : f[i] \in FileData BY DEF Ranked
<1>2. ASSUME NEW i \in 1..Len(f) PROVE Rank(f[i].full) \in Nat
 <2> QED BY <1>1, OrderIs DEF Ranked, HasPaths
<1>. QED BY <1>1, <1>2

LEMMA PlacesAre ==
    ASSUME NEW f, Ranked(f)
    PROVE  /\ \A i \in 1..Len(f) : Place(f, i) \in 1..Len(f)
           /\ \A i, k \in 1..Len(f) : Precedes(f, i, k) => Place(f, i) < Place(f, k)
           /\ \A i, k \in 1..Len(f) : i = k \/ Precedes(f, i, k) \/ Precedes(f, k, i)
<1> DEFINE L == Len(f)
<1> DEFINE D == 1..L
<1>1. /\ L \in Nat /\ DOMAIN f = D
      /\ \A i \in D : Rank(f[i].full) \in Nat
 BY RanksAre
<1>2. IsFiniteSet(D) /\ Cardinality(D) = L BY <1>1, FS_Interval
<1>3. \A i, k \in D : i = k \/ Precedes(f, i, k) \/ Precedes(f, k, i) BY <1>1 DEF Precedes
<1>4. \A i \in D : ~Precedes(f, i, i) BY <1>1 DEF Precedes
<1>5. \A i, j, k \in D : Precedes(f, i, j) /\ Precedes(f, j, k) => Precedes(f, i, k)
 BY <1>1 DEF Precedes
<1>6. \A i \in D : Preceding(f, i) = { j \in D : Precedes(f, j, i) } BY <1>1 DEF Preceding
<1>7. ASSUME NEW i \in D
      PROVE  /\ IsFiniteSet(Preceding(f, i)) /\ Cardinality(Preceding(f, i)) \in Nat
             /\ Cardinality(Preceding(f, i)) < L
 <2> DEFINE T == Preceding(f, i)
 <2>1. T \in SUBSET D /\ i \notin T BY <1>4, <1>6
 <2> HIDE DEF T, D
 <2>2. IsFiniteSet(T) /\ Cardinality(T) <= Cardinality(D) /\ (Cardinality(D) = Cardinality(T) => D = T)
  BY <1>2, <2>1, FS_Subset
 <2>3. Cardinality(T) \in Nat BY <2>2, FS_CardinalityType
 <2>4. Cardinality(T) # L BY <1>2, <2>1, <2>2
 <2>. QED BY <1>1, <1>2, <2>2, <2>3, <2>4 DEF T
<1>8. ASSUME NEW i \in D, NEW k \in D, Precedes(f, i, k)
      PROVE  Cardinality(Preceding(f, i)) < Cardinality(Preceding(f, k))
 <2> DEFINE S == Preceding(f, k)
 <2> DEFINE T == Preceding(f, i)
 <2>1. T \in SUBSET S /\ i \in S /\ i \notin T BY <1>4, <1>5, <1>6, <1>8
 <2>2. IsFiniteSet(S) /\ Cardinality(S) \in Nat /\ Cardinality(T) \in Nat BY <1>7
 <2> HIDE DEF S, T
 <2>3. Cardinality(T) <= Cardinality(S) /\ (Cardinality(S) = Cardinality(T) => S = T)
  BY <2>1, <2>2, FS_Subset
 <2>. QED BY <2>1, <2>2, <2>3 DEF S, T
<1>9. \A i \in D : Place(f, i) \in D
 <2> SUFFICES ASSUME NEW i \in D PROVE Place(f, i) \in D OBVIOUS
 <2> DEFINE c == Cardinality(Preceding(f, i))
 <2>1. c \in Nat /\ c < L BY <1>7
 <2> HIDE DEF c
 <2> QED BY <1>1, <2>1 DEF Place, c
<1>10. \A i, k \in D : Precedes(f, i, k) => Place(f, i) < Place(f, k)
 <2> SUFFICES ASSUME NEW i \in D, NEW k \in D, Precedes(f, i, k) PROVE Place(f, i) < Place(f, k)
  OBVIOUS
 <2> DEFINE c == Cardinality(Preceding(f, i))
 <2> DEFINE d == Cardinality(Preceding(f, k))
 <2>1. c \in Nat /\ d \in Nat /\ c < d BY <1>7, <1>8
 <2> HIDE DEF c, d
 <2> QED BY <2>1 DEF Place, c, d
<1>. QED BY <1>3, <1>9, <1>10

\* Every place is taken by one of them.
LEMMA PlacesTaken ==
    ASSUME NEW f, Ranked(f), NEW q \in 1..Len(f)
    PROVE  \E i \in 1..Len(f) : Place(f, i) = q
<1> DEFINE L == Len(f)
<1> DEFINE D == 1..L
<1> DEFINE g == [i \in D |-> Place(f, i)]
<1>1. L \in Nat BY RanksAre
<1>2. IsFiniteSet(D) BY <1>1, FS_Interval
<1>3. /\ \A i \in D : Place(f, i) \in D
      /\ \A i, k \in D : Precedes(f, i, k) => Place(f, i) < Place(f, k)
      /\ \A i, k \in D : i = k \/ Precedes(f, i, k) \/ Precedes(f, k, i)
 BY PlacesAre
<1>4. \A i, k \in D : Place(f, i) = Place(f, k) => i = k BY <1>1, <1>3
<1> HIDE DEF D
<1>5. g \in [D -> D] /\ \A i \in D : g[i] = Place(f, i) BY <1>3
<1> HIDE DEF g
<1>6. g \in Injection(D, D) BY <1>4, <1>5 DEF Injection, IsInjective
<1>7. g \in Surjection(D, D) BY <1>2, <1>6, FS_Injection
<1>8. \A y \in D : \E x \in D : g[x] = y BY <1>7 DEF Surjection
<1>9. q \in D BY DEF D
<1>. QED BY <1>5, <1>8, <1>9 DEF D

\* The same entries, in order.
SortedOf(f, g) ==
    /\ g \in Seq(FileData) /\ Len(g) = Len(f)
    /\ \A k \in 1..Len(f) : \E i \in 1..Len(f) : g[k] = f[i]
    /\ \A i \in 1..Len(f) : \E k \in 1..Len(f) : g[k] = f[i]
    /\ \A k, n \in 1..Len(f) : k < n => Rank(g[k].full) <= Rank(g[n].full)

LEMMA SortedIs ==
    ASSUME NEW f, Ranked(f), NEW g, g = Sorted(f)
    PROVE  SortedOf(f, g)
<1> DEFINE L == Len(f)
<1> DEFINE D == 1..L
<1> DEFINE from(k) == CHOOSE i \in D : Cardinality(Preceding(f, i)) = k - 1
<1>1. L \in Nat /\ DOMAIN f = D /\ \A i \in D : Rank(f[i].full) \in Nat /\ f[i] \in FileData
 BY RanksAre
<1>2. g = [k \in D |-> f[from(k)]] BY <1>1 DEF Sorted, Preceding, Precedes
<1>3. /\ \A i \in D : Place(f, i) \in D
      /\ \A i, k \in D : Precedes(f, i, k) => Place(f, i) < Place(f, k)
      /\ \A i, k \in D : i = k \/ Precedes(f, i, k) \/ Precedes(f, k, i)
 BY PlacesAre
<1>4. \A i \in D : Cardinality(Preceding(f, i)) \in Int
 <2> SUFFICES ASSUME NEW i \in D PROVE Cardinality(Preceding(f, i)) \in Int OBVIOUS
 <2>1. Preceding(f, i) \in SUBSET D BY <1>1 DEF Preceding
 <2>2. IsFiniteSet(D) BY <1>1, FS_Interval
 <2> QED BY <2>1, <2>2, FS_Subset, FS_CardinalityType
<1>5. ASSUME NEW k \in D PROVE from(k) \in D /\ Place(f, from(k)) = k
 <2>1. PICK i \in D : Place(f, i) = k BY PlacesTaken
 <2> DEFINE c == Cardinality(Preceding(f, i))
 <2>2. c \in Int /\ c + 1 = k BY <1>4, <2>1 DEF Place
 <2> HIDE DEF c
 <2>3. c = k - 1 BY <1>1, <2>2
 <2>4. from(k) \in D /\ Cardinality(Preceding(f, from(k))) = k - 1 BY <2>3 DEF c
 <2> HIDE DEF from
 <2>5. Place(f, from(k)) = (k - 1) + 1 BY <2>4 DEF Place
 <2>. QED BY <1>1, <2>4, <2>5
<1> HIDE DEF from
<1>6. g \in Seq(FileData) /\ Len(g) = L /\ \A k \in D : g[k] = f[from(k)] BY <1>1, <1>2, <1>5
<1>7. ASSUME NEW i \in D PROVE \E k \in D : g[k] = f[i]
 <2> DEFINE k == Place(f, i)
 <2>1. k \in D BY <1>3
 <2> HIDE DEF k
 <2>2. from(k) \in D /\ Place(f, from(k)) = Place(f, i) BY <1>5, <2>1 DEF k
 <2>3. Place(f, i) \in Int BY <1>3
 <2>4. from(k) = i BY <1>3, <2>2, <2>3
 <2>. QED BY <1>6, <2>1, <2>4
<1>8. ASSUME NEW k \in D, NEW n \in D, k < n PROVE Rank(g[k].full) <= Rank(g[n].full)
 <2>1. from(k) \in D /\ from(n) \in D /\ Place(f, from(k)) = k /\ Place(f, from(n)) = n BY <1>5
 <2>2. ~Precedes(f, from(n), from(k)) /\ from(k) # from(n)
  <3>1. ~(n < k) /\ k # n BY <1>1, <1>8
  <3>. QED BY <1>3, <2>1, <3>1
 <2>3. Precedes(f, from(k), from(n)) BY <1>3, <2>1, <2>2
 <2>4. Rank(f[from(k)].full) \in Nat /\ Rank(f[from(n)].full) \in Nat BY <1>1, <2>1
 <2>5. Rank(f[from(k)].full) <= Rank(f[from(n)].full) BY <2>3, <2>4 DEF Precedes
 <2>. QED BY <1>6, <2>5
<1>9. \A k \in D : \E i \in D : g[k] = f[i] BY <1>5, <1>6
<1>. QED BY <1>6, <1>7, <1>8, <1>9 DEF SortedOf

----
(* Dates. *)
\* What is shown of a date is not later, and of the same year.
LEMMA ShownDate ==
    ASSUME NEW b, NEW d \in Moment, NEW x, x = Shown(b, d)
    PROVE  /\ x \in Moment /\ x.year = d.year /\ x.month = d.month
           /\ Clock(x) \in Int /\ Clock(d) \in Int /\ Clock(x) <= Clock(d)
           /\ x.hour <= d.hour /\ x.sec <= d.sec
<1>1. /\ d.year \in 1970..2069 /\ d.month \in 0..11 /\ d.hour \in 0..23 /\ d.sec \in 0..59
      /\ DOMAIN d = {"year", "month", "hour", "sec"}
 BY DEF Moment
<1>2. x \in Moment BY ShownIs
<1>3. x.year = d.year /\ x.month = d.month /\ x.hour \in {0, d.hour} /\ x.sec \in {0, d.sec}
 <2>1. x \in {d, [d EXCEPT !.sec = 0], [d EXCEPT !.hour = 0, !.sec = 0]} BY DEF Shown
 <2> DEFINE AsIn(h) == h.year = d.year /\ h.month = d.month /\ h.hour \in {0, d.hour} /\ h.sec \in {0, d.sec}
 <2>2. AsIn(d) OBVIOUS
 <2>3. AsIn([d EXCEPT !.sec = 0]) BY <1>1
 <2>4. AsIn([d EXCEPT !.hour = 0, !.sec = 0])
  <3> DEFINE e == [d EXCEPT !.hour = 0]
  <3>1. e.year = d.year /\ e.month = d.month /\ e.hour = 0 /\ e.sec = d.sec /\ DOMAIN e = DOMAIN d
   BY <1>1
  <3>2. [d EXCEPT !.hour = 0, !.sec = 0] = [e EXCEPT !.sec = 0] OBVIOUS
  <3> HIDE DEF e
  <3>3. AsIn([e EXCEPT !.sec = 0]) BY <1>1, <3>1
  <3>. QED BY <3>2, <3>3
 <2> HIDE DEF AsIn
 <2> QED BY <2>1, <2>2, <2>3, <2>4 DEF AsIn
<1>4. x.hour <= d.hour /\ x.sec <= d.sec BY <1>1, <1>3
<1>5. Clock(x) = ((d.year * 12 + d.month) * 24 + x.hour) * 60 + x.sec BY <1>3 DEF Clock
<1>6. Clock(d) = ((d.year * 12 + d.month) * 24 + d.hour) * 60 + d.sec BY DEF Clock
<1>7. x.hour \in Int /\ x.sec \in Int BY <1>2 DEF Moment
<1> DEFINE a == d.year * 12 + d.month
<1>9. a \in Int /\ d.hour \in Int /\ d.sec \in Int BY <1>1
<1>10. Clock(x) = (a * 24 + x.hour) * 60 + x.sec /\ Clock(d) = (a * 24 + d.hour) * 60 + d.sec
 BY <1>5, <1>6
<1> HIDE DEF a
<1>8. Clock(x) \in Int /\ Clock(d) \in Int /\ Clock(x) <= Clock(d) BY <1>4, <1>7, <1>9, <1>10
<1>. QED BY <1>2, <1>3, <1>4, <1>8

\* Of numbers alone.
Minutes(y, m, h, q) == ((y * 12 + m) * 24 + h) * 60 + q

LEMMA SameYear ==
    ASSUME NEW y \in Int, NEW m \in 0..11, NEW h \in 0..23, NEW q \in 0..59,
           NEW g \in 0..23, NEW p \in 0..59,
           NEW z \in Int, NEW k \in 0..11, NEW i \in 0..23, NEW r \in 0..59,
           Minutes(y, m, h, q) <= Minutes(z, k, i, r), Minutes(z, k, i, r) < Minutes(y, m, g, p)
    PROVE  y = z
<1> DEFINE a == y * 12 + m
<1> DEFINE c == z * 12 + k
<1> DEFINE u == h * 60 + q
<1> DEFINE v == g * 60 + p
<1> DEFINE w == i * 60 + r
<1>1. a \in Int /\ c \in Int OBVIOUS
<1>2. u \in 0..1439 /\ v \in 0..1439 /\ w \in 0..1439 OBVIOUS
<1>3. /\ Minutes(y, m, h, q) = a * 1440 + u /\ Minutes(y, m, g, p) = a * 1440 + v
      /\ Minutes(z, k, i, r) = c * 1440 + w
 BY DEF Minutes
<1>4. a = c
 <2> HIDE DEF a, c, u, v, w
 <2>1. a * 1440 + u <= c * 1440 + w /\ c * 1440 + w < a * 1440 + v BY <1>3
 <2>2. a < c => a * 1440 + 1440 <= c * 1440 BY <1>1
 <2>3. c < a => c * 1440 + 1440 <= a * 1440 BY <1>1
 <2>4. a * 1440 \in Int /\ c * 1440 \in Int BY <1>1
 <2> DEFINE b == a * 1440
 <2> DEFINE d == c * 1440
 <2>5. /\ b \in Int /\ d \in Int /\ b + u <= d + w /\ d + w < b + v
       /\ a < c => b + 1440 <= d
       /\ c < a => d + 1440 <= b
  BY <2>1, <2>2, <2>3, <2>4
 <2> HIDE DEF b, d
 <2>6. u \in Int /\ v \in Int /\ w \in Int /\ u >= 0 /\ v <= 1439 /\ w >= 0 /\ w <= 1439 BY <1>2
 <2>7. ~(b + 1440 <= d) BY <2>5, <2>6
 <2>8. ~(d + 1440 <= b) BY <2>5, <2>6
 <2>. QED BY <1>1, <2>5, <2>7, <2>8
<1>. QED BY <1>4

\* Of a year that is this one, what has the time is of the year that is taken.
LEMMA LsYearIs ==
    ASSUME NEW b \in LsStyle, NEW d \in Moment, ~Misdated(b, d), NEW x, x = Shown(b, d)
    PROVE  LsYear(x) = d.year - 1900
<1>1. /\ x \in Moment /\ x.year = d.year /\ x.month = d.month
      /\ Clock(x) \in Int /\ Clock(d) \in Int /\ Clock(x) <= Clock(d)
 BY ShownDate
<1>2. Now \in Moment /\ Clock(Now) \in Int BY DatesAssumption, ClockIs DEF Moment
<1>3. CASE ~Recent(x) BY <1>1, <1>3 DEF LsYear
<1>4. CASE Recent(x) /\ Recent(d)
 <2>1. d.year = Now.year BY <1>4 DEF Misdated
 <2>. QED BY <1>4, <2>1 DEF LsYear
<1>5. CASE Recent(x) /\ ~Recent(d)
 <2>1. Clock(x) <= Clock(Now) /\ Clock(Now) < Clock(d) BY <1>1, <1>2, <1>5 DEF Recent
 <2>2. /\ x.year \in Int /\ x.month \in 0..11 /\ x.hour \in 0..23 /\ x.sec \in 0..59
       /\ Now.year \in Int /\ Now.month \in 0..11 /\ Now.hour \in 0..23 /\ Now.sec \in 0..59
       /\ d.hour \in 0..23 /\ d.sec \in 0..59
  BY <1>1, <1>2 DEF Moment
 <2>3. /\ Clock(x) = Minutes(x.year, x.month, x.hour, x.sec)
       /\ Clock(d) = Minutes(x.year, x.month, d.hour, d.sec)
       /\ Clock(Now) = Minutes(Now.year, Now.month, Now.hour, Now.sec)
  BY <1>1 DEF Clock, Minutes
 <2>4. /\ Minutes(x.year, x.month, x.hour, x.sec) <= Minutes(Now.year, Now.month, Now.hour, Now.sec)
       /\ Minutes(Now.year, Now.month, Now.hour, Now.sec) < Minutes(x.year, x.month, d.hour, d.sec)
  BY <2>1, <2>3
 <2>6. x.year = Now.year BY <2>2, <2>4, SameYear
 <2>. QED BY <1>1, <1>5, <2>6 DEF LsYear
<1>. QED BY <1>3, <1>4, <1>5

\* The seconds that are made are those of what was shown.
LEMMA DatedIs ==
    ASSUME NEW b \in Known \ Dateless, NEW d \in Moment, ~Misdated(b, d), NEW x, x = Shown(b, d)
    PROVE  Modified(b, x) = Clock(x)
<1>1. x \in Moment /\ x.year = d.year /\ x.month = d.month BY ShownDate
<1>2. x.year \in 1970..2069 /\ x.year \in Int /\ x.month \in 0..11 /\ x.hour \in Int /\ x.sec \in Int
 BY <1>1 DEF Moment
<1> DEFINE y == x.year - 1900
<1>3. y \in Int /\ 1900 + y = x.year BY <1>2
<1> HIDE DEF y
<1>4. Clock(x) = Seconds(x.year, x.month, x) /\ Clock(x) \in Int BY <1>2 DEF Clock, Seconds
<1>5. Made(y, x) = Clock(x) /\ MadeNoSummer(y, x) = Clock(x) + Advance(x)
 <2>1. Made(y, x) = Seconds(1900 + y, x.month, x) /\ MadeNoSummer(y, x) = Seconds(1900 + y, x.month, x) + Advance(x)
  BY <1>1, <1>3, MadeIs
 <2>. QED BY <1>3, <1>4, <2>1
<1>6. TwoDigits(x) = IF x.year >= 2000 THEN x.year - 2000 ELSE x.year - 1900 BY <1>2 DEF TwoDigits
<1>7. CASE b \in {"sevenz", "tar", "ar", "zip", "iso"}
 <2>1. Modified(b, x) = Made(y, x)
  BY <1>7 DEF Modified, Modified7z, ModifiedTar, ModifiedAr, ModifiedZip, ModifiedIso, Made, y
 <2>. QED BY <1>5, <2>1
<1>8. CASE b = "ace"
 <2>1. d.year > 1975 BY <1>1, <1>2, <1>8 DEF Misdated
 <2>2. (IF TwoDigits(x) > 75 THEN TwoDigits(x) ELSE 100 + TwoDigits(x)) = y
  BY <1>1, <1>2, <1>6, <2>1 DEF y
 <2>3. Modified(b, x) = Made(y, x) BY <1>8, <2>2 DEF Modified, ModifiedAce, Made
 <2>. QED BY <1>5, <2>3
<1>9. CASE b \in {"arj", "zoo"}
 <2>1. d.year >= 1975 BY <1>1, <1>2, <1>9 DEF Misdated
 <2>2. (IF TwoDigits(x) >= 75 THEN TwoDigits(x) ELSE 100 + TwoDigits(x)) = y
  BY <1>1, <1>2, <1>6, <2>1 DEF y
 <2>3. Modified(b, x) = Made(y, x) BY <1>9, <2>2 DEF Modified, ModifiedArj, ModifiedZoo, Made
 <2>. QED BY <1>5, <2>3
<1>10. CASE b \in {"rar", "alz"}
 <2>1. d.year >= 2000 BY <1>1, <1>2, <1>10 DEF Misdated
 <2>2. 100 + TwoDigits(x) = y BY <1>1, <1>2, <1>6, <2>1 DEF y
 <2>3. CASE b = "rar"
  <3>1. Modified(b, x) = Made(y, x) BY <2>2, <2>3 DEF Modified, ModifiedRar, Made
  <3>. QED BY <1>5, <3>1
 <2>4. CASE b = "alz"
  <3>1. Modified(b, x) = MadeNoSummer(y, x) BY <2>2, <2>4 DEF Modified, ModifiedAlz, MadeNoSummer
  <3>2. Advance(x) = 0 BY <1>1, <2>4 DEF Misdated, Advance
  <3>. QED BY <1>4, <1>5, <3>1, <3>2
 <2>. QED BY <1>10, <2>3, <2>4
<1>11. CASE b \in LsStyle
 <2>1. LsYear(x) = y BY <1>1, <1>11, LsYearIs DEF y
 <2>2. Modified(b, x) = Made(y, x)
  BY <1>11, <2>1 DEF Modified, ModifiedCpio, ModifiedRpm, ModifiedLha, Made, LsStyle
 <2>. QED BY <1>5, <2>2
<1>12. b # "dpkg" BY DEF Misdated
<1>. QED BY <1>7, <1>8, <1>9, <1>10, <1>11, <1>12 DEF Known, Dateless, LsStyle

----
(* Looking for a path. *)
LEMMA SmallestOf ==
    ASSUME NEW T \in SUBSET Nat, T # {}
    PROVE  \E x \in T : \A y \in T : ~(y < x)
<1>1. PICK x \in T : \A y \in T : ~(<<y, x>> \in OpToRel(<, Nat)) BY NatLessThanWellFounded, WFMin
<1>2. \A y \in T : y < x => <<y, x>> \in OpToRel(<, Nat) BY DEF OpToRel
<1>. QED BY <1>1, <1>2

\* What is looked at first, and what f says is left of it after up to m looks.
All == [l |-> 0, r |-> Len(files)]
Halving(f, path, m) == f = [n \in 0..m |-> IF n = 0 THEN All ELSE Halved(f[n - 1], path)]

LEMMA OnceMore ==
    ASSUME NEW m \in Nat, NEW f, NEW path, Halving(f, path, m)
    PROVE  \E g : Halving(g, path, m + 1)
<1> DEFINE g == [n \in 0..(m + 1) |-> IF n = m + 1 THEN Halved(f[m], path) ELSE f[n]]
<1>1. \A n \in 0..m : f[n] = IF n = 0 THEN All ELSE Halved(f[n - 1], path) BY DEF Halving
<1>2. \A n \in 0..m : n # m + 1 /\ g[n] = f[n] OBVIOUS
<1>3. g[m + 1] = Halved(f[m], path) OBVIOUS
<1>4. ASSUME NEW n \in 0..(m + 1)
      PROVE  g[n] = IF n = 0 THEN All ELSE Halved(g[n - 1], path)
 <2> HIDE DEF g, All
 <2>1. CASE n = m + 1
  <3>1. n # 0 /\ n - 1 = m /\ m \in 0..m BY <2>1
  <3>2. g[n - 1] = f[m] BY <1>2, <3>1
  <3>. QED BY <1>3, <2>1, <3>1, <3>2
 <2>2. CASE n = 0 BY <1>1, <1>2, <2>2
 <2>3. CASE n # m + 1 /\ n # 0
  <3>1. n \in 0..m /\ n - 1 \in 0..m BY <2>3
  <3>2. g[n] = f[n] /\ g[n - 1] = f[n - 1] BY <1>2, <3>1
  <3>. QED BY <1>1, <2>3, <3>1, <3>2
 <2>. QED BY <2>1, <2>2, <2>3
<1> DEFINE h == [n \in 0..(m + 1) |-> IF n = 0 THEN All ELSE Halved(g[n - 1], path)]
<1>5. g = h
 <2>1. DOMAIN g = 0..(m + 1) /\ DOMAIN h = 0..(m + 1) OBVIOUS
 <2>2. \A n \in 0..(m + 1) : g[n] = h[n] BY <1>4
 <2>3. g = [n \in DOMAIN g |-> g[n]] /\ h = [n \in DOMAIN h |-> h[n]] OBVIOUS
 <2> HIDE DEF g, h
 <2>. QED BY <2>1, <2>2, <2>3
<1>. QED BY <1>5 DEF Halving

LEMMA Halves ==
    ASSUME NEW path, NEW m \in Nat
    PROVE  \E f : Halving(f, path, m)
<1> DEFINE T == { k \in Nat : ~\E f : Halving(f, path, k) }
<1>1. SUFFICES ASSUME T # {} PROVE FALSE OBVIOUS
<1>2. PICK k \in T : \A y \in T : ~(y < k) BY <1>1, SmallestOf
<1>3. CASE k = 0
 <2> DEFINE f == [n \in 0..0 |-> All]
 <2>1. f = [n \in 0..0 |-> IF n = 0 THEN All ELSE Halved(f[n - 1], path)] BY SMT
 <2>2. Halving(f, path, 0) BY <2>1 DEF Halving
 <2>. QED BY <1>2, <1>3, <2>2
<1>4. CASE k # 0
 <2>1. k - 1 \in Nat /\ k - 1 < k /\ (k - 1) + 1 = k BY <1>4
 <2>2. PICK f : Halving(f, path, k - 1) BY <1>2, <2>1
 <2>3. \E g : Halving(g, path, (k - 1) + 1) BY <2>1, <2>2, OnceMore
 <2>. QED BY <1>2, <2>1, <2>3
<1>. QED BY <1>3, <1>4

\* In order of the paths that are looked for.
InSearchOrder ==
    /\ files \in Seq(FileData) /\ \A k \in DOMAIN files : HasPaths(files[k])
    /\ \A i, k \in DOMAIN files : i < k => Rank(files[i].original) <= Rank(files[k].original)

\* That the kth entry is between them.
StillIn(s, k) == s \in [l : Nat, r : Nat] /\ s.l < k /\ k <= s.r /\ s.r <= Len(files)

LEMMA HalvedKeeps ==
    ASSUME InSearchOrder, NEW k \in DOMAIN files, NEW path, path = files[k].original,
           NEW s, StillIn(s, k)
    PROVE  StillIn(Halved(s, path), k)
<1> DEFINE p == s.l + ((s.r - s.l) \div 2)
<1> DEFINE there == files[p + 1].original
<1>1. /\ s \in [l : Nat, r : Nat] /\ s.l \in Nat /\ s.r \in Nat /\ s.l < k /\ k <= s.r /\ s.r <= Len(files)
      /\ files \in Seq(FileData) /\ DOMAIN files = 1..Len(files) /\ Len(files) \in Nat /\ k \in Nat
 BY DEF StillIn, InSearchOrder
<1>2. p \in Nat /\ s.l <= p /\ p < s.r BY <1>1
<1>3. Halved(s, path) = IF s.l >= s.r \/ there = path THEN s
                        ELSE IF Rank(path) < Rank(there) THEN [s EXCEPT !.r = p] ELSE [s EXCEPT !.l = p + 1]
 BY DEF Halved
<1> HIDE DEF p
<1>4. p + 1 \in DOMAIN files /\ p + 1 \in Nat BY <1>1, <1>2
<1>5. path \in Range(Order) /\ there \in Range(Order) BY <1>4 DEF InSearchOrder, HasPaths
<1>6. Rank(path) \in Nat /\ Rank(there) \in Nat /\ (Rank(path) = Rank(there) => path = there)
 BY <1>5, OrderIs
<1>7. p + 1 < k => Rank(there) <= Rank(path) BY <1>4 DEF InSearchOrder
<1>8. k < p + 1 => Rank(path) <= Rank(there) BY <1>4 DEF InSearchOrder
<1> HIDE DEF there
<1>9. k = p + 1 => there = path BY DEF there
<1>10. CASE s.l >= s.r \/ there = path BY <1>3, <1>10
<1>11. CASE ~(s.l >= s.r \/ there = path) /\ Rank(path) < Rank(there)
 <2>1. k <= p BY <1>1, <1>2, <1>6, <1>7, <1>9, <1>11
 <2>2. Halved(s, path) = [s EXCEPT !.r = p] BY <1>3, <1>11
 <2>. QED BY <1>1, <1>2, <2>1, <2>2 DEF StillIn
<1>12. CASE ~(s.l >= s.r \/ there = path) /\ ~(Rank(path) < Rank(there))
 <2>1. p + 1 < k BY <1>1, <1>2, <1>6, <1>8, <1>9, <1>12
 <2>2. Halved(s, path) = [s EXCEPT !.l = p + 1] BY <1>3, <1>12
 <2>. QED BY <1>1, <1>2, <2>1, <2>2 DEF StillIn
<1>. QED BY <1>10, <1>11, <1>12

\* What is in order is found.
LEMMA IsFound ==
    ASSUME InSearchOrder, NEW k \in DOMAIN files
    PROVE  Found(files[k].original)
<1> DEFINE path == files[k].original
<1> DEFINE at == CHOOSE f : Halving(f, path, Len(files))
<1>1. files \in Seq(FileData) /\ DOMAIN files = 1..Len(files) /\ Len(files) \in Nat /\ k \in Nat
 BY DEF InSearchOrder
<1>2. Found(path) <=> at[Len(files)].l < at[Len(files)].r BY DEF Found, Halving, All
<1> HIDE DEF path
<1>3. Halving(at, path, Len(files)) BY <1>1, Halves
<1> HIDE DEF at
<1>4. \A n \in 0..Len(files) : at[n] = IF n = 0 THEN All ELSE Halved(at[n - 1], path)
 BY <1>3 DEF Halving
<1>5. StillIn(All, k) BY <1>1 DEF StillIn, All
<1> DEFINE T == { n \in 0..Len(files) : ~StillIn(at[n], k) }
<1>6. T = {}
 <2>1. SUFFICES ASSUME T # {} PROVE FALSE OBVIOUS
 <2>2. T \in SUBSET Nat BY <1>1
 <2>3. PICK n \in T : \A y \in T : ~(y < n) BY <2>1, <2>2, SmallestOf
 <2>4. n # 0 BY <1>1, <1>4, <1>5, <2>3
 <2>5. n - 1 \in 0..Len(files) /\ n - 1 < n BY <1>1, <2>4
 <2>6. StillIn(at[n - 1], k) BY <2>3, <2>5
 <2>7. StillIn(Halved(at[n - 1], path), k) BY <2>6, HalvedKeeps DEF path
 <2>. QED BY <1>4, <2>3, <2>4, <2>7
<1>7. StillIn(at[Len(files)], k) BY <1>1, <1>6
<1>8. Found(path)
 <2> DEFINE e == at[Len(files)]
 <2>1. e.l \in Nat /\ e.r \in Nat /\ e.l < k /\ k <= e.r BY <1>7 DEF StillIn
 <2> HIDE DEF e
 <2>2. e.l < e.r BY <1>1, <2>1
 <2>. QED BY <1>2, <2>2 DEF e
<1>. QED BY <1>8 DEF path

----
(* What is loaded is as the properties say. *)
LEMMA LoadedShows ==
    ASSUME Listed, Loaded
    PROVE  NothingMissingUnless
<1> QED BY Numbers DEF Loaded, NothingMissingUnless, Shows, Excused

LEMMA LoadedDated ==
    ASSUME Listed, Loaded
    PROVE  DatedUnless
<1> SUFFICES ASSUME back_end \notin Dateless, NEW k \in DOMAIN files, files[k].of # Null,
                    NEW t \in FileTimes, ~Misdated(back_end, files[k].of.date)
             PROVE  /\ Clock(t) > Clock(files[k].of.date) =>
                         SkippedAsOlder(files[k].modified, t) /\ ~LeftOutOfUpdate(files[k].modified, t)
                    /\ Clock(t) < Clock(Shown(back_end, files[k].of.date)) =>
                         ~SkippedAsOlder(files[k].modified, t) /\ LeftOutOfUpdate(files[k].modified, t)
 BY DEF DatedUnless
<1> DEFINE e == files[k]
<1> DEFINE d == e.of.date
<1> DEFINE x == Shown(back_end, d)
<1>1. e \in FileData /\ Fine(e) BY DEF Loaded
<1>2. e.of \in Member BY <1>1 DEF FileData
<1>3. d \in Moment BY <1>2, MemberIs
<1>4. e.modified = Modified(back_end, x) BY <1>1 DEF Fine, IsDated
<1>5. ~Misdated(back_end, d) OBVIOUS
<1> HIDE DEF d
<1>6. Clock(x) \in Int /\ Clock(d) \in Int /\ Clock(x) <= Clock(d) BY <1>3, ShownDate
<1>7. Modified(back_end, x) = Clock(x)
 <2>1. back_end \in Known \ Dateless BY IsPrintedAsExpected
 <2>. QED BY <1>3, <1>5, <2>1, DatedIs
<1>8. Clock(t) \in Int
 <2>1. t \in Moment BY ListingAssumption
 <2>. QED BY <2>1, ClockIs DEF Moment
<1> HIDE DEF x, e
<1> QED BY <1>4, <1>6, <1>7, <1>8 DEF SkippedAsOlder, LeftOutOfUpdate, mtime, d, x, e

LEMMA LoadedFound ==
    ASSUME Loaded
    PROVE  FoundAgainUnlessMixed
<1>1. SUFFICES ASSUME \A k, n \in DOMAIN files :
                        ~(files[k].original = files[k].full /\ files[n].original # files[n].full),
                      \A k \in DOMAIN files : files[k].full \in {files[k].original, "/" \o files[k].original}
               PROVE  \A k \in DOMAIN files : Found(files[k].original)
 BY DEF FoundAgainUnlessMixed
<1>2. /\ files \in Seq(FileData)
      /\ \A k \in DOMAIN files : HasPaths(files[k])
      /\ \A i, k \in DOMAIN files : i < k => Rank(files[i].full) <= Rank(files[k].full)
 BY DEF Loaded, InOrder, Fine
<1>3. \A i, k \in DOMAIN files : i < k => Rank(files[i].original) <= Rank(files[k].original)
 <2>1. CASE \A k \in DOMAIN files : files[k].original = files[k].full BY <1>2, <2>1
 <2>2. CASE \E k \in DOMAIN files : files[k].original # files[k].full
  <3>1. \A k \in DOMAIN files : files[k].full = "/" \o files[k].original BY <1>1, <2>2
  <3> SUFFICES ASSUME NEW i \in DOMAIN files, NEW k \in DOMAIN files, i < k
               PROVE  Rank(files[i].original) <= Rank(files[k].original)
   OBVIOUS
  <3> DEFINE p == files[i].original
  <3> DEFINE q == files[k].original
  <3>2. files[i].full = "/" \o p /\ files[k].full = "/" \o q BY <3>1
  <3>3. /\ p \in Range(Order) /\ q \in Range(Order)
        /\ files[i].full \in Range(Order) /\ files[k].full \in Range(Order)
   BY <1>2 DEF HasPaths
  <3>4. Rank(files[i].full) <= Rank(files[k].full) BY <1>2
  <3> HIDE DEF p, q
  <3>5. Rank("/" \o p) <= Rank("/" \o q) /\ "/" \o p \in Range(Order) /\ "/" \o q \in Range(Order)
   BY <3>2, <3>3, <3>4
  <3>6. Rank(q) < Rank(p) <=> Rank("/" \o q) < Rank("/" \o p) BY <3>3, <3>5, OrderAssumption
  <3>7. Rank(p) \in Int /\ Rank(q) \in Int /\ Rank("/" \o p) \in Int /\ Rank("/" \o q) \in Int
   BY <3>3, <3>5, OrderIs
  <3> QED BY <3>5, <3>6, <3>7 DEF p, q
 <2>. QED BY <2>1, <2>2
<1> QED BY <1>2, <1>3, IsFound DEF InSearchOrder

----
(* The archive and its program stay what they are while it is listed. *)
SameArchive == UNCHANGED <<back_end, members, style, text>>

LEMMA SamePrinting ==
    ASSUME SameArchive
    PROVE  /\ Printing' = Printing /\ Number' = Number /\ First' = First /\ Width' = Width
           /\ Past' = Past /\ Second' = Second
<1>1. back_end' = back_end /\ members' = members /\ style' = style /\ text' = text
 BY DEF SameArchive
<1>2. Number' = Number /\ First' = First /\ Width' = Width BY <1>1 DEF Number, First, Width
<1>3. Past' = Past BY <1>2 DEF Past
<1>4. Second' = Second BY <1>1, <1>3 DEF Second
<1>5. Printing' = Printing
 BY <1>1 DEF Printing, Printed, Records, Table, RarVolumes, RarTable, Texts, Each, Line
<1>. QED BY <1>2, <1>3, <1>4, <1>5

LEMMA SamePlaces ==
    ASSUME SameArchive
    PROVE  /\ \A n : AtMember(n)' <=> AtMember(n)
           /\ \A n : Of(n)' = Of(n)
           /\ \A n : Read(n)' = Read(n)
           /\ \A n : InTable(n)' <=> InTable(n)
<1> QED BY SamePrinting DEF SameArchive, AtMember, Of, Read, InTable

LEMMA SameEntries ==
    ASSUME SameArchive
    PROVE  /\ \A m : Entry(m)' = Entry(m)
           /\ \A m, j : Half7z(m, j)' = Half7z(m, j)
           /\ \A e : Fine(e)' <=> Fine(e)
           /\ \A m : NameLost(m)' <=> NameLost(m)
<1>1. back_end' = back_end /\ members' = members /\ style' = style /\ text' = text
 BY DEF SameArchive
<1>2. \A m : Entry(m)' = Entry(m) BY <1>1 DEF Entry, Name
<1>3. \A e, m : Sized(e, m)' = Sized(e, m) BY <1>1 DEF Sized
<1>4. \A m, j : Half7z(m, j)' = Half7z(m, j) BY <1>2, <1>3 DEF Half7z
<1>5. \A e : Fine(e)' <=> Fine(e) BY <1>1 DEF Fine, IsDated, HasPaths
<1>6. \A m : NameLost(m)' <=> NameLost(m) BY <1>1 DEF NameLost
<1>. QED BY <1>2, <1>4, <1>5, <1>6

\* What is shown of a member stays excused, and shown.
LEMMA SameShown ==
    ASSUME SameArchive, Listed, restarts' \in Nat, restarts' >= restarts, NEW entries,
           NEW n
    PROVE  ShownAt(entries, n) => ShownAt(entries, n)'
<1>1. back_end' = back_end /\ members' = members BY DEF SameArchive
<1>2. \A m : Excused(m) => Excused(m)' BY <1>1, SameEntries DEF Excused, Listed
<1>3. First' = First /\ Width' = Width /\ Number' = Number BY SamePrinting
<1>. QED BY <1>1, <1>2, <1>3 DEF ShownAt

LEMMA SameGood ==
    ASSUME SameArchive, restarts' = restarts
    PROVE  /\ \A s, n : Good(s, n)' <=> Good(s, n)
           /\ Listed' <=> Listed
<1>1. back_end' = back_end /\ members' = members /\ style' = style /\ text' = text /\ restarts' = restarts
 BY DEF SameArchive
<1>2. /\ First' = First /\ Width' = Width /\ Number' = Number /\ Past' = Past /\ Second' = Second
 BY SamePrinting
<1>3. /\ \A n : AtMember(n)' <=> AtMember(n)
      /\ \A n : Of(n)' = Of(n)
      /\ \A n : Read(n)' = Read(n)
      /\ \A n : InTable(n)' <=> InTable(n)
 BY SamePlaces
<1>4. /\ \A m : Entry(m)' = Entry(m)
      /\ \A m, j : Half7z(m, j)' = Half7z(m, j)
      /\ \A e : Fine(e)' <=> Fine(e)
      /\ \A m : NameLost(m)' <=> NameLost(m)
 BY SameEntries
<1>5. \A m : Excused(m)' <=> Excused(m) BY <1>1, <1>4 DEF Excused
<1>6. \A f, n : ShownAt(f, n)' <=> ShownAt(f, n) BY <1>1, <1>2, <1>5 DEF ShownAt
<1>7. \A r, n : At7z(r, n)' <=> At7z(r, n) BY <1>1, <1>2, <1>3, <1>4 DEF At7z
<1>8. \A r, n : AtAce(r, n)' <=> AtAce(r, n) BY <1>1 DEF AtAce
<1>9. \A r, n : AtArj(r, n)' <=> AtArj(r, n) BY <1>1, <1>3, <1>4 DEF AtArj
<1>10. \A r, n : AtRar(r, n)' <=> AtRar(r, n) BY <1>1, <1>2, <1>3, <1>4 DEF AtRar
<1>11. \A r, f, n : AtUnstuff(r, f, n)' <=> AtUnstuff(r, f, n) BY <1>1, <1>3, <1>4 DEF AtUnstuff
<1>12. \A s, n : ReaderAt(s, n)' <=> ReaderAt(s, n)
 BY <1>1, <1>2, <1>3, <1>5, <1>7, <1>8, <1>9, <1>10, <1>11 DEF ReaderAt
<1>13. \A s, n : Good(s, n)' <=> Good(s, n) BY <1>4, <1>6, <1>12 DEF Good
<1>14. Listed' <=> Listed BY <1>1 DEF Listed
<1>. QED BY <1>13, <1>14

----
(* The state that a line function begins with, and begins with again. *)
Begun(r) ==
    /\ back_end \in {"sevenz", "ace", "alz", "rar"} => ~r.started
    /\ back_end = "sevenz" => r.pending = Null
    /\ back_end = "ace" => r.style = "unknown"
    /\ back_end = "arj" => r.pending = Null /\ (restarts = 0 => ~r.started)
    /\ back_end = "zip" => ~r.empty

BegunIsGood ==
    Listed =>
        \A s \in States :
            (~s.crashed /\ Begun(s.r) /\ \A k \in DOMAIN s.files : Fine(s.files[k])) => Good(s, 0)

\* Before the first line, nothing has to be shown.
LEMMA BegunGood == BegunIsGood
<1> SUFFICES ASSUME Listed, NEW s \in States, ~s.crashed, Begun(s.r),
                    \A k \in DOMAIN s.files : Fine(s.files[k])
             PROVE  Good(s, 0)
 BY DEF BegunIsGood
<1>1. /\ First \in Nat /\ Width \in 1..4 /\ Past \in Nat /\ First <= Past /\ Number \in Nat
      /\ text \in Nat
 BY Numbers DEF Listed
<1>2. Walks(0) BY Walk
<1>3. ShownAt(s.files, 0)
 <2> SUFFICES ASSUME NEW i \in 1..Number, 0 >= First + Width * i PROVE FALSE BY DEF ShownAt
 <2> HIDE DEF First, Width, Number
 <2>1. Width * i >= 1 BY <1>1
 <2>. QED BY <1>1, <2>1
<1>4. CASE back_end = "sevenz"
 <2>1. First >= 2 /\ First = (IF style = "old" THEN 4 ELSE 2) + text BY <1>1, <1>4 DEF First
 <2>2. ~AtMember(0) /\ 0 # First - 1 BY <2>1, <1>1 DEF AtMember
 <2> HIDE DEF First, AtMember
 <2>3. At7z(s.r, 0) BY <1>1, <1>4, <2>2 DEF At7z, Begun
 <2>. QED BY <1>3, <1>4, <2>3 DEF Good, ReaderAt
<1>5. CASE back_end = "ace" BY <1>3, <1>5 DEF Good, ReaderAt, AtAce, Begun
<1>6. CASE back_end \in {"alz", "arj", "rar"}
 <2>1. First = text + 1 BY <1>6 DEF First
 <2>2. ~AtMember(0) /\ ~InTable(0) BY <1>1, <2>1 DEF AtMember, InTable
 <2>3. ~(0 > Second)
  <3> HIDE DEF Past
  <3>. QED BY <1>1 DEF Second
 <2> HIDE DEF AtMember, InTable, Second
 <2>4. CASE back_end = "alz" BY <1>3, <2>2, <2>4 DEF Good, ReaderAt, Begun
 <2>5. CASE back_end = "arj" BY <1>3, <2>2, <2>5 DEF Good, ReaderAt, AtArj, Begun
 <2>6. CASE back_end = "rar" BY <1>3, <2>2, <2>3, <2>6 DEF Good, ReaderAt, AtRar, Begun
 <2>. QED BY <1>6, <2>4, <2>5, <2>6
<1>7. CASE back_end = "unstuff"
 <2>1. First = 0 /\ Width = 2 BY <1>7 DEF First, Width
 <2>2. Read(0) # 1 BY <2>1 DEF Read
 <2>. QED BY <1>3, <1>7, <2>2 DEF Good, ReaderAt, AtUnstuff
<1>8. CASE back_end \notin {"sevenz", "ace", "alz", "arj", "rar", "unstuff"}
 BY <1>3, <1>8 DEF Good, ReaderAt, Begun
<1>. QED BY <1>4, <1>5, <1>6, <1>7, <1>8

BeginsAgain(r) ==
    /\ Begin(r) \in Readers
    /\ back_end \in {"sevenz", "ace", "alz", "rar"} => ~Begin(r).started
    /\ back_end = "sevenz" => Begin(r).pending = Null
    /\ back_end = "ace" => Begin(r).style = "unknown"
    /\ back_end = "arj" => Begin(r) = r
    /\ back_end = "zip" => ~Begin(r).empty

LEMMA BeginIs ==
    ASSUME NEW r \in Readers
    PROVE  BeginsAgain(r)
<1> DEFINE q == [r EXCEPT !.started = FALSE]
<1>1. q \in Readers /\ ~q.started /\ q.style = r.style /\ q.pending = r.pending BY DEF Readers
<1>2. CASE back_end \in {"alz", "rar"}
 <2>1. Begin(r) = q BY <1>2 DEF Begin
 <2>. QED BY <1>1, <1>2, <2>1 DEF BeginsAgain
<1>3. CASE back_end = "ace"
 <2>1. Begin(r) = [q EXCEPT !.style = "unknown"] BY <1>3 DEF Begin
 <2> HIDE DEF q
 <2>2. Begin(r) \in Readers /\ ~Begin(r).started /\ Begin(r).style = "unknown"
  BY <1>1, <2>1 DEF Readers
 <2>. QED BY <1>3, <2>2 DEF BeginsAgain
<1>4. CASE back_end = "sevenz"
 <2>1. Begin(r) = [q EXCEPT !.pending = Null] BY <1>4 DEF Begin
 <2> HIDE DEF q
 <2>2. Begin(r) \in Readers /\ ~Begin(r).started /\ Begin(r).pending = Null
  BY <1>1, <2>1 DEF Readers
 <2>. QED BY <1>4, <2>2 DEF BeginsAgain
<1>5. CASE back_end = "iso"
 <2>1. Begin(r) = [r EXCEPT !.folder = Null] BY <1>5 DEF Begin
 <2>2. Begin(r) \in Readers BY <2>1 DEF Readers
 <2>. QED BY <1>5, <2>2 DEF BeginsAgain
<1>6. CASE back_end = "unstuff"
 <2>1. Begin(r) = [r EXCEPT !.pending = Null] BY <1>6 DEF Begin
 <2>2. Begin(r) \in Readers BY <2>1 DEF Readers
 <2>. QED BY <1>6, <2>2 DEF BeginsAgain
<1>7. CASE back_end = "zip"
 <2>1. Begin(r) = [r EXCEPT !.empty = FALSE] BY <1>7 DEF Begin
 <2>2. Begin(r) \in Readers /\ ~Begin(r).empty BY <2>1 DEF Readers
 <2>. QED BY <1>7, <2>2 DEF BeginsAgain
<1>8. CASE back_end \notin {"alz", "rar", "ace", "sevenz", "iso", "unstuff", "zip"}
 BY <1>8 DEF Begin, BeginsAgain
<1>. QED BY <1>2, <1>3, <1>4, <1>5, <1>6, <1>7, <1>8

LEMMA ListingBegins == ListingInit => ListingInv
<1> SUFFICES ASSUME ListingInit PROVE ListingInv OBVIOUS
<1>1. Listed BY ListingAssumption DEF ListingInit, Listed
<1>2. outcome = "running" /\ lines = Printing /\ reader = Begin(Reader) /\ files = <<>> /\ restarts = 0
 BY DEF ListingInit, Printing
<1>3. Printing \in Seq(Lines) BY <1>1, IsPrintedAsExpected DEF PrintedAsExpected
<1>4. At = 0
 <2>1. Len(Printing) \in Nat BY <1>3
 <2>. QED BY <1>2, <2>1 DEF At
<1>5. Reader \in Readers /\ ~Reader.started /\ Reader.pending = Null /\ Reader.style = "unknown"
 BY DEF Reader, Readers
<1>6. BeginsAgain(Reader) BY <1>5, BeginIs
<1>7. Begun(reader) /\ reader \in Readers BY <1>2, <1>5, <1>6 DEF BeginsAgain, Begun
<1>8. State \in States /\ ~State.crashed /\ State.r = reader /\ State.files = <<>>
 BY <1>2, <1>7 DEF State, States
<1>9. Good(State, 0)
 <2>1. \A k \in DOMAIN State.files : Fine(State.files[k]) BY <1>8
 <2>. QED BY <1>1, <1>7, <1>8, <2>1, BegunGood DEF BegunIsGood
<1>10. Running
 <2>1. lines \in Seq(Lines) /\ Len(lines) = Len(Printing) /\ Len(lines) \in Nat BY <1>2, <1>3
 <2>2. \A q \in 1..Len(lines) : lines[q] = Printing[At + q] BY <1>2, <1>4, <2>1
 <2>. QED BY <1>4, <1>9, <2>1, <2>2 DEF Running
<1>11. CrashesOnlyOnCutLinesUnlessArj BY <1>2 DEF CrashesOnlyOnCutLinesUnlessArj
<1>. QED BY <1>1, <1>2, <1>10, <1>11 DEF ListingInv

----
(* The invariant is kept. *)

\* The line that is read next.
LEMMA HeadIs ==
    ASSUME Listed, Running, lines # <<>>
    PROVE  /\ At \in Nat /\ At < Len(Printing) /\ Head(lines) = Printing[At + 1]
           /\ Tail(lines) \in Seq(Lines) /\ Len(Tail(lines)) = Len(lines) - 1
           /\ \A q \in 1..(Len(lines) - 1) : Tail(lines)[q] = Printing[(At + 1) + q]
           /\ Stepped(ReadLine(State, Head(lines)), At)
<1>1. /\ lines \in Seq(Lines) /\ Len(lines) \in Nat /\ Len(lines) > 0
      /\ Printing \in Seq(Lines) /\ Len(Printing) \in Nat
 <2>1. lines \in Seq(Lines) BY DEF Running
 <2>2. Printing \in Seq(Lines) BY IsPrintedAsExpected DEF PrintedAsExpected
 <2>. QED BY <2>1, <2>2
<1>2. Len(lines) <= Len(Printing) /\ \A q \in 1..Len(lines) : lines[q] = Printing[At + q]
 BY DEF Running
<1>3. At \in Nat /\ At < Len(Printing) BY <1>1, <1>2 DEF At
<1>4. Head(lines) = Printing[At + 1] BY <1>1, <1>2
<1>5. /\ Tail(lines) \in Seq(Lines) /\ Len(Tail(lines)) = Len(lines) - 1
      /\ \A q \in 1..(Len(lines) - 1) : Tail(lines)[q] = lines[q + 1]
 BY <1>1
<1>6. \A q \in 1..(Len(lines) - 1) : Tail(lines)[q] = Printing[(At + 1) + q]
 <2> SUFFICES ASSUME NEW q \in 1..(Len(lines) - 1) PROVE Tail(lines)[q] = Printing[(At + 1) + q]
  OBVIOUS
 <2>1. q + 1 \in 1..Len(lines) /\ At + (q + 1) = (At + 1) + q BY <1>1, <1>3
 <2>. QED BY <1>2, <1>5, <2>1
<1>7. Stepped(ReadLine(State, Head(lines)), At)
 <2>1. Good(State, At) BY DEF Running
 <2>. QED BY <1>3, <1>4, <2>1, LineStep
<1>. QED BY <1>3, <1>4, <1>5, <1>6, <1>7

LEMMA ReadNextKeeps ==
    ASSUME ListingInv, ReadNext
    PROVE  ListingInv'
<1> DEFINE t == ReadLine(State, Head(lines))
<1>1. /\ Listed /\ Running /\ lines # <<>> /\ SameArchive /\ restarts' = restarts
      /\ reader' = t.r /\ files' = t.files /\ lines' = Tail(lines) /\ cut' = cut
      /\ outcome' = IF t.crashed THEN "crashed" ELSE "running"
 BY DEF ListingInv, ReadNext, Takes, SameArchive
<1>2. /\ At \in Nat /\ At < Len(Printing)
      /\ Tail(lines) \in Seq(Lines) /\ Len(Tail(lines)) = Len(lines) - 1
      /\ \A q \in 1..(Len(lines) - 1) : Tail(lines)[q] = Printing[(At + 1) + q]
      /\ Stepped(t, At)
 BY <1>1, HeadIs
<1> HIDE DEF t
<1>3. Listed' /\ Printing' = Printing BY <1>1, SameGood, SamePrinting
<1>4. CASE t.crashed
 <2>1. outcome' = "crashed" /\ back_end = "arj" /\ restarts > 0 BY <1>1, <1>2, <1>4 DEF Stepped
 <2>2. CrashesOnlyOnCutLinesUnlessArj'
  BY <1>1, <2>1 DEF CrashesOnlyOnCutLinesUnlessArj, SameArchive
 <2>. QED BY <1>3, <2>1, <2>2 DEF ListingInv
<1>5. CASE ~t.crashed
 <2>1. outcome' = "running" /\ Good(t, At + 1) BY <1>1, <1>2, <1>5 DEF Stepped
 <2>2. State' = t
  <3>1. t \in States /\ t.crashed = FALSE BY <1>5, <2>1 DEF Good, States
  <3>2. State' = [r |-> t.r, files |-> t.files, crashed |-> FALSE] BY <1>1 DEF State
  <3>. QED BY <3>1, <3>2 DEF States
 <2>3. Len(lines) \in Nat /\ Len(Printing) \in Nat /\ Len(lines) <= Len(Printing)
  <3> QED BY <1>1, IsPrintedAsExpected DEF PrintedAsExpected, Running
 <2>4. At' = At + 1 BY <1>1, <1>2, <1>3, <2>3 DEF At
 <2>5. Good(State, At)'
  <3>1. PICK v : v = t OBVIOUS
  <3>2. PICK n : n = At + 1 OBVIOUS
  <3>3. Good(v, n) BY <2>1, <3>1, <3>2
  <3>4. Good(v, n)' BY <1>1, <3>3, SameGood
  <3>. QED BY <2>2, <2>4, <3>1, <3>2, <3>4
 <2>6. Running'
  <3>1. Len(lines') = Len(lines) - 1 /\ Len(lines') <= Len(Printing) BY <1>1, <1>2, <2>3
  <3>. QED BY <1>1, <1>2, <1>3, <2>4, <2>5, <3>1 DEF Running
 <2>7. CrashesOnlyOnCutLinesUnlessArj' BY <2>1 DEF CrashesOnlyOnCutLinesUnlessArj
 <2>. QED BY <1>3, <2>1, <2>6, <2>7 DEF ListingInv
<1>. QED BY <1>4, <1>5

\* No line of arj that has a name is a second line.
LEMMA ArjPendsNothing ==
    ASSUME Listed, Running, lines # <<>>, back_end = "arj", InAnotherCharset(Head(lines))
    PROVE  reader.pending = Null
<1>1. /\ At \in Nat /\ At < Len(Printing) /\ Head(lines) = Printing[At + 1] BY HeadIs
<1>2. AtArj(reader, At) BY DEF Running, Good, ReaderAt, State
<1>3. SUFFICES ASSUME reader.pending # Null PROVE FALSE OBVIOUS
<1>4. AtMember(At) /\ Read(At) = 1 BY <1>2, <1>3 DEF AtArj
<1>5. Head(lines).kind = KindsOf[Read(At) + 1] BY <1>1, <1>4, LineAt
<1> QED BY <1>4, <1>5 DEF KindsOf, InAnotherCharset

LEMMA TryAnotherCharsetKeeps ==
    ASSUME ListingInv, TryAnotherCharset
    PROVE  ListingInv'
<1>1. /\ Listed /\ Running /\ lines # <<>> /\ SameArchive /\ restarts' = restarts + 1
      /\ InAnotherCharset(Head(lines))
      /\ reader' = Begin(reader) /\ files' = files /\ lines' = Printing
      /\ outcome' = "running" /\ restarts \in Nat
 BY DEF ListingInv, TryAnotherCharset, SameArchive, Listed, Printing
<1>2. restarts' \in Nat /\ restarts' # 0 BY <1>1
<1>3. Listed' BY <1>1, <1>2 DEF Listed, SameArchive
<1>4. Printing' = Printing /\ Printing \in Seq(Lines) /\ lines' = Printing'
 BY <1>1, SamePrinting, IsPrintedAsExpected DEF PrintedAsExpected
<1>5. Good(State, At) BY <1>1 DEF Running
<1>6. reader \in Readers /\ files \in Seq(FileData) /\ \A k \in DOMAIN files : Fine(files[k])
 BY <1>5 DEF Good, State, States
<1>7. BeginsAgain(reader) BY <1>6, BeginIs
<1>8. back_end = "arj" => reader.pending = Null BY <1>1, ArjPendsNothing
<1>9. Begun(reader)' BY <1>1, <1>2, <1>7, <1>8 DEF BeginsAgain, Begun, SameArchive
<1>10. \A k \in DOMAIN files : Fine(files[k])' BY <1>1, <1>6, SameEntries
<1>11. State' = [r |-> reader', files |-> files, crashed |-> FALSE] BY <1>1 DEF State
<1>12. BegunIsGood' BY BegunGood, PTL
<1>13. States' = States BY DEF States, Readers
<1>14. Good(State, 0)'
 <2>1. State' \in States' /\ State'.r = reader' /\ State'.files = files /\ ~State'.crashed
  BY <1>1, <1>6, <1>7, <1>11, <1>13 DEF BeginsAgain, States
 <2>. QED BY <1>1, <1>3, <1>6, <1>9, <1>10, <1>12, <2>1 DEF BegunIsGood, Begun
<1>15. At' = 0
 <2>1. Len(Printing) \in Nat BY <1>4
 <2>. QED BY <1>4, <2>1 DEF At
<1>16. Running'
 <2>1. Len(Printing) \in Nat BY <1>4
 <2>. QED BY <1>4, <1>14, <1>15, <2>1 DEF Running
<1>17. CrashesOnlyOnCutLinesUnlessArj' BY <1>1 DEF CrashesOnlyOnCutLinesUnlessArj
<1>. QED BY <1>1, <1>3, <1>16, <1>17 DEF ListingInv

LEMMA EndsWithinKeeps ==
    ASSUME ListingInv, EndsWithin
    PROVE  ListingInv'
<1>1. Listed /\ SameArchive /\ restarts' = restarts /\ cut' = TRUE /\ outcome' \in {"crashed", "failed"}
 BY DEF ListingInv, EndsWithin, Takes, SameArchive
<1>2. Listed' BY <1>1, SameGood
<1>. QED BY <1>1, <1>2 DEF ListingInv, CrashesOnlyOnCutLinesUnlessArj

LEMMA FailsKeeps ==
    ASSUME ListingInv, Fails
    PROVE  ListingInv'
<1>1. Listed /\ SameArchive /\ restarts' = restarts /\ outcome' = "failed"
 BY DEF ListingInv, Fails, SameArchive
<1>2. Listed' BY <1>1, SameGood
<1>. QED BY <1>1, <1>2 DEF ListingInv, CrashesOnlyOnCutLinesUnlessArj

LEMMA LoadsKeeps ==
    ASSUME ListingInv, Loads
    PROVE  ListingInv'
<1>1. /\ Listed /\ Running /\ lines = <<>> /\ SameArchive /\ restarts' = restarts
      /\ files' = Sorted(files) /\ outcome' = "loaded"
 BY DEF ListingInv, Loads, SameArchive
<1>2. Listed' BY <1>1, SameGood
<1>3. Good(State, At) /\ At = Len(Printing)
 <2>1. Printing \in Seq(Lines) BY <1>1, IsPrintedAsExpected DEF PrintedAsExpected
 <2>2. Len(Printing) \in Nat BY <2>1
 <2>. QED BY <1>1, <2>2 DEF Running, At
<1>4. /\ files \in Seq(FileData) /\ ShownAt(files, At) /\ \A k \in DOMAIN files : Fine(files[k])
 BY <1>3 DEF Good, State, States
<1>5. \A i \in 1..Number : Shows(files, members[i]) \/ Excused(members[i])
 <2> SUFFICES ASSUME NEW i \in 1..Number PROVE Shows(files, members[i]) \/ Excused(members[i])
  OBVIOUS
 <2>1. /\ First \in Nat /\ Width \in 1..4 /\ Number \in Nat /\ Past = First + Width * Number
       /\ Past <= Len(Printing) /\ Len(Printing) \in Nat
  <3>1. Past <= Len(Printing) /\ Printing \in Seq(Lines)
   BY <1>1, IsPrintedAsExpected DEF PrintedAsExpected
  <3>2. Len(Printing) \in Nat BY <3>1
  <3>3. /\ First \in Nat /\ Width \in 1..4 /\ Number \in Nat /\ Past = First + Width * Number
   BY <1>1, Numbers
  <3>. QED BY <3>1, <3>2, <3>3
 <2> HIDE DEF First, Width, Number, Past, Printing, Shows, Excused
 <2>2. First + Width * i <= Past
  <3>1. CASE Width = 1 BY <2>1, <3>1
  <3>2. CASE Width = 2 BY <2>1, <3>2
  <3>3. CASE Width = 3 BY <2>1, <3>3
  <3>4. CASE Width = 4 BY <2>1, <3>4
  <3>. QED BY <2>1, <3>1, <3>2, <3>3, <3>4
 <2>3. First + Width * i \in Nat
  <3>1. Width * i \in Nat BY <2>1
  <3>. QED BY <2>1, <3>1
 <2>4. At >= First + Width * i BY <1>3, <2>1, <2>2, <2>3
 <2>. QED BY <1>4, <2>4 DEF ShownAt
<1>6. Ranked(files) BY <1>4 DEF Ranked, Fine
<1>7. PICK g : g = Sorted(files) OBVIOUS
<1>8. /\ g \in Seq(FileData) /\ Len(g) = Len(files)
      /\ \A k \in 1..Len(files) : \E i \in 1..Len(files) : g[k] = files[i]
      /\ \A i \in 1..Len(files) : \E k \in 1..Len(files) : g[k] = files[i]
      /\ \A k, n \in 1..Len(files) : k < n => Rank(g[k].full) <= Rank(g[n].full)
 <2>1. PICK f : f = files OBVIOUS
 <2>2. Ranked(f) /\ g = Sorted(f) BY <1>6, <1>7, <2>1
 <2>3. SortedOf(f, g) BY <2>2, SortedIs
 <2>. QED BY <2>1, <2>3 DEF SortedOf
<1>9. DOMAIN files = 1..Len(files) /\ DOMAIN g = 1..Len(files) /\ files' = g
 BY <1>1, <1>4, <1>7, <1>8
<1>10. \A m : Shows(files, m) => Shows(g, m) BY <1>8, <1>9 DEF Shows
<1>11. \A f, m : Shows(f, m)' <=> Shows(f, m) BY DEF Shows, IsOf
<1>12. Number' = Number /\ members' = members /\ back_end' = back_end
 BY <1>1, SamePrinting DEF SameArchive
<1>13. \A m : Excused(m) => Excused(m)'
 <2>1. \A m : NameLost(m)' <=> NameLost(m) BY <1>1, SameEntries
 <2>. QED BY <1>1, <1>12, <2>1 DEF Excused
<1>14. \A e : Fine(e)' <=> Fine(e) BY <1>1, SameEntries
<1>15. \A k \in DOMAIN g : Fine(g[k])'
 <2>1. \A k \in DOMAIN g : Fine(g[k]) BY <1>4, <1>8, <1>9
 <2>. QED BY <1>14, <2>1
<1>16. Loaded'
 <2>1. InOrder' BY <1>8, <1>9 DEF InOrder
 <2>2. FileData' = FileData BY DEF FileData
 <2>3. \A i \in 1..Number : Shows(g, members[i])' \/ Excused(members[i])'
  <3> SUFFICES ASSUME NEW i \in 1..Number PROVE Shows(g, members[i])' \/ Excused(members[i])'
   OBVIOUS
  <3>1. PICK m : m = members[i] OBVIOUS
  <3>2. Shows(g, m)' \/ Excused(m)' BY <1>5, <1>10, <1>11, <1>13, <3>1
  <3>. QED BY <1>12, <3>1, <3>2
 <2>. QED BY <1>8, <1>9, <1>12, <1>15, <2>1, <2>2, <2>3 DEF Loaded
<1>17. CrashesOnlyOnCutLinesUnlessArj' BY <1>1 DEF CrashesOnlyOnCutLinesUnlessArj
<1>. QED BY <1>1, <1>2, <1>16, <1>17 DEF ListingInv

LEMMA ListingStutters ==
    ASSUME ListingInv, UNCHANGED listing
    PROVE  ListingInv'
<1>1. /\ SameArchive /\ restarts' = restarts /\ lines' = lines /\ reader' = reader /\ files' = files
      /\ outcome' = outcome /\ cut' = cut
 BY DEF listing, SameArchive
<1>2. /\ \A s, n : Good(s, n)' <=> Good(s, n)
      /\ Listed' <=> Listed
 BY <1>1, SameGood
<1>3. Printing' = Printing /\ Number' = Number /\ members' = members /\ back_end' = back_end
 BY <1>1, SamePrinting DEF SameArchive
<1>4. State' = State /\ At' = At BY <1>1, <1>3 DEF State, At
<1>5. Lines' = Lines BY DEF Lines
<1>6. Running => Running'
 <2> SUFFICES ASSUME Running PROVE Running' OBVIOUS
 <2>1. PICK v : v = State OBVIOUS
 <2>2. PICK n : n = At OBVIOUS
 <2>3. Good(v, n)'
  <3>1. Good(v, n) BY <2>1, <2>2 DEF Running
  <3>. QED BY <1>2, <3>1
 <2>4. Good(State, At)' BY <1>4, <2>1, <2>2, <2>3
 <2>. QED BY <1>1, <1>3, <1>4, <1>5, <2>4 DEF Running
<1>7. Loaded => Loaded'
 <2> SUFFICES ASSUME Loaded PROVE Loaded' OBVIOUS
 <2>1. PICK g : g = files OBVIOUS
 <2>2. files' = g BY <1>1, <2>1
 <2>3. \A k \in DOMAIN g : Fine(g[k])'
  <3>1. \A k \in DOMAIN g : Fine(g[k]) BY <2>1 DEF Loaded
  <3>. QED BY <1>1, <3>1, SameEntries
 <2>4. \A i \in 1..Number : Shows(g, members[i])' \/ Excused(members[i])'
  <3> SUFFICES ASSUME NEW i \in 1..Number PROVE Shows(g, members[i])' \/ Excused(members[i])'
   OBVIOUS
  <3>1. PICK m : m = members[i] OBVIOUS
  <3>2. Shows(g, m) \/ Excused(m) BY <2>1, <3>1 DEF Loaded
  <3>3. Shows(g, m)' <=> Shows(g, m) BY DEF Shows, IsOf
  <3>4. Excused(m)' <=> Excused(m)
   <4>1. NameLost(m)' <=> NameLost(m) BY <1>1, SameEntries
   <4>. QED BY <1>1, <1>3, <4>1 DEF Excused
  <3>. QED BY <1>3, <3>1, <3>2, <3>3, <3>4
 <2>5. InOrder'
  <3>1. InOrder BY DEF Loaded
  <3>. QED BY <1>1, <3>1 DEF InOrder
 <2>6. FileData' = FileData /\ files \in Seq(FileData) BY DEF FileData, Loaded
 <2>. QED BY <1>1, <1>3, <2>1, <2>2, <2>3, <2>4, <2>5, <2>6 DEF Loaded
<1>8. CrashesOnlyOnCutLinesUnlessArj => CrashesOnlyOnCutLinesUnlessArj'
 BY <1>1, <1>3 DEF CrashesOnlyOnCutLinesUnlessArj
<1>. QED BY <1>1, <1>2, <1>6, <1>7, <1>8 DEF ListingInv

\* While an archive is listed, the line function is where the lines it has read put it, and every
\* member whose lines it has read whole has its entry, or is one of those that get none; what is
\* loaded has an entry for each, dated as the program showed it and in the order of its path
\* (list__process_line of each back end, check_child, fr_command_done).
THEOREM ListingIsSound == ListingSpec => []ListingInv
<1>1. ListingInit => ListingInv BY ListingBegins
<1>2. ASSUME ListingInv, [ListingNext]_listing PROVE ListingInv'
 <2>1. CASE ReadNext BY <1>2, <2>1, ReadNextKeeps
 <2>2. CASE TryAnotherCharset BY <1>2, <2>2, TryAnotherCharsetKeeps
 <2>3. CASE EndsWithin BY <1>2, <2>3, EndsWithinKeeps
 <2>4. CASE Fails BY <1>2, <2>4, FailsKeeps
 <2>5. CASE Loads BY <1>2, <2>5, LoadsKeeps
 <2>6. CASE UNCHANGED listing BY <1>2, <2>6, ListingStutters
 <2>. QED BY <1>2, <2>1, <2>2, <2>3, <2>4, <2>5, <2>6 DEF ListingNext
<1>. QED BY <1>1, <1>2, PTL DEF ListingSpec

\* What is loaded shows every member of the archive, but for the names that are not read whole,
\* the links of zip, the folders of images and what arj loses when it is started again: for any
\* archives, in every back end.
THEOREM ListingMissesNothing == ListingSpec => []NothingMissingUnless
<1>1. ListingInv => NothingMissingUnless
 <2>1. CASE outcome = "loaded" BY <2>1, LoadedShows DEF ListingInv
 <2>2. CASE outcome # "loaded" BY <2>2 DEF NothingMissingUnless
 <2>. QED BY <2>1, <2>2
<1>. QED BY <1>1, ListingIsSound, PTL

\* A line function follows NULL only on a line that is not whole, or in arj when the program was
\* started again: after whole lines its state is never one that it cannot go on from.
THEOREM ListingCrashesOnlyOnCutLines == ListingSpec => []CrashesOnlyOnCutLinesUnlessArj
<1> QED BY ListingIsSound, PTL DEF ListingInv

\* Every entry that is loaded is found by its path, though the entries are sorted by the one path
\* and looked for, by halves, by the other: but for the two mixtures in which the orders differ
\* (file_data_compare_by_path, find_path_in_file_data_array).
THEOREM ListingFindsAgain == ListingSpec => []FoundAgainUnlessMixed
<1>1. ListingInv => FoundAgainUnlessMixed
 <2>1. CASE outcome = "loaded" BY <2>1, LoadedFound DEF ListingInv
 <2>2. CASE outcome # "loaded" BY <2>2 DEF FoundAgainUnlessMixed
 <2>. QED BY <2>1, <2>2
<1>. QED BY <1>1, ListingIsSound, PTL

\* The date of an entry compares with that of a file as the date of the member does, to the
\* precision that the program showed, but for the dates that a back end reads wrongly: whatever
\* the day is, and whichever months are of the summer.
THEOREM ListingIsDated == ListingSpec => []DatedUnless
<1>1. ListingInv => DatedUnless
 <2>1. CASE outcome = "loaded" BY <2>1, LoadedDated DEF ListingInv
 <2>2. CASE outcome # "loaded" BY <2>2 DEF DatedUnless
 <2>. QED BY <2>1, <2>2
<1>. QED BY <1>1, ListingIsSound, PTL

====

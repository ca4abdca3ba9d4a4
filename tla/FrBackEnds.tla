---- MODULE FrBackEnds ----
(* The programs File Roller works through (fr-command-*.c) and the scripts that fr-archive.c
   makes them write, run by FrProcess.  A back end says which programs it needs (its
   capabilities) and what they can do (its properties); what it cannot do
   fr_archive_extract_to_local does in its place: it leaves out the files that must not be
   replaced, or extracts into a directory of its own and moves the files from there.

   Every file is in one folder of its archive, and may be extracted to the same folder of the
   destination or to the top of it.  A place holds nothing, a file older or newer than the one in
   the archive, or that one (mine).  One operation is looked at, of a process that is ready.

   Left out: updating; list files that cannot be written for an add; several volumes; folders as
   members; what the programs print, so the channels of FrProcess give no error here; a second
   mime type of a back end.  rm -rf fails only when it is killed. *)
EXTENDS FrProcess, FiniteSets, SequencesExt

CONSTANTS
    Files,         \* the members of an archive, and the files to add
    BackEnds,      \* the back ends looked at
    Destinations   \* what the places hold before an extraction

VARIABLES
    back_end,   \* of the archive that is open
    installed,  \* the programs there are, besides those of Shell
    job,        \* the operation asked for
    told,       \* the error of its DONE
    dest,       \* the places of each file at the destination
    held,       \* the files extracted into the directory to move from
    temp,       \* the temporary directories there are
    done        \* the files added, deleted, listed or tested

archive_vars == <<back_end, installed, job, told, dest, held, temp, done>>
back_end_vars == <<vars, archive_vars>>

----
(* What each back end says of itself: the programs that read and write, first the one preferred;
   those that give the capability to; what it can do (prop* of the code); and which options it
   hands on. *)

Command == [reads |-> <<>>, writes |-> <<>>, can_read |-> {}, can_write |-> {},
            can |-> {"extract_all"}, flags |-> {}, chooses |-> TRUE, one_file |-> FALSE]

Reader(program) == [Command EXCEPT !.reads = <<program>>, !.can_read = {program}]

Writer(program) ==
    [Reader(program) EXCEPT !.writes = <<program>>, !.can_write = {program},
                            !.can = @ \cup {"replace"}]

Options == {"avoid_overwrite", "skip_older", "junk_paths"}

SevenZ ==
    [Command EXCEPT !.reads = <<"7z", "7za", "7zr">>, !.writes = <<"7z", "7za", "7zr">>,
                    !.can_read = {"7za", "7zr", "7z"}, !.can_write = {"7za", "7zr", "7z"},
                    !.can = @ \cup {"replace", "junk_paths", "test", "list_file"},
                    !.flags = {"junk_paths"}]

Ace == [Reader("unace") EXCEPT !.can = @ \cup {"junk_paths", "test"}, !.flags = {"junk_paths"}]

Alz == Reader("unalz")

Ar == Writer("ar")

Arj == [Writer("arj") EXCEPT !.can = @ \cup Options \cup {"test"}, !.flags = Options]

\* A file of one member, compressed by the program; what a .Z is needs two.
CFile(program) == [Writer(program) EXCEPT !.one_file = TRUE]

CompressedZ ==
    [CFile("compress") EXCEPT !.reads = <<"gzip", "uncompress">>,
                              !.can_read = {"uncompress", "gzip"}]

Cpio == [Reader("sh") EXCEPT !.can_read = {"cpio"}]

Dpkg == [Reader("dpkg-deb") EXCEPT !.chooses = FALSE]

Iso == [Reader("sh") EXCEPT !.can_read = {"isoinfo"}, !.can = {}]

Lha == [Writer("lha") EXCEPT !.can = @ \cup {"junk_paths"}, !.flags = {"junk_paths"}]

Lrzip ==
    [Writer("lrzip") EXCEPT !.can = {"extract_all", "avoid_overwrite"},
                            !.flags = {"avoid_overwrite"}, !.chooses = FALSE, !.one_file = TRUE]

Rar ==
    [Command EXCEPT !.reads = <<"rar", "unrar">>, !.can_read = {"rar", "unrar"},
                    !.writes = <<"rar">>, !.can_write = {"rar"},
                    !.can = @ \cup Options \cup {"replace", "test", "list_file"},
                    !.flags = Options]

Rpm == [Reader("sh") EXCEPT !.can_read = {"cpio"}]

\* A tar that is not compressed; FrTar has the others.
Tar ==
    [Writer("tar") EXCEPT !.can = {"extract_all", "skip_older", "list_file"},
                          !.flags = {"avoid_overwrite", "skip_older"}]

Unstuff == [Reader("unstuff") EXCEPT !.chooses = FALSE]

InfoZip ==
    [Command EXCEPT !.reads = <<"unzip">>, !.can_read = {"unzip"},
                    !.writes = <<"zip">>, !.can_write = {"zip"},
                    !.can = @ \cup Options \cup {"replace", "test"}, !.flags = Options]

\* zip is taken for enough, though it is unzip that reads.
Jar == [InfoZip EXCEPT !.can_read = {"zip"}]

Zoo == [Writer("zoo") EXCEPT !.can = {"extract_all", "test"}]

BackEnd ==
    [sevenz |-> SevenZ, ace |-> Ace, alz |-> Alz, ar |-> Ar, arj |-> Arj,
     gzip |-> CFile("gzip"), bzip |-> CFile("bzip2"), compress |-> CompressedZ,
     cpio |-> Cpio, dpkg |-> Dpkg, iso |-> Iso, jar |-> Jar, lha |-> Lha, lrzip |-> Lrzip,
     rar |-> Rar, rpm |-> Rpm, tar |-> Tar, unstuff |-> Unstuff, zip |-> InfoZip, zoo |-> Zoo]

\* Programs that are taken to be there.
Shell == {"sh", "cp", "mv", "rm"}

Programs(b) ==
    BackEnd[b].can_read \cup BackEnd[b].can_write
        \cup ToSet(BackEnd[b].reads) \cup ToSet(BackEnd[b].writes)

\* What the commands of all scripts do, on which files.
AnyProgram == Shell \cup UNION {Programs(b) : b \in DOMAIN BackEnd}

CommandOps ==
    [program : AnyProgram, does : {"prepare", "add", "delete", "list", "test"}, files : SUBSET Files]
      \cup [program : {"rm"}, does : {"remove"}, dir : {"work", "list", "move"}, files : {{}}]
      \cup [program : AnyProgram, does : {"extract"}, files : SUBSET Files, to : {"dest", "move"},
            keep : BOOLEAN, update : BOOLEAN, top : BOOLEAN]
      \cup [program : {"mv"}, does : {"move"}, files : SUBSET Files,
            keep : BOOLEAN, update : {FALSE}, top : {TRUE}]

\* What there is in a place.
Contents == {"nothing", "older", "newer", "mine"}

ASSUME BackEndsAssumption ==
    /\ BackEnds \subseteq DOMAIN BackEnd
    /\ IsFiniteSet(Files) /\ Files # {}
    /\ Destinations # {} /\ Destinations \subseteq [Files -> [{"top", "folder"} -> Contents]]
    /\ CommandOps \subseteq Ops

Be == BackEnd[back_end]

CFiles == {"gzip", "bzip", "compress"}

Can(property) == property \in Be.can

Members == IF Be.one_file THEN {CHOOSE f \in Files : TRUE} ELSE Files

\* is_program_in_path
IsInstalled(program) == program \in installed \cup Shell

\* The first of them that is installed; the last is not looked for.
Program(programs) ==
    LET first == CHOOSE i \in DOMAIN programs :
                     /\ i = Len(programs) \/ IsInstalled(programs[i])
                     /\ \A h \in 1 .. i - 1 : ~IsInstalled(programs[h])
    IN programs[first]

IsCapable(programs) == \E program \in programs : IsInstalled(program)

----
(* Commands and scripts. *)

Run(script, program, does, files) ==
    BeginCommand(script, [program |-> program, does |-> does, files |-> files])

\* The commands made of each of some sets of files, in their order.
Each(script, commands(_), sets) ==
    script \o FlattenSeq([i \in DOMAIN sets |-> commands(sets[i])])

RemoveDir(script, dir) ==
    BeginCommand(script, [program |-> "rm", does |-> "remove", dir |-> dir, files |-> {}])

\* A command that extracts files to `to', with the options its program is handed.
Extracts(j, program, files, to) ==
    [program |-> program, does |-> "extract", files |-> files, to |-> to,
     keep   |-> "avoid_overwrite" \in Be.flags /\ ~j.overwrite,
     update |-> "skip_older" \in Be.flags /\ j.skip_older,
     top    |-> Be.one_file \/ ("junk_paths" \in Be.flags /\ j.junk_paths)]

\* A compressed file: copy, (un)compress, copy back, all by way of a
\* directory that is removed in any case.
Around(script, op) ==
    LET copied    == Run(script, "cp", "prepare", {})
        converted == Run(copied, Program(IF op.does = "add" THEN Be.writes ELSE Be.reads), "prepare", {})
    IN SetSticky(RemoveDir(BeginCommand(converted, op), "work"))

CfileExtract(j, script, to) == Around(script, Extracts(j, "cp", Members, to))

CfileAdd(files) == Around(<<>>, [program |-> "cp", does |-> "add", files |-> files])

OneByOne(files) == SetToSeq({{f} : f \in files})

\* isoinfo writes one file at a time.
IsoExtract(j, script, files, to) ==
    Each(script, LAMBDA one : BeginCommand(<<>>, Extracts(j, "sh", one, to)), OneByOne(files))

\* "it is not possible to unpack only some files"; and then the metadata.
DpkgExtract(j, script, to) ==
    Run(BeginCommand(script, Extracts(j, "dpkg-deb", Members, to)), "dpkg-deb", "prepare", {})

\* fr_command_extract; no files are all of them.
ExtractCommand(j, script, files, to) ==
    CASE back_end \in CFiles -> CfileExtract(j, script, to)
      [] back_end = "iso"    -> IsoExtract(j, script, files, to)
      [] back_end = "dpkg"   -> DpkgExtract(j, script, to)
      [] OTHER -> LET all == files = {} \/ ~Be.chooses
                  IN BeginCommand(script, Extracts(j, Program(Be.reads),
                                                   IF all THEN Members ELSE files, to))

\* split_in_chunks: what is too long for one command line.
Chunks(j, files) ==
    IF j.list = "chunks" THEN OneByOne(files) ELSE <<files>>

\* extract_from_archive: when the list cannot be written nothing is extracted, and
\* nothing says so.
ExtractFrom(j, script, files, to) ==
    IF files = {} THEN ExtractCommand(j, script, {}, to)
    ELSE CASE j.list = "unsaved" -> script
      [] j.list = "file"    -> SetSticky(RemoveDir(ExtractCommand(j, script, files, to), "list"))
      [] OTHER -> Each(script, LAMBDA chunk : ExtractCommand(j, <<>>, chunk, to), Chunks(j, files))

\* move_files_in_chunks: mv -f or mv -n, and cp for a folder that exists.
MoveFiles(j, script, files) ==
    Each(script,
         LAMBDA chunk : BeginCommand(<<>>, [program |-> "mv", does |-> "move", files |-> chunk,
                                            keep |-> ~j.overwrite, update |-> FALSE, top |-> TRUE]),
         Chunks(j, files))

----
(* fr_archive_extract_to_local. *)

Asked(j) == IF j.files = {} THEN Members ELSE j.files

AllOptionsSupported(j) ==
    /\ ~j.base_dir
    /\ j.overwrite \/ Can("avoid_overwrite")
    /\ ~j.skip_older \/ Can("skip_older")
    /\ ~j.junk_paths \/ Can("junk_paths")

MoveToDestDir(j) == j.base_dir \/ (j.junk_paths /\ ~Can("junk_paths"))

\* Where the file is looked for: base_dir is not thought of.
LooksAt(j) == IF j.junk_paths \/ Be.one_file THEN "top" ELSE "folder"

\* Where it goes.
GoesTo(j) == IF j.junk_paths \/ Be.one_file \/ j.base_dir THEN "top" ELSE "folder"

\* Mutant: what is extracted is not compared with what is there.
Filtered_LooksAtFolder(j) ==
    {f \in Asked(j) :
        LET there == j.before[f]["folder"]
        IN /\ ~(there = "newer" /\ ~Can("skip_older") /\ j.skip_older)
           /\ ~(there # "nothing" /\ ~Can("avoid_overwrite") /\ ~j.overwrite)}

\* The files left when the back end cannot skip or spare them itself.
Filtered(j) ==
    {f \in Asked(j) :
        LET there == j.before[f][LooksAt(j)]
        IN /\ ~(there = "newer" /\ ~Can("skip_older") /\ j.skip_older)
           /\ ~(there # "nothing" /\ ~Can("avoid_overwrite") /\ ~j.overwrite)}

ExtractScript(j) ==
    CASE AllOptionsSupported(j) ->
            ExtractFrom(j, <<>>, IF Can("extract_all") THEN j.files ELSE Asked(j), "dest")
      [] ~AllOptionsSupported(j) /\ Filtered(j) = {} -> <<>>
      [] ~AllOptionsSupported(j) /\ Filtered(j) # {} ->
            IF MoveToDestDir(j)
            THEN RemoveDir(MoveFiles(j, ExtractFrom(j, <<>>, Filtered(j), "move"), Filtered(j)), "move")
            ELSE ExtractFrom(j, <<>>, Filtered(j), "dest")

----
(* The other operations. *)

CommandAdd(script, files) == Run(script, Program(Be.writes), "add", files)

CommandDelete(script, files) == Run(script, Program(Be.writes), "delete", files)

\* delete_from_archive
DeleteFrom(j, script, files) ==
    CASE j.list = "unsaved" -> script
      [] j.list = "file"    -> SetSticky(RemoveDir(CommandDelete(script, files), "list"))
      [] OTHER              -> Each(script, LAMBDA chunk : CommandDelete(<<>>, chunk), Chunks(j, files))

\* fr_command_jar_add: files that are not of a package as they are, the others by way
\* of a directory of links; here the second chunk.
JarAdd(j) == SetSticky(RemoveDir(Each(<<>>, LAMBDA chunk : CommandAdd(<<>>, chunk), Chunks(j, j.files)), "work"))

\* fr_archive_add
ArchiveAdd(j) ==
    LET cleared == IF Can("replace") \/ j.present = {} THEN <<>>
                   ELSE SetIgnoreError(DeleteFrom(j, <<>>, j.present))
    IN IF back_end \in CFiles THEN CfileAdd(j.files)
       ELSE IF back_end = "jar" THEN JarAdd(j)
       ELSE IF j.list = "file" THEN SetSticky(RemoveDir(CommandAdd(cleared, j.files), "list"))
       ELSE Each(cleared, LAMBDA chunk : CommandAdd(<<>>, chunk), Chunks(j, j.files))

\* The list of a compressed file is made up without a program, unless it is gzip's; dpkg
\* first shows the metadata.
ListScript ==
    CASE back_end \in CFiles \ {"gzip"} -> <<>>
      [] back_end = "dpkg" -> Run(Run(<<>>, "dpkg-deb", "prepare", {}), "dpkg-deb", "list", Members)
      [] OTHER             -> Run(<<>>, Program(Be.reads), "list", Members)

Script(j) ==
    CASE j.action = "list"    -> ListScript
      [] j.action = "extract" -> ExtractScript(j)
      [] j.action = "test"    -> Run(<<>>, Program(Be.reads), "test", Members)
      [] j.action = "add"     -> ArchiveAdd(j)
      [] j.action = "delete"  -> DeleteFrom(j, <<>>, j.files)

----
(* handle_error: what becomes of the error of the process. *)

\* A first volume without a name for its contents is taken for an encrypted one.
Handle7z(e) ==
    CASE e.type = "NONE" -> {"NONE", "ASK_PASSWORD"}
      [] e.type # "NONE" /\ e.status <= 1 -> {"NONE"}
      [] e.type # "NONE" /\ e.status > 1  -> {e.type, "ASK_PASSWORD"}

HandleArj(e) ==
    {IF e.status <= 1 THEN "NONE" ELSE IF e.status = 3 THEN "ASK_PASSWORD" ELSE e.type}

\* A password is asked for after a stop: the line functions stop unalz for the want of it.
HandleAlz(e) == IF e.type = "STOPPED" THEN {"STOPPED", "ASK_PASSWORD"} ELSE {e.type}

HandleRar(e) ==
    IF e.type = "NONE" THEN {"NONE"}
    ELSE {IF e.status <= 1 THEN "NONE" ELSE e.type, "ASK_PASSWORD", "MISSING_VOLUME"}

HandleUnstuff(e) == {IF e.status <= 1 THEN "NONE" ELSE e.type}

\* Mutant: the status is not looked at.
HandleZip_Forgives(e) ==
    IF e.type = "NONE" \/ e.status <= 3 THEN {"NONE"} ELSE {e.type, "ASK_PASSWORD"}

HandleZip(e) ==
    IF e.type = "NONE" \/ e.status <= 1 THEN {"NONE"} ELSE {e.type, "ASK_PASSWORD"}

HandleError(e) ==
    CASE back_end = "sevenz"         -> Handle7z(e)
      [] back_end = "arj"            -> HandleArj(e)
      [] back_end = "alz"            -> HandleAlz(e)
      [] back_end = "rar"            -> HandleRar(e)
      [] back_end = "unstuff"        -> HandleUnstuff(e)
      [] back_end \in {"zip", "jar"} -> HandleZip(e)
      [] OTHER                       -> {e.type}

----
(* Requests. *)

SomeDestination == CHOOSE d \in Destinations : TRUE

\* A list of names is given on the command line, in parts if it is long, or in a file.
Lists == {"args"} \cup (IF Be.one_file THEN {} ELSE {"chunks"})
                  \cup (IF Can("list_file") THEN {"file", "unsaved"} ELSE {})

Job(action, files, list) ==
    [action |-> action, files |-> files, present |-> {}, list |-> list,
     overwrite |-> FALSE, skip_older |-> FALSE, junk_paths |-> FALSE, base_dir |-> FALSE,
     before |-> SomeDestination]

Extractions ==
    [action : {"extract"}, files : SUBSET Members, present : {{}}, list : Lists,
     overwrite : BOOLEAN, skip_older : BOOLEAN, junk_paths : BOOLEAN,
     base_dir : IF Be.one_file THEN {FALSE} ELSE BOOLEAN, before : Destinations]

\* Of the files to add some may be in the archive already.
Additions ==
    {[Job("add", files, list) EXCEPT !.present = present \cap files] :
        files \in (SUBSET Members) \ {{}}, present \in SUBSET Members,
        list \in Lists \ {"unsaved"}}

\* An archive that holds one file is never asked to delete it.
Deletions ==
    {Job("delete", files, list) : files \in IF Be.one_file THEN {} ELSE (SUBSET Members) \ {{}},
                                  list \in Lists}

Jobs ==
    {Job("list", {}, "args")} \cup Extractions \cup Additions \cup Deletions
        \cup (IF Can("test") THEN {Job("test", {}, "args")} ELSE {})

Capable(j) ==
    IsCapable(IF j.action \in {"add", "delete"} THEN Be.can_write ELSE Be.can_read)

\* The temporary directories made before the script runs.
Dirs(script) ==
    {script[i].op.dir : i \in {i \in DOMAIN script : script[i].op.does = "remove"}}

NoJob == [action |-> "none"]

Tell == told' \in IF busy' THEN {"nothing"} ELSE HandleError(error')

Ask(j, spawned) ==
    LET script == Script(j)
    IN /\ Capable(j)
       /\ spawned /\ script # <<>> => IsInstalled(Head(script).op.program)
       /\ Request(script, spawned)
       /\ Tell
       /\ job' = j /\ dest' = j.before /\ temp' = Dirs(script)
       /\ done' = IF j.action = "list" /\ script = <<>> THEN Members ELSE {}
       /\ UNCHANGED <<back_end, installed, held>>

\* What may be stopped: not the change of an archive there is.
StopJob ==
    /\ job.action \in {"list", "extract", "test"} \/ (job.action = "add" /\ job.present = {})
    /\ Stop
    /\ UNCHANGED archive_vars

\* The main loop; a program that is not installed cannot be started.
CheckProgram(spawned) ==
    /\ CheckChild("ok", spawned)
    /\ spawned /\ busy' => IsInstalled(comm[current_command'].op.program)
    /\ Tell
    /\ UNCHANGED <<back_end, installed, job, dest, held, temp, done>>

----
(* The programs. *)

\* What is where a command writes a file.
Written(op, there) ==
    IF there # "nothing" /\ (op.keep \/ (op.update /\ there = "newer")) THEN there ELSE "mine"

Writing(op, files) ==
    LET place == IF op.top THEN "top" ELSE "folder"
    IN [f \in Files |-> IF f \in files THEN [dest[f] EXCEPT ![place] = Written(op, @)] ELSE dest[f]]

\* A program that ends well has done all it was to do; any other may have done a part.
Works(op, status, files) ==
    /\ files \subseteq op.files
    /\ status = 0 => files = op.files
    /\ CASE op.does = "remove" ->
              /\ status = 0 \/ (status = Killed /\ error.type = "STOPPED" /\ ~Info.sticky)
              /\ \/ temp' = temp \ {op.dir}
                 \/ status # 0 /\ UNCHANGED temp
              /\ UNCHANGED <<dest, held, done>>
         [] op.does = "extract" /\ op.to = "dest" ->
              dest' = Writing(op, files) /\ UNCHANGED <<held, temp, done>>
         [] op.does = "extract" /\ op.to = "move" ->
              held' = held \cup files /\ UNCHANGED <<dest, temp, done>>
         [] op.does = "move" ->
              /\ files \subseteq held
              /\ dest' = Writing(op, files)
              /\ UNCHANGED <<held, temp, done>>
         [] op.does = "prepare" -> UNCHANGED <<dest, held, temp, done>>
         [] OTHER -> done' = done \cup files /\ UNCHANGED <<dest, held, temp>>

ProgramEnds(status) ==
    /\ ChildExits(status)
    /\ \E files \in SUBSET Files : Works(Info.op, status, files)
    /\ UNCHANGED <<back_end, installed, job, told>>

BackEndInit ==
    /\ Init
    /\ back_end \in BackEnds
    /\ installed \in SUBSET (Programs(back_end) \ Shell)
    /\ job = NoJob /\ told = "nothing"
    /\ dest = SomeDestination /\ held = {} /\ temp = {} /\ done = {}

BackEndNext ==
    \/ job = NoJob /\ \E j \in Jobs, spawned \in BOOLEAN : Ask(j, spawned)
    \/ \E spawned \in BOOLEAN : CheckProgram(spawned)
    \/ StopJob
    \/ \E status \in ExitCodes : ProgramEnds(status)

BackEndSpec == BackEndInit /\ [][BackEndNext]_back_end_vars

----
(* Properties. *)

\* A file at the destination is replaced only by an extraction that may overwrite, and
\* one that is newer not when older files are to be skipped.  Two back ends unpack the
\* whole archive, what was left out with it; and what is moved from a directory is not
\* compared with what it replaces, unless the file was left out before.
ReplacesOnlyWhatWasAskedUnless ==
    job.action = "extract" =>
        \A f \in Files, place \in {"top", "folder"} :
            LET there == job.before[f][place]
            IN dest[f][place] # there /\ there # "nothing" =>
                \/ f \in Asked(job) /\ job.overwrite /\ ~(job.skip_older /\ there = "newer")
                \/ back_end \in {"dpkg", "unstuff"} /\ f \notin Filtered(job)
                \/ job.overwrite /\ MoveToDestDir(job) /\ (job.base_dir \/ Can("skip_older"))

\* handle_error of several back ends takes a status of 1 for a warning; errors that come
\* from no program, a stop among them, have a status of 0.
Forgiven ==
    back_end \in {"sevenz", "arj", "rar", "unstuff", "zip", "jar"}
        /\ error.type # "NONE" /\ error.status <= 1

\* The file is left out for what is in its folder, though it would go to the top.
LookedAtElsewhere(f) == job.base_dir /\ ~job.junk_paths /\ f \notin Filtered(job)

\* The file is to be there after the extraction.
ToBeThere(f) ==
    LET there == job.before[f][GoesTo(job)]
    IN there = "nothing" \/ (job.overwrite /\ ~(job.skip_older /\ there = "newer"))

\* An operation that is told to have succeeded has done all that was asked, unless its
\* error was forgiven, the list of the files was not written, deleting what was to be
\* replaced failed, or a file was looked for where it does not go.
SuccessMeansDoneUnless ==
    told = "NONE" /\ ~Forgiven /\ job.list # "unsaved" =>
        CASE job.action = "extract" ->
                \A f \in Asked(job) :
                    ToBeThere(f) => dest[f][GoesTo(job)] = "mine" \/ LookedAtElsewhere(f)
          [] job.action \in {"list", "test"} -> done = Members
          [] OTHER -> job.files \subseteq done

====

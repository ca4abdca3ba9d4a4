---- MODULE FrTar ----
(* Adding to and removing from a compressed tar (fr-command-tar.c, with the scripts that
   fr-archive.c builds around it), run by FrProcess.  tar cannot change a compressed archive, so
   the script moves the archive into a fresh directory next to it, decompresses it there, changes
   the tar, packs it again, moves it back and removes the directory.

   A file is told by what it holds: the archive as it was (old), without the members that are to
   be replaced or removed (part), as it should be (new), the added files alone (bare), or bytes
   no tar can read (torn). Left out: 7z as a compressor; names without a known extension; list
   files that cannot be written for an add; several commands for one list. tar escapes the names
   it prints and the other commands are silent, so the channels of FrProcess give no error here. *)
EXTENDS FrProcess

CONSTANTS
    Formats,  \* kinds of archive: gzip, compress (.tar.Z), or any other compressor
    Absent    \* what a file that does not exist holds

ASSUME TarAssumption ==
    /\ Formats \subseteq {"gzip", "compress", "other"}
    /\ Absent \notin {"old", "part", "new", "bare", "torn"}
    /\ {"mv_away", "decompress", "gzip", "delete", "add", "create", "compress", "mv_back",
        "rm_dir", "rm_list"} \subseteq Ops

VARIABLES
    archive, tmp, tar, packed,  \* comm->filename, tmp_name, uncomp_filename, new_name
    short_name,   \* the name ends in .tgz, .tbz2..: new_name is not tmp_name
    format,       \* how the archive is compressed
    archive_new,  \* of the window: created here, and nothing added yet
    wanted,       \* ghost: what the archive is to hold after the operation
    existed,      \* ghost: there was an archive before it
    unsaved,      \* ghost: a list of files to delete could not be written
    broken,       \* ghost: what failed in it although it had its input
    unpacked,     \* ghost: the archive was decompressed
    stopped       \* ghost: the operation was stopped

files == <<archive, tmp, tar, packed>>
kind == <<short_name, format>>
op_ghosts == <<wanted, existed, unsaved, broken, unpacked, stopped>>
tar_vars == <<vars, files, kind, archive_new, op_ghosts>>

TarInit ==
    /\ Init
    /\ archive \in {Absent, "old"} /\ tmp = Absent /\ tar = Absent /\ packed = Absent
    /\ short_name \in BOOLEAN /\ format \in Formats
    /\ archive_new = (archive = Absent)
    /\ wanted = archive /\ existed = FALSE /\ unsaved = FALSE
    /\ broken = {} /\ unpacked = FALSE /\ stopped = FALSE

----
(* The scripts. *)

\* A compressed archive that does not exist yet is written by tar itself.
CreatingArchive == archive = Absent

\* fr_command_tar_uncompress; gzip is given no -d for a .tar.Z.
Uncompress(script) ==
    IF CreatingArchive THEN script
    ELSE LET moved      == BeginCommand(script, "mv_away")
             decompress == BeginCommand(moved, IF format = "compress" THEN "gzip" ELSE "decompress")
         IN IF format = "other" THEN decompress ELSE SetContinueFunc(decompress)

\* Mutant: only packing is sticky.
Recompress_NotSticky(script) ==
    IF CreatingArchive THEN script
    ELSE LET compress == SetSticky(BeginCommand(script, "compress"))
             packing  == IF format = "gzip" THEN SetContinueFunc(compress) ELSE compress
         IN BeginCommand(BeginCommand(packing, "mv_back"), "rm_dir")

\* fr_command_tar_recompress
Recompress(script) ==
    IF CreatingArchive THEN script
    ELSE LET compress == SetSticky(BeginCommand(script, "compress"))
             packing  == IF format = "gzip" THEN SetContinueFunc(compress) ELSE compress
         IN SetSticky(BeginCommand(SetSticky(BeginCommand(packing, "mv_back")), "rm_dir"))

\* fr_command_tar_add
AddCommand(script) == BeginCommand(script, IF CreatingArchive THEN "create" ELSE "add")

\* fr_command_tar_delete
DeleteCommand(script) == BeginCommand(script, "delete")

\* The members of a long list are given in a file, in a directory to remove after.
ThenRemoveList(script, list) ==
    IF list = "file" THEN SetSticky(BeginCommand(script, "rm_list")) ELSE script

\* delete_from_archive: when the file cannot be written nothing is deleted, and
\* nothing says so.
Delete(script, list) ==
    IF list = "unsaved" THEN script
    ELSE ThenRemoveList(DeleteCommand(script), list)

\* The errors of deleting are to be ignored: the flag goes to the last command,
\* whichever that is.
DeleteFirst(script, list) ==
    IF list = "none" THEN script ELSE SetIgnoreError(Delete(script, list))

\* fr_archive_add
AddScript(deleted, list) ==
    Recompress(ThenRemoveList(AddCommand(DeleteFirst(Uncompress(<<>>), deleted)), list))

\* fr_archive_remove
RemoveScript(list) == Recompress(Delete(Uncompress(<<>>), list))

----
(* The owner: what is asked next starts from the archive as it now is. *)

BeginOperation(content, list) ==
    /\ archive' = IF CreatingArchive THEN Absent ELSE "old"
    /\ tmp' = Absent /\ tar' = Absent /\ packed' = Absent
    /\ wanted' = content /\ existed' = ~CreatingArchive
    /\ unsaved' = (list = "unsaved")
    /\ broken' = {} /\ unpacked' = FALSE /\ stopped' = FALSE
    /\ UNCHANGED <<kind, archive_new>>

\* Members that are in the archive already are deleted first.
Add(deleted, list, spawned) ==
    /\ archive # "torn"
    /\ CreatingArchive => deleted = "none"
    /\ Request(AddScript(deleted, list), spawned)
    /\ BeginOperation("new", deleted)

\* Not in an archive that is still to be created.
ArchiveRemove(list, spawned) ==
    /\ archive # "torn" /\ ~CreatingArchive /\ ~archive_new
    /\ Request(RemoveScript(list), spawned)
    /\ BeginOperation("part", list)

\* fr_window_stop: only what was asked for a new archive is stoppable.
StopOperation ==
    /\ archive_new
    /\ Stop
    /\ stopped' = TRUE
    /\ UNCHANGED <<files, kind, archive_new, wanted, existed, unsaved, broken, unpacked>>

----
(* The commands. *)

Packed == IF short_name THEN packed ELSE tmp

\* What the command reads is there.
HasInput(op) ==
    CASE op = "mv_away"              -> archive # Absent
      [] op \in {"decompress", "gzip"} -> tmp # Absent
      [] op \in {"delete", "compress"} -> tar # Absent
      [] op = "mv_back"              -> Packed # Absent
      [] OTHER                       -> TRUE

\* tar -r on a file that does not exist creates it.
Added(content) ==
    CASE content = Absent -> "bare" [] content = "torn" -> "torn" [] OTHER -> "new"

\* The command is carried out.
Performs(op) ==
    CASE op = "mv_away"    -> tmp' = archive /\ archive' = Absent /\ UNCHANGED <<tar, packed>>
      [] op = "decompress" -> tar' = tmp /\ tmp' = Absent /\ UNCHANGED <<archive, packed>>
      [] op = "delete"     -> tar' = (IF tar = "torn" THEN "torn" ELSE "part")
                              /\ UNCHANGED <<archive, tmp, packed>>
      [] op = "add"        -> tar' = Added(tar) /\ UNCHANGED <<archive, tmp, packed>>
      [] op = "create"     -> archive' = "new" /\ UNCHANGED <<tmp, tar, packed>>
      [] op = "compress"   -> /\ tar' = Absent
                              /\ IF short_name THEN packed' = tar /\ UNCHANGED tmp
                                               ELSE tmp' = tar /\ UNCHANGED packed
                              /\ UNCHANGED archive
      [] op = "mv_back"    -> /\ archive' = Packed
                              /\ IF short_name THEN packed' = Absent /\ UNCHANGED tmp
                                               ELSE tmp' = Absent /\ UNCHANGED packed
                              /\ UNCHANGED tar
      [] op = "rm_dir"     -> /\ tmp' = Absent /\ tar' = Absent /\ packed' = Absent
                              /\ UNCHANGED archive
      [] OTHER             -> UNCHANGED files

\* tar leaves off in the middle.
Tears(op) ==
    CASE op \in {"delete", "add"} -> tar' = "torn" /\ UNCHANGED <<archive, tmp, packed>>
      [] op = "create"            -> archive' = "torn" /\ UNCHANGED <<tmp, tar, packed>>
      [] OTHER                    -> FALSE

\* The current command ends: a status of 0 means that it was carried out, and so does
\* the warning of gzip; tar has often done its work when it complains; a rename has
\* been done or not when mv is killed; compressors remove their output when they fail;
\* and gzip leaves a .Z as it is, which is another warning.
CommandEnds(status) ==
    LET op     == Info.op
        warned == status = 2 /\ format = "gzip" /\ op \in {"compress", "decompress"}
    IN
    /\ ChildExits(status)
    /\ \/ /\ HasInput(op) /\ op # "gzip"
          /\ \/ status = 0 \/ warned
             \/ status # 0 /\ op \in {"delete", "add", "create"}
             \/ status = Killed /\ op \in {"mv_away", "mv_back"}
          /\ Performs(op)
       \/ /\ status # 0
          /\ ~(warned /\ HasInput(op))
          /\ UNCHANGED files
       \/ status = Killed /\ HasInput(op) /\ Tears(op)
    /\ broken' = IF status # 0 /\ HasInput(op) THEN broken \cup {op} ELSE broken
    /\ unpacked' = (unpacked \/ (op = "decompress" /\ tmp' # tmp))
    /\ UNCHANGED <<kind, archive_new, wanted, existed, unsaved, stopped>>

\* The main loop; when an add is done without an error the archive is not new any
\* more (action_performed of the window).
CheckCommand(spawned) ==
    /\ CheckChild("ok", spawned)
    /\ archive_new' = (archive_new /\ ~(~busy' /\ error'.type = "NONE"))
    /\ UNCHANGED <<files, kind, op_ghosts>>

TarNext ==
    \/ \E spawned \in BOOLEAN :
        \/ \E deleted \in {"none", "args", "file", "unsaved"}, list \in {"args", "file"} :
               Add(deleted, list, spawned)
        \/ \E list \in {"args", "file", "unsaved"} : ArchiveRemove(list, spawned)
        \/ CheckCommand(spawned)
    \/ StopOperation
    \/ \E status \in ExitCodes : CommandEnds(status)

TarSpec == TarInit /\ [][TarNext]_tar_vars

----
(* Properties. *)

\* An archive that was there is at its name again when the operation is over:
\* "Restore original name." (fr-command-tar.c:705), by a command that is sticky.
Restored == ~busy /\ existed => archive # Absent

PackingFails == broken \cap {"compress", "mv_back"} # {}

\* The archive was moved but is still packed, under a name that is not the one to
\* move back: no command failed for the want of this.
NeverUnpacked == short_name /\ ~unpacked

\* Of what hinders it, a command that cannot be started and a continue function at least
\* leave the archive in the temporary directory; otherwise that directory is removed
\* with it.  And when the list of files to delete was not written, a failure to
\* decompress is ignored instead: an archive of the added files alone takes its place.
\* So it does, always, for a .tar.Z (see SuccessMeansDone).
Kept ==
    \/ existed => \E file \in {archive, tmp, tar, packed} : file \notin {Absent, "bare"}
    \/ PackingFails \/ NeverUnpacked
    \/ unsaved /\ "decompress" \in broken
    \/ format = "compress"

\* The archive is at its name, whatever fails or is stopped, unless: a command could
\* not be started; a continue function ended the operation; packing or moving back
\* fails; or it was not decompressed and has a short extension.  In the first two cases
\* it is somewhere else.
RestoresNameUnless ==
    /\ Restored \/ spawn_failed \/ cut_short \/ PackingFails \/ NeverUnpacked
    /\ Kept

\* An operation that is reported to have succeeded has done what was asked, unless a
\* list of files to delete could not be written or deleting failed: neither is
\* reported.  A .tar.Z is excepted: "Decompressing archive" (fr-command-tar.c:736) is
\* gzip -f for it, without -d, a refusal with status 2 that the continue function
\* takes for success.
SuccessMeansDone ==
    /\ ~busy /\ ~running /\ error.type = "NONE"
    /\ ~unsaved /\ "delete" \notin broken /\ format # "compress"
    => archive = wanted
====

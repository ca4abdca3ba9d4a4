---- MODULE FrListing ----
(* How File Roller learns what an archive holds: it runs a program that prints a listing, and the
   line function of the back end (fr-command-*.c) makes entries of its lines, one at a time, as
   the checks of the process read them.  A name that is not in the character set tried starts the
   program again, with another set: the line function goes on with the state it has, but for what
   the begin function of the back end resets, and the entries stay.  A program that is stopped or
   fails ends its output anywhere, in the middle of a line too, and the rest of it is read as a
   line.  The entries are then sorted by one path and looked for by another (file-data.c).

   A line is what it is for, with the member it is about; what the programs print is taken from
   what the line functions wait for.  Left out: encryption, devices; folders other than the top
   one; archives known to be in several volumes from their names. *)
EXTENDS FrDates, FiniteSets, SequencesExt

CONSTANTS
    BackEnds,     \* the back ends looked at
    Archives,     \* what the archives hold, sequences of members
    Order,        \* every path there may be, in the order of strcmp
    MaxRestarts,  \* the character sets there are to try (n_charsets)
    MaxText,      \* lines of text before and after a table: a bound
    FileTimes,    \* when files outside of the archive were last changed
    Null          \* no member, entry or path

\* A member: its name, what is left of it without the spaces before it and before an
\* " -> "; whether it starts with a slash, and is in another character set; its date.
Member ==
    [name : STRING, stripped : STRING, before_arrow : STRING, kind : {"file", "dir", "link", "split"},
     absolute : BOOLEAN, foreign : BOOLEAN, date : Moment]

\* An entry (FileData): the member that it is of, its two paths, what else is known of it and
\* of which member the name is.
FileData ==
    [of : Member \cup {Null}, original : Range(Order) \cup {Null}, full : Range(Order) \cup {Null},
     dir : BOOLEAN, size : Member \cup {Null}, modified : Int \cup {Null},
     name : Member \cup {Null}]

ASSUME ListingAssumption ==
    /\ BackEnds \subseteq {"sevenz", "ace", "alz", "ar", "arj", "cpio", "dpkg", "gzip", "iso", "lha",
                          "lrzip", "rar", "rpm", "tar", "unstuff", "zip", "zoo"}
    /\ Archives \subseteq Seq(Member) /\ Null \notin STRING \cup Member \cup FileData /\ Null # "/"
    /\ Order \in Seq(STRING) /\ IsInjective(Order)
    /\ MaxRestarts \in Nat /\ MaxText \in Nat
    /\ FileTimes \subseteq Moment

VARIABLES
    back_end,   \* of the archive that is opened
    members,    \* what the archive holds
    style,      \* of a program that has two: of an old and a new 7z, of a free and another unace
    text,       \* lines of text around the table
    lines,      \* what is printed and not yet read
    reader,     \* the state of the line function
    files,      \* the entries
    restarts,   \* the times the program was started again
    outcome,    \* "running", "loaded", "failed" or "crashed"
    cut         \* a line was read that is not whole

listing == <<back_end, members, style, text, lines, reader, files, restarts, outcome, cut>>

----
(* What the programs print. *)

Line(kind, m) == [kind |-> kind, of |-> m]
Texts(kind) == [i \in 1..text |-> Line(kind, Null)]
Each(ms, kinds) ==
    LET n == Len(kinds)
    IN [p \in 1..(Len(ms) * n) |-> Line(kinds[((p - 1) % n) + 1], ms[((p - 1) \div n) + 1])]

\* rar shows each volume in a table of its own; a member that goes over the end of
\* the first is shown in both.
RarTable(ms, info) == << Line("separator", Null) >> \o Each(ms, <<"name", info>>) \o << Line("separator", Null) >>
RarVolumes(ms) ==
    RarTable(ms, "info") \o
        (IF \E i \in DOMAIN ms : ms[i].kind = "split"
         THEN Texts("text") \o RarTable(<< CHOOSE m \in Range(ms) : m.kind = "split" >>, "rest")
         ELSE <<>>)

Table(ms, kinds) == << Line("separator", Null) >> \o Each(ms, kinds) \o << Line("separator", Null) >>

\* An old 7z has a record of the archive first, which has no path.
Records(ms) ==
    << Line(IF style = "old" THEN "archive" ELSE "separator", Null) >>
        \o (IF style = "old" THEN << Line("size", Null), Line("blank", Null) >> ELSE <<>>)
        \o Each(ms, <<"path", "folder", "size", "blank">>)

Printed(ms) ==
    CASE back_end = "sevenz"  -> << Line("version", Null) >> \o Texts("text") \o Records(ms)
      [] back_end = "ace"     -> << Line("version", Null), Line("titles", Null) >> \o Each(ms, <<"row">>)
      [] back_end = "alz"     -> Texts("text") \o Table(ms, <<"row">>) \o Texts("text")
      [] back_end = "arj"     -> Texts("text") \o Table(ms, <<"name", "info", "more">>) \o Texts("text")
      [] back_end = "dpkg"    -> << Line("about", Null), Line("control", Null) >> \o Each(ms, <<"row">>)
      [] back_end = "iso"     -> << Line("heading", Null) >> \o Each(ms, <<"row">>)
      [] back_end = "lrzip"   -> Texts("text") \o Each(ms, <<"row">>)
      [] back_end = "rar"     -> Texts("text") \o RarVolumes(ms) \o Texts("text")
      [] back_end = "unstuff" -> Each(ms, <<"row", "size">>)
      [] back_end = "zip"     -> Texts("text") \o (IF ms = <<>> THEN << Line("empty", Null) >> ELSE Each(ms, <<"row">>))
      [] back_end = "zoo"     -> Texts("text") \o Table(ms, <<"row">>) \o Texts("text")
      [] OTHER                -> Each(ms, <<"row">>)

----
(* Entries (FileData). *)

\* A name is what follows some fields and the spaces after them (get_last_field,
\* tar_get_last_field, ...), or all that is left of the line.
Stripping == {"alz", "ar", "arj", "cpio", "dpkg", "iso", "lha", "rpm", "tar", "zip", "zoo"}

\* " -> " and what follows is the target of a link, of whatever kind the line is.
Cutting == {"ar", "cpio", "dpkg", "rpm", "tar"}

\* The program shows a folder with a slash at its end.
SlashPrinted == {"dpkg", "lha", "tar", "zip"}

\* What is read of a name, of a program in one of its styles.
Kept(b, st, m) ==
    IF b \in Cutting THEN m.before_arrow
    ELSE IF b \in Stripping \/ (b = "ace" /\ st = "new") THEN m.stripped
    ELSE m.name

NameBy(b, st, m) ==
    IF m.kind = "dir" /\ b \in SlashPrinted THEN Kept(b, st, m) \o "/" ELSE Kept(b, st, m)

Name(m) == NameBy(back_end, style, m)

\* The path of a member as it was printed, and the one that starts with a slash.
Entry(m) ==
    [of |-> m, original |-> Name(m), full |-> IF m.absolute THEN Name(m) ELSE "/" \o Name(m),
     dir |-> FALSE, size |-> Null, modified |-> Null, name |-> m]

\* The size and the date are of one line, or of lines of one record.
Sized(e, m) ==
    [e EXCEPT !.size = m, !.modified = IF m = Null THEN Null ELSE Modified(back_end, Shown(back_end, m.date))]

\* A folder whose name has no slash gets one, in one of its two paths.
Slashed(e) ==
    IF e.of.kind = "dir" /\ back_end \notin SlashPrinted THEN [e EXCEPT !.full = @ \o "/"] ELSE e

\* Both paths start with a slash.
Rooted(e) == [e EXCEPT !.original = e.full]

IsDir(e) == [e EXCEPT !.dir = (e.of.kind = "dir")]

\* What one line makes that has all there is to know.
Row(m) == Sized(Entry(m), m)

\* process_metadata_line: the name is freed before it is copied, and is no name.
ControlEntry ==
    [of |-> Null, original |-> "DEBIAN/control", full |-> "/" \o "DEBIAN/control",
     dir |-> FALSE, size |-> Null, modified |-> Null, name |-> Null]

----
(* The line functions: of a state, with the state of the reader, the entries and whether NULL was
   followed, and a line. *)

Reader ==
    [started |-> FALSE, style |-> "unknown", pending |-> Null, odd |-> FALSE,
     line_no |-> 0, folder |-> Null, empty |-> FALSE]

Add(s, e) == [s EXCEPT !.files = Append(@, e)]
Crash(s) == [s EXCEPT !.crashed = TRUE]
Start(s, b) == [s EXCEPT !.r.started = b]
Pend(s, e) == [s EXCEPT !.r.pending = e]

\* The attributes of a record, the first line of which makes it; it has a path or none.
NoPath ==
    [of |-> Null, original |-> Null, full |-> Null, dir |-> FALSE, size |-> Null, modified |-> Null, name |-> Null]
Record(s, line) ==
    LET e == IF s.r.pending = Null THEN NoPath ELSE s.r.pending
    IN CASE line.kind = "path"   -> [Entry(line.of) EXCEPT !.dir = e.dir, !.size = e.size, !.modified = e.modified]
         [] line.kind = "folder" -> [e EXCEPT !.dir = (line.of.kind = "dir")]
         [] line.kind = "size"   -> Sized(e, line.of)
         [] OTHER -> e

Read7z(s, line) ==
    CASE ~s.r.started /\ line.kind = "version" -> [s EXCEPT !.r.style = style]
      [] ~s.r.started /\ line.kind # "version" ->
            Start(s, line.kind = (IF s.r.style = "old" THEN "archive" ELSE "separator"))
      [] s.r.started /\ line.kind = "blank" ->
            IF s.r.pending = Null \/ s.r.pending.original = Null THEN Pend(s, Null)
            ELSE Pend(Add(s, s.r.pending), Null)
      [] s.r.started /\ line.kind # "blank" -> Pend(s, Record(s, line))

ReadAce(s, line) ==
    CASE s.r.style = "unknown" -> IF line.kind = "version" THEN [s EXCEPT !.r.style = style] ELSE s
      [] s.r.style # "unknown" /\ ~s.r.started -> Start(s, line.kind = "titles")
      [] s.r.style # "unknown" /\ s.r.started  -> Add(s, Row(line.of))

ReadAlz(s, line) ==
    CASE line.kind = "separator" -> Start(s, ~s.r.started)
      [] line.kind # "separator" /\ ~s.r.started -> s
      [] line.kind # "separator" /\ s.r.started  -> Add(s, IsDir(Row(line.of)))

ReadAr(s, line) == Add(s, Row(line.of))

\* Mutant: the lines after the second are not counted.
ReadArj_CountsNot(s, line) ==
    CASE line.kind = "separator" ->
            IF s.r.started THEN Start(s, FALSE) ELSE [Start(s, TRUE) EXCEPT !.r.line_no = 1]
      [] line.kind # "separator" /\ ~s.r.started -> s
      [] s.r.started /\ line.kind = "name" -> [Pend(s, Entry(line.of)) EXCEPT !.r.line_no = 2]
      [] s.r.started /\ line.kind \in {"info", "more", "text"} /\ s.r.line_no = 2 ->
            IF s.r.pending = Null THEN Crash(s) ELSE Pend(Add(s, Sized(s.r.pending, line.of)), Null)
      [] s.r.started /\ line.kind \in {"info", "more", "text"} /\ s.r.line_no # 2 -> s

\* The second line of a member has what the first had not.
ReadArj(s, line) ==
    CASE line.kind = "separator" ->
            IF s.r.started THEN Start(s, FALSE) ELSE [Start(s, TRUE) EXCEPT !.r.line_no = 1]
      [] line.kind # "separator" /\ ~s.r.started -> s
      [] s.r.started /\ line.kind = "name" -> [Pend(s, Entry(line.of)) EXCEPT !.r.line_no = 2]
      [] s.r.started /\ line.kind \in {"info", "more", "text"} /\ s.r.line_no = 2 ->
            IF s.r.pending = Null THEN Crash(s)
            ELSE [Pend(Add(s, Sized(s.r.pending, line.of)), Null) EXCEPT !.r.line_no = 3]
      [] s.r.started /\ line.kind \in {"info", "more", "text"} /\ s.r.line_no # 2 ->
            [s EXCEPT !.r.line_no = @ + 1]

ReadGzip(s, line) == Add(s, Row(line.of))

ReadCpio(s, line) == Add(s, IsDir(Slashed(Row(line.of))))

ReadDpkg(s, line) ==
    CASE line.kind = "about"   -> s
      [] line.kind = "control" -> Add(s, ControlEntry)
      [] line.kind = "row"     -> Add(s, IsDir(Slashed(Row(line.of))))

\* Rows are of the folder named before them; folders are left out.
ReadIso(s, line) ==
    CASE line.kind = "heading" -> [s EXCEPT !.r.folder = "/"]
      [] line.kind = "row" /\ line.of.kind = "dir" -> s
      [] line.kind = "row" /\ line.of.kind # "dir" ->
            IF s.r.folder = Null THEN Crash(s) ELSE Add(s, Rooted(Row(line.of)))

ReadLha(s, line) == Add(s, IsDir(Row(line.of)))

\* One line gives the size; the name is that of the archive.
ReadLrzip(s, line) == IF line.kind = "row" THEN Add(s, Row(line.of)) ELSE s

\* Names and infos in turn; the rest of a member that began in another volume is
\* dropped.
ReadRar(s, line) ==
    CASE line.kind = "separator" ->
            IF s.r.started THEN Start(s, FALSE) ELSE [Start(s, TRUE) EXCEPT !.r.odd = TRUE]
      [] line.kind # "separator" /\ ~s.r.started -> s
      [] line.kind # "separator" /\ s.r.started /\ s.r.odd ->
            [Pend(s, Entry(line.of)) EXCEPT !.r.odd = FALSE]
      [] line.kind # "separator" /\ s.r.started /\ ~s.r.odd ->
            LET e == IsDir(Slashed(Sized(s.r.pending, line.of)))
            IN [Pend(IF line.kind = "rest" THEN s ELSE Add(s, e), Null) EXCEPT !.r.odd = TRUE]

ReadRpm(s, line) == Add(s, IsDir(Slashed(Row(line.of))))

ReadTar(s, line) == Add(s, IsDir(Row(line.of)))

\* Mutant: a size is given to the file that was made known first.
ReadUnstuff_SizesFirst(s, line) ==
    IF line.kind = "size"
    THEN IF s.r.pending = Null THEN s
         ELSE [s EXCEPT !.files[1] = Sized(@, line.of)]
    ELSE Pend(Add(s, [Rooted(Entry(line.of)) EXCEPT !.modified = Clock(Now)]), Entry(line.of))

\* A file is made known, and its size when it has been unpacked.
ReadUnstuff(s, line) ==
    IF line.kind = "size"
    THEN IF s.r.pending = Null THEN s
         ELSE [s EXCEPT !.files[Len(s.files)] = Sized(@, line.of)]
    ELSE Pend(Add(s, [Rooted(Entry(line.of)) EXCEPT !.modified = Clock(Now)]), Entry(line.of))

ReadZip(s, line) ==
    CASE s.r.empty -> s
      [] ~s.r.empty /\ line.kind = "empty" -> [s EXCEPT !.r.empty = TRUE]
      [] ~s.r.empty /\ line.kind = "row" /\ line.of.kind # "link" -> Add(s, IsDir(Row(line.of)))
      [] OTHER -> s

ReadZoo(s, line) == IF line.kind = "row" THEN Add(s, Row(line.of)) ELSE s

ReadLine(s, line) ==
    CASE back_end = "sevenz"  -> Read7z(s, line)
      [] back_end = "ace"     -> ReadAce(s, line)
      [] back_end = "alz"     -> ReadAlz(s, line)
      [] back_end = "ar"      -> ReadAr(s, line)
      [] back_end = "arj"     -> ReadArj(s, line)
      [] back_end = "cpio"    -> ReadCpio(s, line)
      [] back_end = "dpkg"    -> ReadDpkg(s, line)
      [] back_end = "gzip"    -> ReadGzip(s, line)
      [] back_end = "iso"     -> ReadIso(s, line)
      [] back_end = "lha"     -> ReadLha(s, line)
      [] back_end = "lrzip"   -> ReadLrzip(s, line)
      [] back_end = "rar"     -> ReadRar(s, line)
      [] back_end = "rpm"     -> ReadRpm(s, line)
      [] back_end = "tar"     -> ReadTar(s, line)
      [] back_end = "unstuff" -> ReadUnstuff(s, line)
      [] back_end = "zip"     -> ReadZip(s, line)
      [] back_end = "zoo"     -> ReadZoo(s, line)

\* list__begin of each back end; some have none.
Begin(r) ==
    CASE back_end \in {"alz", "rar"} -> [r EXCEPT !.started = FALSE]
      [] back_end = "ace"     -> [r EXCEPT !.started = FALSE, !.style = "unknown"]
      [] back_end = "sevenz"  -> [r EXCEPT !.started = FALSE, !.pending = Null]
      [] back_end = "iso"     -> [r EXCEPT !.folder = Null]
      [] back_end = "unstuff" -> [r EXCEPT !.pending = Null]
      [] back_end = "zip"     -> [r EXCEPT !.empty = FALSE]
      [] OTHER -> r

\* The lines that are split into fields without a look at how many there are, or at what
\* was found in them.
FieldsNotCounted ==
    ([b \in {"alz", "ar", "ace", "cpio", "dpkg", "gzip", "iso", "lha", "rpm", "zip", "zoo"} |-> {"row"}]
        @@ [b \in {"arj"} |-> {"info"}] @@ [b \in {"sevenz"} |-> {"version", "size"}])

----
(* The process. *)

State == [r |-> reader, files |-> files, crashed |-> FALSE]

\* The line is read; a program that follows NULL is gone.
Takes(s) ==
    /\ reader' = s.r /\ files' = s.files
    /\ UNCHANGED <<back_end, members, style, text, restarts>>

ReadNext ==
    /\ outcome = "running" /\ lines # <<>>
    /\ LET s == ReadLine(State, Head(lines))
       IN /\ Takes(s)
          /\ outcome' = IF s.crashed THEN "crashed" ELSE "running"
    /\ lines' = Tail(lines)
    /\ UNCHANGED cut

InAnotherCharset(line) == line.kind \in {"row", "name", "path"} /\ line.of.foreign

\* check_child, when a line cannot be converted.
TryAnotherCharset ==
    /\ outcome = "running" /\ lines # <<>> /\ InAnotherCharset(Head(lines))
    /\ restarts < MaxRestarts
    /\ restarts' = restarts + 1
    /\ lines' = Printed(members) /\ reader' = Begin(reader)
    /\ UNCHANGED <<back_end, members, style, text, files, outcome, cut>>

\* The program was stopped, or failed: what is left of its output ends with the start of
\* a line.  A whole start may be read as a line of its own.
EndsWithin ==
    /\ outcome = "running" /\ lines # <<>>
    /\ cut' = TRUE /\ lines' = <<>>
    /\ LET line == Head(lines)
           s == ReadLine(State, line)
       IN \/ Takes(s) /\ outcome' = (IF s.crashed THEN "crashed" ELSE "failed")
          \/ /\ s # State
             /\ back_end \in DOMAIN FieldsNotCounted /\ line.kind \in FieldsNotCounted[back_end]
             /\ Takes(State) /\ outcome' = "crashed"

\* It fails at the end of a line; or no character set is left.
Fails ==
    /\ outcome = "running"
    /\ outcome' = "failed"
    /\ UNCHANGED <<back_end, members, style, text, lines, reader, files, restarts, cut>>

Rank(path) == CHOOSE i \in DOMAIN Order : Order[i] = path

\* Mutant: the entries are left as they were printed.
Sorted_Not(entries) == entries

\* file_data_compare_by_path; what it finds equal stays in its order.
Sorted(entries) ==
    LET rank(i) == Rank(entries[i].full)
        Before(i) == { j \in DOMAIN entries : rank(j) < rank(i) \/ (rank(j) = rank(i) /\ j < i) }
    IN [k \in DOMAIN entries |-> entries[CHOOSE i \in DOMAIN entries : Cardinality(Before(i)) = k - 1]]

\* The program has ended well (fr_command_done).
Loads ==
    /\ outcome = "running" /\ lines = <<>>
    /\ outcome' = "loaded"
    /\ files' = Sorted(files)
    /\ UNCHANGED <<back_end, members, style, text, lines, reader, restarts, cut>>

\* find_path_in_file_data_array: the path is looked for between l and r, by halves.
Halved(s, path) ==
    LET p == s.l + ((s.r - s.l) \div 2)
        there == files[p + 1].original
    IN IF s.l >= s.r \/ there = path THEN s
       ELSE IF Rank(path) < Rank(there) THEN [s EXCEPT !.r = p] ELSE [s EXCEPT !.l = p + 1]

Found(path) ==
    LET at[n \in 0..Len(files)] ==
          IF n = 0 THEN [l |-> 0, r |-> Len(files)] ELSE Halved(at[n - 1], path)
    IN at[Len(files)].l < at[Len(files)].r

----
\* What an archive may hold that a back end opens.
MayHold(b) ==
    {"file"}
        \cup (IF b \in {"alz", "cpio", "dpkg", "iso", "lha", "rar", "rpm", "sevenz", "tar", "zip"} THEN {"dir"} ELSE {})
        \cup (IF b \in Cutting \cup {"zip"} THEN {"link"} ELSE {})
        \cup (IF b = "rar" THEN {"split"} ELSE {})

Holds(b, a) ==
    /\ \A i \in DOMAIN a : a[i].kind \in MayHold(b)
    /\ \A i, k \in DOMAIN a : a[i].kind = "split" /\ a[k].kind = "split" => i = k
    /\ b \in {"gzip", "lrzip"} => Len(a) = 1 /\ a[1].name = a[1].before_arrow /\ ~a[1].absolute

Styles(b) == IF b \in {"ace", "sevenz"} THEN {"old", "new"} ELSE {"new"}

\* The paths that an entry of a member may have.
PathsBy(b, st, m) ==
    LET original == NameBy(b, st, m)
        full == IF m.absolute THEN original ELSE "/" \o original
    IN {original, full} \cup (IF m.kind = "dir" /\ b \notin SlashPrinted THEN {full \o "/"} ELSE {})

\* That order has all of them, and it is left by a slash before both.
ASSUME OrderAssumption ==
    /\ \A a \in Archives : \A b \in {x \in BackEnds : Holds(x, a)} : \A st \in Styles(b) :
          \A i \in DOMAIN a : PathsBy(b, st, a[i]) \subseteq Range(Order)
    /\ {"DEBIAN/control", "/" \o "DEBIAN/control"} \subseteq Range(Order)
    /\ \A p, q \in {x \in Range(Order) : "/" \o x \in Range(Order)} :
          Rank(p) < Rank(q) <=> Rank("/" \o p) < Rank("/" \o q)

ListingInit ==
    /\ back_end \in BackEnds
    /\ members \in {a \in Archives : Holds(back_end, a)}
    /\ style \in Styles(back_end)
    /\ text \in 0..MaxText
    /\ lines = Printed(members)
    /\ reader = Begin(Reader) /\ files = <<>>
    /\ restarts = 0 /\ outcome = "running" /\ cut = FALSE

ListingNext == ReadNext \/ TryAnotherCharset \/ EndsWithin \/ Fails \/ Loads

ListingSpec == ListingInit /\ [][ListingNext]_listing

----
(* Properties. *)

\* The entry is of the member: by its name, its own size, and what it is.
IsOf(e, m) ==
    /\ e.of = m /\ e.name = m /\ e.size = m
    /\ e.original \in {m.name, m.name \o "/", "/" \o m.name}
    /\ e.dir = (m.kind = "dir")

\* A name is not read whole when it begins with a space, or looks like a link.
NameLost(m) == Kept(back_end, style, m) # m.name

\* What is loaded shows every member of the archive.  Unless its name is lost, it is a
\* link in a zip archive or a folder of an image, or the listing of arj was started
\* again: its line function goes on as if the table had begun.
NothingMissingUnless ==
    outcome = "loaded" =>
        \A i \in DOMAIN members :
            LET m == members[i]
            IN \/ \E k \in DOMAIN files : IsOf(files[k], m)
               \/ NameLost(m)
               \/ back_end = "zip" /\ m.kind = "link"
               \/ back_end = "iso" /\ m.kind = "dir"
               \/ back_end = "arj" /\ restarts > 0

\* No line that is whole makes a line function follow NULL; that of arj does, when the
\* program was started again.  What is left of a line, when the program is stopped or
\* fails, does in most back ends.
CrashesOnlyOnCutLinesUnlessArj ==
    outcome = "crashed" => cut \/ (back_end = "arj" /\ restarts > 0)

\* "order the list by name to speed up search" (fr-command.c:234): every entry is found
\* by its path, which is how it is chosen to be extracted, replaced or updated.  Unless
\* some names begin with a slash and some do not, or a folder has a slash at its end
\* in the one path and not in the other, which is not the same order.
FoundAgainUnlessMixed ==
    outcome = "loaded" =>
        \/ \A k \in DOMAIN files : Found(files[k].original)
        \/ \E k, n \in DOMAIN files : files[k].original = files[k].full /\ files[n].original # files[n].full
        \/ \E k \in DOMAIN files : files[k].full \notin {files[k].original, "/" \o files[k].original}

\* What a back end makes of a date that was shown to it is not that date: rar and alz know
\* no year before 2000, arj and zoo none before 1975, ace not that one either; alz knows no
\* summer time; dpkg is a month late; where the time is shown instead of the year, the year is
\* taken for this one.
Misdated(b, d) ==
    \/ b \in {"alz", "rar"} /\ d.year < 2000
    \/ b \in {"arj", "zoo"} /\ d.year < 1975
    \/ b = "ace" /\ d.year <= 1975
    \/ b = "alz" /\ d.month \in Summer
    \/ b = "dpkg"
    \/ b \in LsStyle /\ Recent(d) /\ d.year # Now.year

\* A file that is newer than a member is not replaced when older members are to be
\* skipped, and takes its place when the archive is updated; one that is older than
\* what was shown of its date is replaced, and does not.  Unless the date is not that of
\* the member: there is none, or it is read wrongly.
DatedUnless ==
    outcome = "loaded" /\ back_end \notin Dateless =>
        \A k \in {n \in DOMAIN files : files[n].of # Null} : \A t \in FileTimes :
            LET e == files[k]
                d == e.of.date
            IN ~Misdated(back_end, d) =>
                /\ Clock(t) > Clock(d) =>
                     SkippedAsOlder(e.modified, t) /\ ~LeftOutOfUpdate(e.modified, t)
                /\ Clock(t) < Clock(Shown(back_end, d)) =>
                     ~SkippedAsOlder(e.modified, t) /\ LeftOutOfUpdate(e.modified, t)
====

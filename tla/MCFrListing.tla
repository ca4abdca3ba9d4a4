---- MODULE MCFrListing ----
(* Small instances of FrListing for TLC. *)
EXTENDS FrListing

\* March: half a year goes back to the year before.
MCNow == [year |-> 2012, month |-> 2, hour |-> 12, sec |-> 0]
MCSummer == 3..9

MCDates == [year : {1970, 1975, 1976, 1999, 2011, 2012}, month : {0, 6, 10}, hour : {12}, sec : {1}]
MCFileTimes == [year : {1970, 1975, 1999, 2011, 2012}, month : {0, 6, 10}, hour : {0, 12}, sec : {0, 2}]

File(name) ==
    [name |-> name, stripped |-> name, before_arrow |-> name, kind |-> "file",
     absolute |-> FALSE, foreign |-> FALSE, date |-> MCNow]

Members ==
    { File("a"), File("d-x"),
      [File("d") EXCEPT !.kind = "dir"],
      [File("l") EXCEPT !.kind = "link"],
      [File("p") EXCEPT !.kind = "split"],
      [File("/z") EXCEPT !.absolute = TRUE],
      [File("/y") EXCEPT !.absolute = TRUE, !.kind = "dir"],
      [File("f") EXCEPT !.foreign = TRUE],
      [File(" s") EXCEPT !.stripped = "s", !.before_arrow = "s"],
      [File("a -> b") EXCEPT !.before_arrow = "a"] }

MCArchives ==
    {a \in SeqOf(Members, 3) : IsInjective(a)} \cup {<< [File("a") EXCEPT !.date = d] >> : d \in MCDates}

MCOrder ==
    << " s", "/ s", "/DEBIAN/control", "/a", "/a -> b", "/d", "/d-x", "/d/", "/f", "/l",
       "/p", "/s", "/y", "/y/", "/z", "DEBIAN/control", "a", "a -> b", "d", "d-x", "d/", "f", "l", "p", "s" >>
====

---- MODULE FrDates ----
(* The dates of the members of an archive.  The programs print a date in local time, each in its
   way, and each back end makes a number of seconds of it with mktime; by that number File Roller
   tells which members are older than the files at the destination, and which files are newer
   than the members they would be added over.

   The clock is coarse: a month is a day, a day is 24 hours, an hour is 60 seconds. *)
EXTENDS Integers

CONSTANTS
    Now,     \* the moment at which the archive is opened
    Summer   \* the months in which the clock is an hour ahead

\* A moment, as the clock shows it: months are counted from 0.
Moment == [year : 1970..2069, month : 0..11, hour : 0..23, sec : 0..59]
ASSUME DatesAssumption == Now \in Moment /\ Summer \subseteq 0..11

Clock(d) == ((d.year * 12 + d.month) * 24 + d.hour) * 60 + d.sec

----
(* What is printed. *)

\* As ls does it: the time of what is not older than half a year, the year of the rest.
LsStyle == {"cpio", "lha", "rpm"}
Recent(d) == Clock(d) <= Clock(Now) /\ Clock(Now) - Clock(d) < 6 * 24 * 60

WithSeconds == {"arj", "sevenz", "zip", "zoo"}
DayOnly == {"iso"}

Shown(b, d) ==
    IF b \in DayOnly \/ (b \in LsStyle /\ ~Recent(d)) THEN [d EXCEPT !.hour = 0, !.sec = 0]
    ELSE IF b \in WithSeconds THEN d ELSE [d EXCEPT !.sec = 0]

TwoDigits(d) == d.year % 100

----
(* What is made of it: mktime_from_string of each back end.  A struct tm has the years since
   1900; that it is summer time is not known, or it is said that it is not. *)

Tm(year, d) == [year |-> year, mon |-> d.month, hour |-> d.hour, sec |-> d.sec, dst |-> "unknown"]

mktime(tm) ==
    Clock([year |-> 1900 + tm.year, month |-> tm.mon, hour |-> tm.hour, sec |-> tm.sec])
        + (IF tm.dst = "no" /\ tm.mon % 12 \in Summer THEN 60 ELSE 0)

Modified7z(d)  == mktime(Tm(d.year - 1900, d))
ModifiedTar(d) == mktime(Tm(d.year - 1900, d))
ModifiedAr(d)  == mktime(Tm(d.year - 1900, d))
ModifiedZip(d) == mktime(Tm(d.year - 1900, d))
ModifiedIso(d) == mktime(Tm(d.year - 1900, d))

\* "warning : this will work until 2075 ;)"
ModifiedAce(d) == mktime(Tm(IF TwoDigits(d) > 75 THEN TwoDigits(d) ELSE 100 + TwoDigits(d), d))
ModifiedArj(d) == mktime(Tm(IF TwoDigits(d) >= 75 THEN TwoDigits(d) ELSE 100 + TwoDigits(d), d))

\* Mutant: every year is after 2000.
ModifiedZoo_NoCentury(d) == mktime(Tm(100 + TwoDigits(d), d))

ModifiedZoo(d) == mktime(Tm(IF TwoDigits(d) >= 75 THEN TwoDigits(d) ELSE 100 + TwoDigits(d), d))

\* Every year is after 2000.
ModifiedRar(d) == mktime(Tm(100 + TwoDigits(d), d))
ModifiedAlz(d) == mktime([Tm(100 + TwoDigits(d), d) EXCEPT !.dst = "no"])

\* What has a time is of this year.
LsYear(d) == IF Recent(d) THEN Now.year - 1900 ELSE d.year - 1900
ModifiedCpio(d) == mktime(Tm(LsYear(d), d))
ModifiedRpm(d)  == mktime(Tm(LsYear(d), d))
ModifiedLha(d)  == mktime(Tm(LsYear(d), d))

\* Months are counted from 1.
ModifiedDpkg(d) == mktime([Tm(d.year - 1900, d) EXCEPT !.mon = @ + 1, !.dst = "no"])

\* The date of the archive, or of today: what is opened has none.
Dateless == {"gzip", "lrzip", "unstuff"}

Modified(b, d) ==
    CASE b = "sevenz" -> Modified7z(d)
      [] b = "ace"    -> ModifiedAce(d)
      [] b = "alz"    -> ModifiedAlz(d)
      [] b = "ar"     -> ModifiedAr(d)
      [] b = "arj"    -> ModifiedArj(d)
      [] b = "cpio"   -> ModifiedCpio(d)
      [] b = "dpkg"   -> ModifiedDpkg(d)
      [] b = "iso"    -> ModifiedIso(d)
      [] b = "lha"    -> ModifiedLha(d)
      [] b = "rar"    -> ModifiedRar(d)
      [] b = "rpm"    -> ModifiedRpm(d)
      [] b = "tar"    -> ModifiedTar(d)
      [] b = "zip"    -> ModifiedZip(d)
      [] b = "zoo"    -> ModifiedZoo(d)
      [] OTHER        -> Clock(Now)

----
(* What it is for. *)

\* get_file_mtime, of a file last changed at t
mtime(t) == Clock(t)

\* A member is not extracted over a newer file, when older ones are to be skipped.
SkippedAsOlder(modified, t) == modified < mtime(t)

\* newer_files_only: a file is not added over a member that is not older.
LeftOutOfUpdate(modified, t) == modified >= mtime(t)
====

---- MODULE FrEditProofs ----
(* A window of FrEdit shows its archive: the rows of its list are what the location holds
   whenever nothing runs, and it stays near where it was when the archive is listed again, for
   any archives, names and texts and any number of moves and edits, failures of their commands
   included.

   IInv is the inductive invariant.  It says that the number of activities is that of what runs,
   but for one more after the icons changed; that one thing runs at most; and that when nothing
   does, and the window is not stuck so, the entries are the archive, in order, and what is shown
   was made from them.  That the entries are in order is what makes one row of each folder:
   compute_file_list_name ends its search for a folder at the first entry of elsewhere.

   DragInv, which is inductive with IInv, says of a drag that goes on what it was begun for and
   what was answered; from it follows that what is dragged out is right.

   SaneInv, inductive with IInv, says that the archive stays one: nothing is below a file, and
   folders are stored in one way, until something is pasted or saved over what is there; so does
   what the script that runs leaves of it, wherever it stops.  From it follows that what is done
   to a row is done to what the row shows. *)
EXTENDS FrEdit, SequenceTheorems, FiniteSetTheorems, WellFoundedInduction, TLAPS

Paths == Seq(Names) \ {<<>>}

\* The fields of a window.
Fields == {"files", "names", "rows", "rows_live", "selected", "refs", "tree", "tree_selection",
           "history", "history_current", "last_location", "list_mode", "last_list_mode",
           "filter_mode", "filter", "view_folders", "archive_present", "activity_ref", "loading",
           "acts", "freed_read", "selected_then", "icons_changed"}

Entries(set) == \A m \in set : m.path \in Paths /\ m.rooted \in BOOLEAN

Window(s) ==
    /\ DOMAIN s = Fields
    /\ s.files \in Seq(Range(s.files)) /\ Entries(Range(s.files))
    /\ \A m \in s.names : m.entry.path \in Paths /\ m.name \in Names
    /\ \A row \in s.rows \cup s.selected : row.entry.path \in Paths
    /\ s.tree \subseteq Seq(Names) /\ s.tree_selection \in Seq(Names) \cup {None}
    /\ s.history \in Seq(Seq(Names)) /\ s.history_current \in 0..Len(s.history)
    /\ s.last_location \in Seq(Names) \cup {None}
    /\ s.activity_ref \in Nat /\ s.acts \in Nat
    /\ s.rows_live \in BOOLEAN /\ s.selected_then \in BOOLEAN /\ s.freed_read \in BOOLEAN
    /\ s.loading \in BOOLEAN /\ s.archive_present \in BOOLEAN /\ s.icons_changed \in BOOLEAN

\* What was freed is read for a reason only; what is named, and in a row not freed, is listed.
Read(s) ==
    /\ s.freed_read => s.selected_then
    /\ ~s.rows_live /\ s.selected # {} => s.selected_then
    /\ s.selected \subseteq s.rows /\ s.refs \subseteq s.rows
    /\ \A m \in s.names : m.entry \in Range(s.files)
    /\ s.rows_live => \A row \in s.rows : row.entry \in Range(s.files)

Children(entries, here) ==
    { SubSeq(m.path, 1, Len(here) + 1) :
      m \in {m \in entries : IsPrefix(here, m.path) /\ Len(m.path) > Len(here)} }

\* What a listed entry, and a row, was made to be.
NameMade(s, m) ==
    LET n == Len(Location(s)) + 1
    IN /\ m.list_dir = (s.list_mode # "FLAT" /\ Len(m.entry.path) > n)
       /\ s.list_mode # "FLAT" =>
             /\ IsPrefix(Location(s), m.entry.path) /\ Len(m.entry.path) >= n
             /\ m.name = m.entry.path[n]

RowMade(s, row) ==
    IF s.list_mode = "FLAT" THEN row.shown = row.entry.path
    ELSE /\ row.shown = SubSeq(row.entry.path, 1, Len(Location(s)) + 1)
         /\ \E m \in s.names : m.entry = row.entry

Made(s) ==
    s.list_mode = "FLAT" \/ DirExists(s.files, Location(s)) =>
        (\A m \in s.names : NameMade(s, m)) /\ (\A row \in s.rows : RowMade(s, row))

Shown(s) ==
    /\ (s.list_mode = "AS_DIR" /\ s.filter = None /\ DirExists(s.files, Location(s)))
          => { row.shown : row \in s.rows } = Children(Range(s.files), Location(s))
    /\ Made(s)

LastSeen(s) ==
    \/ s.last_location = None \/ s.last_location = Location(s)
    \/ ~DirExists(s.files, s.last_location)

Sees(s) == s.archive_present => s.rows_live /\ LastSeen(s) /\ Shown(s)

InOrder(files) ==
    \A i, j \in DOMAIN files : i < j => ~ComparePath(files[j], files[i])

StepOK(step) ==
    /\ step.do \in {"extract", "remove", "move", "folders", "add", "update"}
    /\ step.do = "move" => step.of[1] \in Paths /\ step.of[2] \in Seq(Names)
    /\ step.do = "folders" => step.of \subseteq Seq(Names)
    /\ step.do = "update" => step.of.path \in Paths

NameList(list) == list \in Seq(Range(list)) /\ \A i \in DOMAIN list : list[i].path \in Paths

OpOK(op) ==
    /\ DOMAIN op = {"kind", "steps", "apart"}
    /\ op.steps \in Seq(Range(op.steps))
    /\ \A i \in DOMAIN op.steps : StepOK(op.steps[i])
    /\ op.apart \in Nat
    /\ \A i \in DOMAIN op.steps : i < op.apart => op.steps[i].do \in {"folders", "extract"}
    /\ op.kind = "open" => 1 \in DOMAIN op.steps /\ NameList(op.steps[1].of)

EditFields == {"op", "edits", "copy_data", "clipboard", "crashed", "temps", "open_files", "dialog",
    "updating", "first", "asked", "excuses", "unsaved", "closed", "drag", "destination",
    "drag_list", "drag_error", "dragged", "dropped"}

Edit(c) ==
    /\ DOMAIN c = EditFields
    /\ OpOK(c.op)
    /\ c.copy_data # None =>
          /\ DOMAIN c.copy_data = {"files", "op", "base_dir", "pasted"}
          /\ NameList(c.copy_data.files) /\ c.copy_data.base_dir \in Seq(Names)
    /\ IsFiniteSet(c.open_files) /\ \A f \in c.open_files : f.path.path \in Paths

Bit(b) == IF b THEN 1 ELSE 0
Running == Bit(w.loading) + Bit(Runs(e))
Stuck == w.activity_ref # Running

Busy ==
    /\ w.activity_ref = Running \/ (w.icons_changed /\ w.activity_ref = Running + 1)
    /\ ~(w.loading /\ Runs(e))

Follows ==
    /\ w.loading => Range(w.files) \subseteq disk
    /\ (w.archive_present /\ ~w.loading /\ ~Stuck) =>
           Range(w.files) = disk /\ InOrder(w.files) /\ Sees(w)

Dragging ==
    e.drag # NoDrag =>
       "from" \in DOMAIN e.drag /\ (e.drag.from = "list" /\ w.refs # {} => w.selected # {})

IInv == Entries(disk) /\ Window(w) /\ Read(w) /\ Edit(e) /\ Busy /\ Follows /\ Dragging

----
(* The order of the entries. Paths, and the comparison of their texts: an order in which those
   below a folder follow each other. *)

LEMMA SmallestOf ==
    ASSUME NEW T \in SUBSET Nat, T # {}
    PROVE  \E x \in T : \A y \in T : ~(y < x)
<1>1. PICK x \in T : \A y \in T : ~(<<y, x>> \in OpToRel(<, Nat)) BY NatLessThanWellFounded, WFMin
<1>2. \A y \in T : y < x => <<y, x>> \in OpToRel(<, Nat) BY DEF OpToRel
<1> QED BY <1>1, <1>2

\* A prefix has the same at each place.
Agree(p, q, n) == n <= Len(q) /\ \A i \in 1..n : p[i] = q[i]

LEMMA PrefixIs ==
    ASSUME NEW S, NEW p \in Seq(S), NEW q \in Seq(S)
    PROVE  IsPrefix(p, q) <=> Agree(p, q, Len(p))
<1>1. Len(p) \in Nat /\ Len(q) \in Nat /\ DOMAIN p = 1..Len(p) /\ DOMAIN q = 1..Len(q) OBVIOUS
<1>2. CASE ~(Len(p) <= Len(q)) BY <1>2 DEF IsPrefix, Agree
<1>3. CASE Len(p) <= Len(q)
 <2>1. /\ SubSeq(p, 1, Len(p)) = [i \in 1..Len(p) |-> p[i]]
       /\ SubSeq(q, 1, Len(p)) = [i \in 1..Len(p) |-> q[i]]
  BY <1>1, <1>3
 <2> QED BY <1>3, <2>1 DEF IsPrefix, Agree
<1> QED BY <1>2, <1>3

LEMMA FrontIs ==
    ASSUME NEW S, NEW p \in Seq(S), NEW n \in 0..Len(p)
    PROVE  /\ SubSeq(p, 1, n) \in Seq(S) /\ Len(SubSeq(p, 1, n)) = n
           /\ \A i \in 1..n : SubSeq(p, 1, n)[i] = p[i]
<1> QED OBVIOUS

\* The order of the entries: that of their texts.
RankOf(name) == CHOOSE i \in DOMAIN NameOrder : NameOrder[i] = name

LEMMA Ranked ==
    /\ \A name \in Names : RankOf(name) \in Nat
    /\ \A name, other \in Names : RankOf(name) = RankOf(other) => name = other
<1>1. NameOrder \in Seq(Names) BY BrowseAssumption, Zenon
<1>2. \A name \in Names : \E i \in DOMAIN NameOrder : NameOrder[i] = name BY DEF Names, Range
<1>3. \A name \in Names : RankOf(name) \in DOMAIN NameOrder /\ NameOrder[RankOf(name)] = name
 BY <1>2 DEF RankOf
<1> QED BY <1>1, <1>3

Comes(p, x, q, y) ==
    \E n \in 0..Len(p) :
       /\ Agree(p, q, n)
       /\ IF n = Len(p) THEN Len(q) > n \/ (y /\ ~x)
          ELSE Len(q) > n /\ RankOf(p[n + 1]) < RankOf(q[n + 1])

LEMMA ComparePathIs ==
    ASSUME NEW a, NEW b, a.path \in Paths, b.path \in Paths
    PROVE  ComparePath(a, b) <=> Comes(a.path, Slash(a), b.path, Slash(b))
<1> DEFINE p == a.path q == b.path
<1>1. p \in Seq(Names) /\ q \in Seq(Names) BY DEF Paths
<1>2. ASSUME NEW n \in 0..Len(p)
      PROVE  IsPrefix(SubSeq(p, 1, n), q) <=> Agree(p, q, n)
 <2>1. /\ SubSeq(p, 1, n) \in Seq(Names) /\ Len(SubSeq(p, 1, n)) = n
       /\ \A i \in 1..n : SubSeq(p, 1, n)[i] = p[i]
  BY <1>1, FrontIs
 <2>2. IsPrefix(SubSeq(p, 1, n), q) <=> Agree(SubSeq(p, 1, n), q, Len(SubSeq(p, 1, n)))
  BY <1>1, <2>1, PrefixIs
 <2> QED BY <2>1, <2>2 DEF Agree
<1> QED BY <1>2 DEF ComparePath, Comes, RankOf

LEMMA ComesOnce ==
    ASSUME NEW p \in Seq(Names), NEW q \in Seq(Names), NEW x \in BOOLEAN, NEW y \in BOOLEAN
    PROVE  ~(Comes(p, x, q, y) /\ Comes(q, y, p, x))
<1> SUFFICES ASSUME Comes(p, x, q, y), Comes(q, y, p, x) PROVE FALSE OBVIOUS
<1>1. PICK n \in 0..Len(p) :
         /\ Agree(p, q, n)
         /\ IF n = Len(p) THEN Len(q) > n \/ (y /\ ~x)
            ELSE Len(q) > n /\ RankOf(p[n + 1]) < RankOf(q[n + 1])
 BY DEF Comes
<1>2. PICK m \in 0..Len(q) :
         /\ Agree(q, p, m)
         /\ IF m = Len(q) THEN Len(p) > m \/ (x /\ ~y)
            ELSE Len(p) > m /\ RankOf(q[m + 1]) < RankOf(p[m + 1])
 BY DEF Comes
<1>3. /\ Len(p) \in Nat /\ Len(q) \in Nat /\ n \in Nat /\ m \in Nat /\ n <= Len(q) /\ m <= Len(p)
      /\ \A i \in 1..Len(p) : RankOf(p[i]) \in Nat
      /\ \A i \in 1..Len(q) : RankOf(q[i]) \in Nat
 BY <1>1, <1>2, Ranked DEF Agree
<1>4. CASE n < m
 <2>1. p[n + 1] = q[n + 1] /\ n + 1 \in 1..Len(p) BY <1>2, <1>3, <1>4 DEF Agree
 <2> QED BY <1>1, <1>3, <1>4, <2>1
<1>5. CASE m < n
 <2>1. p[m + 1] = q[m + 1] /\ m + 1 \in 1..Len(q) BY <1>1, <1>3, <1>5 DEF Agree
 <2> QED BY <1>2, <1>3, <1>5, <2>1
<1>6. CASE n = m BY <1>1, <1>2, <1>3, <1>6
<1> QED BY <1>3, <1>4, <1>5, <1>6

LEMMA ComesBetween ==
    ASSUME NEW p \in Seq(Names), NEW q \in Seq(Names), NEW x \in BOOLEAN, NEW y \in BOOLEAN,
           ~Comes(p, x, q, y), ~Comes(q, y, p, x)
    PROVE  p = q /\ x = y
<1>1. /\ Len(p) \in Nat /\ Len(q) \in Nat
      /\ \A i \in 1..Len(p) : p[i] \in Names /\ RankOf(p[i]) \in Nat
      /\ \A i \in 1..Len(q) : q[i] \in Names /\ RankOf(q[i]) \in Nat
 BY Ranked
<1> DEFINE Differ == {i \in Nat : i \in 1..Len(p) /\ i \in 1..Len(q) /\ p[i] # q[i]}
<1>2. ASSUME Differ # {} PROVE FALSE
 <2>1. PICK d \in Differ : \A i \in Differ : ~(i < d) BY <1>2, SmallestOf
 <2> DEFINE n == d - 1
 <2>2. n \in Nat /\ n < Len(p) /\ n < Len(q) /\ n + 1 = d /\ d \in 1..Len(p) /\ d \in 1..Len(q) /\ p[d] # q[d]
  BY <1>1, <2>1
 <2>3. ASSUME NEW i \in 1..n PROVE p[i] = q[i]
  <3>1. i \in Nat /\ i < d /\ i \in 1..Len(p) /\ i \in 1..Len(q) BY <1>1, <2>2
  <3> QED BY <2>1, <3>1
 <2>4. Agree(p, q, n) /\ Agree(q, p, n) BY <1>1, <2>2, <2>3 DEF Agree
 <2>5. RankOf(p[d]) # RankOf(q[d]) /\ RankOf(p[d]) \in Nat /\ RankOf(q[d]) \in Nat
  BY <1>1, <2>2, Ranked
 <2>6. n \in 0..Len(p) /\ n \in 0..Len(q) /\ n # Len(p) /\ n # Len(q) /\ Len(p) > n /\ Len(q) > n
  BY <1>1, <2>2
 <2> QED BY <2>2, <2>4, <2>5, <2>6 DEF Comes
<1>3. \A i \in 1..Len(p) : i \in 1..Len(q) => p[i] = q[i] BY <1>1, <1>2
<1>4. Len(p) = Len(q)
 <2>1. CASE Len(p) < Len(q)
  <3> QED BY <1>1, <1>3, <2>1 DEF Agree, Comes
 <2>2. CASE Len(q) < Len(p)
  <3> QED BY <1>1, <1>3, <2>2 DEF Agree, Comes
 <2> QED BY <1>1, <2>1, <2>2
<1>5. p = q BY <1>1, <1>3, <1>4, SeqEqual
<1>6. x = y
 <2>1. Agree(p, q, Len(p)) /\ Agree(q, p, Len(q)) /\ Len(p) \in 0..Len(p) /\ Len(q) \in 0..Len(q)
  BY <1>1, <1>3, <1>4 DEF Agree
 <2> QED BY <2>1 DEF Comes
<1> QED BY <1>5, <1>6

LEMMA ComesOn ==
    ASSUME NEW p \in Seq(Names), NEW q \in Seq(Names), NEW r \in Seq(Names),
           NEW x \in BOOLEAN, NEW y \in BOOLEAN, NEW z \in BOOLEAN,
           Comes(p, x, q, y), Comes(q, y, r, z)
    PROVE  Comes(p, x, r, z)
<1>1. PICK n \in 0..Len(p) :
         /\ Agree(p, q, n)
         /\ IF n = Len(p) THEN Len(q) > n \/ (y /\ ~x)
            ELSE Len(q) > n /\ RankOf(p[n + 1]) < RankOf(q[n + 1])
 BY DEF Comes
<1>2. PICK m \in 0..Len(q) :
         /\ Agree(q, r, m)
         /\ IF m = Len(q) THEN Len(r) > m \/ (z /\ ~y)
            ELSE Len(r) > m /\ RankOf(q[m + 1]) < RankOf(r[m + 1])
 BY DEF Comes
<1>3. /\ Len(p) \in Nat /\ Len(q) \in Nat /\ Len(r) \in Nat /\ n \in Nat /\ m \in Nat
      /\ n <= Len(q) /\ m <= Len(r)
      /\ \A i \in 1..Len(p) : RankOf(p[i]) \in Nat
      /\ \A i \in 1..Len(q) : RankOf(q[i]) \in Nat
      /\ \A i \in 1..Len(r) : RankOf(r[i]) \in Nat
 <2> QED BY <1>1, <1>2, Ranked DEF Agree
<1>4. CASE n <= m
 <2>1. Agree(p, r, n) BY <1>1, <1>2, <1>3, <1>4 DEF Agree
 <2>2. CASE n < m
  <3>1. q[n + 1] = r[n + 1] /\ Len(r) > n BY <1>2, <1>3, <2>2 DEF Agree
  <3> QED BY <1>1, <2>1, <3>1 DEF Comes
 <2>3. CASE n = m
  <3>1. CASE n = Len(p)
   <4>1. Len(r) > n \/ (z /\ ~x) BY <1>1, <1>2, <1>3, <2>3, <3>1
   <4> QED BY <2>1, <3>1, <4>1 DEF Comes
  <3>2. CASE n # Len(p)
   <4>1. /\ n + 1 \in 1..Len(p) /\ n + 1 \in 1..Len(q) /\ Len(r) > n /\ n + 1 \in 1..Len(r)
         /\ RankOf(p[n + 1]) < RankOf(q[n + 1]) /\ RankOf(q[n + 1]) < RankOf(r[n + 1])
    BY <1>1, <1>2, <1>3, <2>3, <3>2
   <4>2. RankOf(p[n + 1]) < RankOf(r[n + 1]) BY <1>3, <4>1
   <4> QED BY <2>1, <3>2, <4>1, <4>2 DEF Comes
  <3> QED BY <3>1, <3>2
 <2> QED BY <1>3, <1>4, <2>2, <2>3
<1>5. CASE m < n
 <2>1. Agree(p, r, m) /\ m \in 0..Len(p) /\ m # Len(p) /\ m # Len(q) /\ p[m + 1] = q[m + 1]
  BY <1>1, <1>2, <1>3, <1>5 DEF Agree
 <2> QED BY <1>2, <2>1 DEF Comes
<1> QED BY <1>3, <1>4, <1>5

Firsts(files, i) == {j \in DOMAIN files : First(files, j, i)}

LEMMA FirstOrders ==
    ASSUME NEW files, files \in Seq(Range(files)), Entries(Range(files)),
           NEW i \in DOMAIN files, NEW j \in DOMAIN files
    PROVE  /\ ~First(files, i, i)
           /\ i # j => First(files, i, j) \/ First(files, j, i)
           /\ ~(First(files, i, j) /\ First(files, j, i))
           /\ \A k \in DOMAIN files : First(files, i, j) /\ First(files, j, k) => First(files, i, k)
<1> DEFINE C(a, b) == ComparePath(files[a], files[b])
           P(a) == files[a].path
           X(a) == Slash(files[a])
<1>1. \A a \in DOMAIN files : a \in Nat /\ P(a) \in Seq(Names) /\ P(a) \in Paths /\ X(a) \in BOOLEAN
 BY DEF Entries, Range, Paths, Slash
<1>2. \A a, b \in DOMAIN files : C(a, b) <=> Comes(P(a), X(a), P(b), X(b)) BY <1>1, ComparePathIs
<1>3. \A a, b \in DOMAIN files : ~(C(a, b) /\ C(b, a)) BY <1>1, <1>2, ComesOnce
<1>4. \A a, b \in DOMAIN files : ~C(a, b) /\ ~C(b, a) => P(a) = P(b) /\ X(a) = X(b)
 BY <1>1, <1>2, ComesBetween
<1>5. ASSUME NEW a \in DOMAIN files, NEW b \in DOMAIN files, NEW c \in DOMAIN files, C(a, b), C(b, c)
      PROVE  C(a, c)
 <2>1. Comes(P(a), X(a), P(b), X(b)) /\ Comes(P(b), X(b), P(c), X(c)) BY <1>2, <1>5
 <2> HIDE DEF P, X
 <2>2. Comes(P(a), X(a), P(c), X(c)) BY <1>1, <2>1, ComesOn
 <2> QED BY <1>2, <2>2
<1>6. \A a, b, c \in DOMAIN files : ~C(a, b) /\ ~C(b, a) => (C(a, c) <=> C(b, c)) /\ (C(c, a) <=> C(c, b))
 BY <1>2, <1>4
<1>7. \A a, b : First(files, a, b) <=> C(a, b) \/ (~C(b, a) /\ a < b) BY DEF First
<1> HIDE DEF C, P, X
<1>8. ASSUME NEW k \in DOMAIN files, First(files, i, j), First(files, j, k)
      PROVE  First(files, i, k)
 <2>1. CASE C(i, j) /\ C(j, k) BY <1>5, <1>7, <2>1
 <2>2. CASE C(i, j) /\ ~C(j, k) BY <1>6, <1>7, <1>8, <2>2
 <2>3. CASE ~C(i, j) /\ C(j, k) BY <1>6, <1>7, <1>8, <2>3
 <2>4. CASE ~C(i, j) /\ ~C(j, k)
  <3>1. ~C(j, i) /\ ~C(k, j) /\ i < j /\ j < k BY <1>7, <1>8, <2>4
  <3>2. ~C(k, i) BY <1>6, <2>4, <3>1
  <3>3. i < k BY <1>1, <3>1
  <3> QED BY <1>7, <3>2, <3>3
 <2> QED BY <2>1, <2>2, <2>3, <2>4
<1>9. ~First(files, i, i) BY <1>1, <1>3, <1>7
<1>10. i # j => First(files, i, j) \/ First(files, j, i) BY <1>1, <1>7
<1>11. ~(First(files, i, j) /\ First(files, j, i)) BY <1>1, <1>3, <1>7
<1> QED BY <1>8, <1>9, <1>10, <1>11

PlaceOf(files) == [i \in DOMAIN files |-> Cardinality(Firsts(files, i)) + 1]

LEMMA InRange == \A f, x : x \in Range(f) <=> \E i \in DOMAIN f : f[i] = x
BY DEF Range

\* Each place is that of one entry.
LEMMA EachHasAPlace ==
    ASSUME NEW files, files \in Seq(Range(files)), Entries(Range(files))
    PROVE  /\ PlaceOf(files) \in [DOMAIN files -> DOMAIN files]
           /\ \A i, j \in DOMAIN files : First(files, j, i) => PlaceOf(files)[j] < PlaceOf(files)[i]
           /\ \A i, j \in DOMAIN files : PlaceOf(files)[i] = PlaceOf(files)[j] => i = j
           /\ \A m \in DOMAIN files : \E i \in DOMAIN files : PlaceOf(files)[i] = m
<1> DEFINE n == Len(files)
           D == DOMAIN files
           F(i) == Firsts(files, i)
           place == PlaceOf(files)
<1>1. n \in Nat /\ D = 1..n OBVIOUS
<1>2. IsFiniteSet(D) /\ Cardinality(D) = n BY <1>1, FS_Interval
<1>3. ASSUME NEW i \in D
      PROVE  IsFiniteSet(F(i)) /\ Cardinality(F(i)) \in 0..(n - 1) /\ place[i] = Cardinality(F(i)) + 1
 <2>1. F(i) \subseteq D \ {i} BY FirstOrders DEF Firsts
 <2>2. IsFiniteSet(D \ {i}) /\ Cardinality(D \ {i}) = n - 1 BY <1>2, FS_RemoveElement
 <2>3. IsFiniteSet(F(i)) /\ Cardinality(F(i)) <= n - 1 BY <2>1, <2>2, FS_Subset
 <2>4. Cardinality(F(i)) \in Nat BY <2>3, FS_CardinalityType
 <2>5. place[i] = Cardinality(F(i)) + 1 BY DEF PlaceOf
 <2> QED BY <1>1, <2>3, <2>4, <2>5
<1>4. place \in [D -> D]
 <2>1. place = [i \in D |-> Cardinality(F(i)) + 1] BY DEF PlaceOf
 <2>2. \A i \in D : Cardinality(F(i)) + 1 \in D BY <1>1, <1>3
 <2> HIDE DEF place, F, D
 <2> QED BY <2>1, <2>2
<1>5. ASSUME NEW i \in D, NEW j \in D, First(files, j, i)
      PROVE  place[j] < place[i]
 <2>1. F(j) \subseteq F(i) /\ j \in F(i) /\ j \notin F(j) BY <1>5, FirstOrders DEF Firsts
 <2>2. Cardinality(F(j)) <= Cardinality(F(i)) /\ Cardinality(F(j)) # Cardinality(F(i))
  BY <1>3, <2>1, FS_Subset
 <2> QED BY <1>1, <1>3, <2>2
<1>6. ASSUME NEW i \in D, NEW j \in D, place[i] = place[j]
      PROVE  i = j
 <2>1. place[i] \in Nat /\ place[j] \in Nat BY <1>1, <1>4
 <2> QED BY <1>5, <1>6, <2>1, FirstOrders
<1>7. ASSUME NEW m \in D, ~\E i \in D : place[i] = m
      PROVE  FALSE
 <2>1. place \in [D -> D \ {m}] BY <1>4, <1>7
 <2>2. IsFiniteSet(D \ {m}) /\ Cardinality(D \ {m}) < Cardinality(D)
  <3>1. IsFiniteSet(D \ {m}) /\ Cardinality(D \ {m}) = n - 1 BY <1>2, FS_RemoveElement
  <3> QED BY <1>1, <1>2, <3>1
 <2>3. \E x, y \in D : x # y /\ place[x] = place[y] BY <1>2, <2>1, <2>2, FS_PigeonHole
 <2> QED BY <1>6, <2>3
<1> QED BY <1>4, <1>5, <1>6, <1>7

LEMMA SortedIs ==
    ASSUME NEW files, files \in Seq(Range(files)), Entries(Range(files))
    PROVE  /\ Sorted(files) \in Seq(Range(files)) /\ Range(Sorted(files)) = Range(files)
           /\ InOrder(Sorted(files))
<1> DEFINE D == DOMAIN files
           place == PlaceOf(files)
           at == [m \in D |-> CHOOSE i \in D : place[i] = m]
           sorted == [m \in D |-> files[at[m]]]
<1>1. Sorted(files) = sorted
 <2>1. Sorted(files) = [m \in D |-> files[CHOOSE i \in D : place[i] = m]]
  BY Zenon DEF Sorted, PlaceOf, Firsts
 <2> QED BY <2>1
<1>2. /\ place \in [D -> D]
      /\ \A i, j \in D : First(files, j, i) => place[j] < place[i]
      /\ \A i, j \in D : place[i] = place[j] => i = j
      /\ \A m \in D : \E i \in D : place[i] = m
 BY EachHasAPlace
<1> HIDE DEF place
<1>3. \A m \in D : at[m] \in D /\ place[at[m]] = m BY <1>2
<1>4. D = 1..Len(files) /\ Len(files) \in Nat OBVIOUS
<1> HIDE DEF at
<1>5. sorted \in Seq(Range(files)) /\ DOMAIN sorted = D
 <2>1. \A m \in D : files[at[m]] \in Range(files) BY <1>3 DEF Range
 <2>2. sorted \in [1..Len(files) -> Range(files)] BY <1>4, <2>1
 <2> QED BY <1>4, <2>2
<1>6. \A i \in D : sorted[place[i]] = files[i] BY <1>2, <1>3
<1>7. Range(sorted) = Range(files)
 <2>1. \A m \in D : sorted[m] = files[at[m]] /\ at[m] \in D BY <1>3
 <2>2. \A i \in D : place[i] \in D BY <1>2
 <2> HIDE DEF sorted
 <2>3. ASSUME NEW x \in Range(sorted) PROVE x \in Range(files)
  <3>1. PICK m \in D : sorted[m] = x BY <1>5, InRange
  <3> QED BY <2>1, <3>1, InRange
 <2>4. ASSUME NEW x \in Range(files) PROVE x \in Range(sorted)
  <3>1. PICK i \in D : files[i] = x BY InRange
  <3>2. sorted[place[i]] = x /\ place[i] \in D BY <1>6, <2>2, <3>1
  <3> QED BY <1>5, <3>2, InRange
 <2> QED BY <2>3, <2>4
<1>8. InOrder(sorted)
 <2> SUFFICES ASSUME NEW i \in D, NEW j \in D, i < j
              PROVE  ~ComparePath(sorted[j], sorted[i])
  BY <1>5 DEF InOrder
 <2>1. at[i] \in D /\ at[j] \in D /\ place[at[i]] = i /\ place[at[j]] = j /\ i \in Nat /\ j \in Nat
  BY <1>3, <1>4
 <2>2. ~(place[at[j]] < place[at[i]]) BY <2>1
 <2> QED BY <1>2, <2>1, <2>2 DEF First
<1> HIDE DEF sorted
<1> QED BY <1>1, <1>5, <1>7, <1>8

\* What is in a folder comes together: what is between two members that are below a
\* location is in it.
LEMMA Together ==
    ASSUME NEW files, files \in Seq(Range(files)), Entries(Range(files)), InOrder(files),
           NEW here \in Seq(Names), NEW i \in DOMAIN files, NEW j \in DOMAIN files, NEW k \in DOMAIN files,
           j < k, k < i,
           IsPrefix(here, files[i].path), IsPrefix(here, files[j].path),
           Len(files[i].path) > Len(here), Len(files[j].path) > Len(here)
    PROVE  Inside(here, files[k])
<1> DEFINE p == files[j].path
           q == files[k].path
           r == files[i].path
           n == Len(here)
<1>1. /\ p \in Seq(Names) /\ q \in Seq(Names) /\ r \in Seq(Names)
      /\ p \in Paths /\ q \in Paths /\ r \in Paths
      /\ n \in Nat /\ Len(p) \in Nat /\ Len(q) \in Nat /\ Len(r) \in Nat
 <2>1. /\ \A x \in DOMAIN files : files[x] \in Range(files)
       /\ \A m \in Range(files) : m.path \in Paths
  BY DEF Entries, Range
 <2>2. p \in Paths /\ q \in Paths /\ r \in Paths BY <2>1
 <2>3. \A x \in Paths : x \in Seq(Names) /\ Len(x) \in Nat BY DEF Paths
 <2>4. n \in Nat BY LenProperties
 <2> HIDE DEF p, q, r, n
 <2> QED BY <2>2, <2>3, <2>4
<1>2. Agree(here, p, n) /\ Agree(here, r, n) BY <1>1, PrefixIs
<1>3. ~Comes(q, Slash(files[k]), p, Slash(files[j])) /\ ~Comes(r, Slash(files[i]), q, Slash(files[k]))
 <2>1. ~ComparePath(files[k], files[j]) /\ ~ComparePath(files[i], files[k]) BY DEF InOrder
 <2> QED BY <1>1, <2>1, ComparePathIs
<1> HIDE DEF p, q, r, n
<1>4. Agree(here, q, n)
 <2> SUFFICES ASSUME ~Agree(here, q, n) PROVE FALSE OBVIOUS
 <2> DEFINE Differ == {d \in Nat : d \in 1..n /\ (d > Len(q) \/ here[d] # q[d])}
 <2>1. Differ # {}
  <3>1. CASE n <= Len(q)
   <4>1. PICK d \in 1..n : here[d] # q[d] BY <3>1 DEF Agree
   <4> QED BY <1>1, <4>1
  <3>2. CASE ~(n <= Len(q))
   <4>1. n \in Differ BY <1>1, <3>2
   <4> QED BY <4>1
  <3> QED BY <3>1, <3>2
 <2>2. PICK d \in Differ : \A m \in Differ : ~(m < d) BY <2>1, SmallestOf
 <2>3. PICK c \in Nat : c = d - 1 BY <2>2
 <2>4. /\ c < n /\ c + 1 = d /\ d \in 1..n /\ (d > Len(q) \/ here[d] # q[d])
       /\ \A m \in 1..c : m <= Len(q) /\ here[m] = q[m]
  <3>1. c < n /\ c + 1 = d /\ d \in 1..n /\ (d > Len(q) \/ here[d] # q[d]) BY <1>1, <2>2, <2>3
  <3>2. ASSUME NEW m \in 1..c PROVE m <= Len(q) /\ here[m] = q[m]
   <4>1. m \in Nat /\ m \in 1..n /\ m < d /\ m \notin Differ BY <1>1, <2>2, <3>1
   <4> QED BY <1>1, <4>1
  <3> QED BY <3>1, <3>2
 <2>5. c <= Len(q)
  <3>1. CASE c = 0 BY <1>1, <3>1
  <3>2. CASE c # 0
   <4>1. c \in 1..c BY <2>3, <3>2
   <4> QED BY <2>4, <4>1
  <3> QED BY <3>1, <3>2
 <2>6. /\ c <= Len(p) /\ c <= Len(r) /\ c < Len(p) /\ c < Len(r)
       /\ p[d] = here[d] /\ r[d] = here[d] /\ here[d] \in Names
       /\ \A m \in 1..c : q[m] = p[m] /\ r[m] = q[m]
  BY <1>1, <1>2, <2>3, <2>4 DEF Agree, n
 <2>7. Agree(q, p, c) /\ Agree(r, q, c) /\ c \in 0..Len(q) /\ c \in 0..Len(r)
  BY <1>1, <2>3, <2>5, <2>6 DEF Agree
 <2>8. CASE c = Len(q)
  <3>1. Comes(q, Slash(files[k]), p, Slash(files[j])) BY <1>1, <2>6, <2>7, <2>8 DEF Comes
  <3> QED BY <1>3, <3>1
 <2>9. CASE c # Len(q)
  <3>1. Len(q) > c /\ d \in 1..Len(q) /\ q[d] \in Names /\ here[d] # q[d]
   <4>1. Len(q) > c /\ d \in 1..Len(q) BY <1>1, <2>3, <2>4, <2>5, <2>9
   <4>2. ~(d > Len(q)) BY <1>1, <4>1
   <4> QED BY <1>1, <2>4, <4>1, <4>2
  <3>2. /\ RankOf(q[d]) \in Nat /\ RankOf(here[d]) \in Nat /\ RankOf(q[d]) # RankOf(here[d])
   BY <2>6, <3>1, Ranked
  <3>3. CASE RankOf(q[d]) < RankOf(here[d])
   <4>1. Comes(q, Slash(files[k]), p, Slash(files[j])) BY <2>4, <2>6, <2>7, <2>9, <3>3 DEF Comes
   <4> QED BY <1>3, <4>1
  <3>4. CASE RankOf(here[d]) < RankOf(q[d])
   <4>1. c # Len(r) BY <1>1, <2>3, <2>6
   <4>2. Comes(r, Slash(files[i]), q, Slash(files[k]))
    BY <2>4, <2>6, <2>7, <3>1, <3>4, <4>1 DEF Comes
   <4> QED BY <1>3, <4>2
  <3> QED BY <3>2, <3>3, <3>4
 <2> QED BY <2>8, <2>9
<1>5. n <= Len(q) /\ IsPrefix(here, q)
 <2>1. IsPrefix(here, q) <=> Agree(here, q, Len(here)) BY <1>1, PrefixIs
 <2> QED BY <1>4, <2>1 DEF Agree, n
<1>6. CASE Len(q) > n BY <1>5, <1>6 DEF Inside, q, n
<1>7. CASE Len(q) = n
 <2>1. Agree(q, p, n)
  <3>1. \A m \in 1..n : q[m] = p[m] BY <1>2, <1>4 DEF Agree
  <3> QED BY <1>1, <1>2, <3>1 DEF Agree
 <2>2. Len(p) > n /\ n \in 0..Len(q) BY <1>1, <1>7 DEF p, n
 <2>3. Comes(q, Slash(files[k]), p, Slash(files[j])) BY <1>7, <2>1, <2>2 DEF Comes
 <2> QED BY <1>3, <2>3
<1> QED BY <1>1, <1>5, <1>6, <1>7

----
(* The names in the list. compute_file_list_name finds each file and folder of a location once
   when the entries are in order. *)

Passing(s, i) == RespectsFilter(s, s.files[i])
Under(s, i) == Passing(s, i) /\ Inside(Location(s), s.files[i]) /\ Len(s.files[i].path) >= Len(Location(s)) + 1
Folder(s, i) == Len(s.files[i].path) > Len(Location(s)) + 1 \/ IsDir(s.files[i])
Reached(s, i) ==
    ~\E j, k \in 1..(i - 1) : j < k /\ Under(s, j) /\ Passing(s, k) /\ ~Inside(Location(s), s.files[k])
Named(s, i) ==
    /\ Under(s, i) /\ Reached(s, i)
    /\ Folder(s, i) =>
          ~\E j \in 1..(i - 1) :
              /\ Under(s, j) /\ Folder(s, j)
              /\ s.files[j].path[Len(Location(s)) + 1] = s.files[i].path[Len(Location(s)) + 1]
NamedOf(s) == IF s.list_mode = "FLAT" THEN {i \in DOMAIN s.files : Passing(s, i)}
              ELSE {i \in DOMAIN s.files : Named(s, i)}
NameAt(s, i) ==
    [entry |-> s.files[i],
     name |-> IF s.list_mode = "FLAT" THEN Last(s.files[i].path) ELSE s.files[i].path[Len(Location(s)) + 1],
     list_dir |-> s.list_mode # "FLAT" /\ Len(s.files[i].path) > Len(Location(s)) + 1]

LEMMA ListNamesAre ==
    ASSUME NEW s
    PROVE  ComputeListNames(s) = [s EXCEPT !.names = {NameAt(s, i) : i \in NamedOf(s)}]
BY Zenon DEF ComputeListNames, NamedOf, NameAt, Named, Reached, Folder, Under, Passing

LEMMA LocationTyped == \A s : Window(s) => Location(s) \in Seq(Names)
<1> SUFFICES ASSUME NEW s, Window(s) PROVE Location(s) \in Seq(Names) OBVIOUS
<1>1. s.history \in Seq(Seq(Names)) /\ s.history_current \in 0..Len(s.history) BY Zenon DEF Window
<1>2. <<>> \in Seq(Names) OBVIOUS
<1> QED BY <1>1, <1>2 DEF Location

LEMMA EntryTyped ==
    ASSUME NEW s, Window(s), NEW i \in DOMAIN s.files
    PROVE  /\ s.files[i].path \in Paths /\ s.files[i].path \in Seq(Names)
           /\ Len(s.files[i].path) \in Nat /\ Len(s.files[i].path) >= 1
           /\ \A k \in 1..Len(s.files[i].path) : s.files[i].path[k] \in Names
           /\ s.files[i] \in Range(s.files) /\ i \in Nat /\ 1..(i - 1) \subseteq DOMAIN s.files
<1>1. s.files \in Seq(Range(s.files)) /\ Entries(Range(s.files)) BY Zenon DEF Window
<1>2. s.files[i] \in Range(s.files) BY InRange
<1>3. s.files[i].path \in Paths BY <1>1, <1>2 DEF Entries
<1> QED BY <1>1, <1>2, <1>3 DEF Paths

LEMMA NamesTyped ==
    ASSUME NEW s, Window(s), NEW i \in NamedOf(s)
    PROVE  NameAt(s, i).entry.path \in Paths /\ NameAt(s, i).name \in Names
<1>1. i \in DOMAIN s.files BY DEF NamedOf
<1>2. /\ s.files[i].path \in Paths /\ Len(s.files[i].path) \in Nat /\ Len(s.files[i].path) >= 1
      /\ \A k \in 1..Len(s.files[i].path) : s.files[i].path[k] \in Names
 BY <1>1, EntryTyped
<1>3. Len(Location(s)) \in Nat BY LocationTyped
<1>4. s.list_mode # "FLAT" => Len(s.files[i].path) >= Len(Location(s)) + 1
 BY DEF NamedOf, Named, Under
<1>5. NameAt(s, i).entry = s.files[i] BY DEF NameAt
<1>6. NameAt(s, i).name = IF s.list_mode = "FLAT" THEN Last(s.files[i].path)
                          ELSE s.files[i].path[Len(Location(s)) + 1]
 BY DEF NameAt
<1>7. Last(s.files[i].path) = s.files[i].path[Len(s.files[i].path)] BY DEF Last
<1>8. NameAt(s, i).name \in Names BY <1>2, <1>3, <1>4, <1>6, <1>7
<1> QED BY <1>2, <1>5, <1>8

\* The row of a name.
ShownAt(s, i) ==
    Append(IF NameAt(s, i).list_dir THEN Location(s) ELSE Front(NameAt(s, i).entry.path),
           NameAt(s, i).name)

LEMMA BeginsTheSame ==
    ASSUME NEW here \in Seq(Names), NEW p \in Seq(Names), IsPrefix(here, p), Len(p) > Len(here)
    PROVE  /\ Append(here, p[Len(here) + 1]) = SubSeq(p, 1, Len(here) + 1)
           /\ Len(p) = Len(here) + 1 => Append(Front(p), p[Len(here) + 1]) = SubSeq(p, 1, Len(here) + 1)
<1> DEFINE n == Len(here)
<1>1. n \in Nat /\ Len(p) \in Nat /\ n + 1 \in 0..Len(p) /\ n + 1 \in 1..Len(p) /\ p[n + 1] \in Names
 OBVIOUS
<1>2. \A i \in 1..n : here[i] = p[i] BY PrefixIs DEF Agree
<1>3. /\ SubSeq(p, 1, n + 1) \in Seq(Names) /\ Len(SubSeq(p, 1, n + 1)) = n + 1
      /\ \A i \in 1..(n + 1) : SubSeq(p, 1, n + 1)[i] = p[i]
 BY <1>1, FrontIs
<1>4. /\ Append(here, p[n + 1]) \in Seq(Names) /\ Len(Append(here, p[n + 1])) = n + 1
      /\ \A i \in 1..(n + 1) : Append(here, p[n + 1])[i] = p[i]
 BY <1>1, <1>2
<1>5. Append(here, p[n + 1]) = SubSeq(p, 1, n + 1) BY <1>1, <1>3, <1>4, SeqEqual
<1>6. ASSUME Len(p) = n + 1
      PROVE  Append(Front(p), p[n + 1]) = SubSeq(p, 1, n + 1)
 <2>1. Front(p) = SubSeq(p, 1, n) BY <1>1, <1>6 DEF Front
 <2>2. /\ SubSeq(p, 1, n) \in Seq(Names) /\ Len(SubSeq(p, 1, n)) = n
       /\ \A i \in 1..n : SubSeq(p, 1, n)[i] = p[i]
  BY <1>1, FrontIs
 <2>3. SubSeq(p, 1, n) = here BY <1>1, <1>2, <2>2, SeqEqual
 <2> QED BY <1>5, <2>1, <2>3
<1> QED BY <1>5, <1>6

LEMMA RowIs ==
    ASSUME NEW s, Window(s), NEW i \in DOMAIN s.files
    PROVE  /\ s.list_mode = "FLAT" => ShownAt(s, i) = s.files[i].path
           /\ s.list_mode # "FLAT" /\ Under(s, i)
                 => ShownAt(s, i) = SubSeq(s.files[i].path, 1, Len(Location(s)) + 1)
<1> DEFINE here == Location(s)
           n == Len(here)
           p == s.files[i].path
<1>1. here \in Seq(Names) /\ n \in Nat BY LocationTyped
<1>2. p \in Seq(Names) /\ Len(p) \in Nat /\ Len(p) >= 1 BY EntryTyped
<1>3. /\ NameAt(s, i).entry = s.files[i]
      /\ NameAt(s, i).name = IF s.list_mode = "FLAT" THEN Last(p) ELSE p[n + 1]
      /\ NameAt(s, i).list_dir = (s.list_mode # "FLAT" /\ Len(p) > n + 1)
 BY DEF NameAt
<1>4. ShownAt(s, i) = Append(IF s.list_mode # "FLAT" /\ Len(p) > n + 1 THEN here ELSE Front(p),
                             IF s.list_mode = "FLAT" THEN Last(p) ELSE p[n + 1])
 BY <1>3, Zenon DEF ShownAt
<1>5. ASSUME s.list_mode = "FLAT" PROVE ShownAt(s, i) = p
 <2>1. Append(Front(p), Last(p)) = p BY <1>2 DEF Front, Last
 <2> QED BY <1>4, <1>5, <2>1
<1>6. ASSUME s.list_mode # "FLAT", Under(s, i) PROVE ShownAt(s, i) = SubSeq(p, 1, n + 1)
 <2>1. IsPrefix(here, p) /\ Len(p) > n BY <1>1, <1>2, <1>6 DEF Under, Inside
 <2>2. /\ Append(here, p[n + 1]) = SubSeq(p, 1, n + 1)
       /\ Len(p) = n + 1 => Append(Front(p), p[n + 1]) = SubSeq(p, 1, n + 1)
  BY <1>1, <1>2, <2>1, BeginsTheSame
 <2>3. Len(p) > n + 1 \/ Len(p) = n + 1 BY <1>1, <1>2, <2>1
 <2> QED BY <1>4, <1>6, <2>2, <2>3
<1> QED BY <1>5, <1>6

\* The rows of a folder are what is in it, when the entries are in order.
LEMMA RowsOfAFolder ==
    ASSUME NEW s, Window(s), InOrder(s.files), s.list_mode = "AS_DIR", s.filter = None
    PROVE  {ShownAt(s, i) : i \in NamedOf(s)} = Children(Range(s.files), Location(s))
<1> DEFINE here == Location(s)
           n == Len(Location(s))
           Path(i) == s.files[i].path
           D == DOMAIN s.files
<1>1. here \in Seq(Names) /\ n \in Nat BY LocationTyped
<1>2. /\ s.files \in Seq(Range(s.files)) /\ Entries(Range(s.files))
      /\ D = 1..Len(s.files) /\ Len(s.files) \in Nat
 <2>1. s.files \in Seq(Range(s.files)) /\ Entries(Range(s.files)) BY Zenon DEF Window
 <2> QED BY <2>1
<1>3. \A i \in D : /\ Path(i) \in Seq(Names) /\ Len(Path(i)) \in Nat
                    /\ \A k \in 1..Len(Path(i)) : Path(i)[k] \in Names
 BY EntryTyped
<1>4. \A i \in D : Passing(s, i) BY DEF Passing, RespectsFilter
<1>5. \A i \in D : Under(s, i) <=> IsPrefix(here, Path(i)) /\ Len(Path(i)) > n
 BY <1>1, <1>3, <1>4 DEF Under, Inside
<1>6. NamedOf(s) = {i \in D : Named(s, i)} BY DEF NamedOf
<1>7. \A i \in D : Under(s, i) => ShownAt(s, i) = SubSeq(Path(i), 1, n + 1) BY RowIs
<1>8. ASSUME NEW i \in D, Under(s, i)
      PROVE  Reached(s, i)
 <2> SUFFICES ASSUME NEW j \in 1..(i - 1), NEW k \in 1..(i - 1), j < k, Under(s, j)
              PROVE  Inside(here, s.files[k])
  BY DEF Reached
 <2>1. j \in D /\ k \in D /\ k < i BY <1>2
 <2> HIDE DEF here, D
 <2> QED BY <1>1, <1>2, <1>5, <1>8, <2>1, Together DEF here, D
<1>9. ASSUME NEW i \in D, Under(s, i)
      PROVE  \E j \in NamedOf(s) : ShownAt(s, j) = SubSeq(Path(i), 1, n + 1)
 <2>1. CASE ~Folder(s, i) BY <1>6, <1>7, <1>8, <1>9, <2>1 DEF Named
 <2>2. CASE Folder(s, i)
  <3> DEFINE T == {j \in D : Under(s, j) /\ Folder(s, j) /\ Path(j)[n + 1] = Path(i)[n + 1]}
  <3>1. T \in SUBSET Nat /\ i \in T BY <1>2, <1>9, <2>2
  <3>2. PICK j \in T : \A k \in T : ~(k < j) BY <3>1, SmallestOf
  <3>3. j \in D /\ Under(s, j) /\ Folder(s, j) /\ Path(j)[n + 1] = Path(i)[n + 1] BY <3>2
  <3>4. ~\E k \in 1..(j - 1) : Under(s, k) /\ Folder(s, k) /\ Path(k)[n + 1] = Path(j)[n + 1]
   <4> SUFFICES ASSUME NEW k \in 1..(j - 1), Under(s, k), Folder(s, k), Path(k)[n + 1] = Path(j)[n + 1]
                PROVE  FALSE
    OBVIOUS
   <4>1. k \in D /\ k < j BY <1>2, <3>3
   <4> QED BY <3>2, <3>3, <4>1
  <3>5. Named(s, j) BY <1>8, <3>3, <3>4 DEF Named
  <3>6. SubSeq(Path(j), 1, n + 1) = SubSeq(Path(i), 1, n + 1)
   <4>1. Append(here, Path(j)[n + 1]) = SubSeq(Path(j), 1, n + 1)
    BY <1>1, <1>3, <1>5, <3>3, BeginsTheSame
   <4>2. Append(here, Path(i)[n + 1]) = SubSeq(Path(i), 1, n + 1)
    BY <1>1, <1>3, <1>5, <1>9, BeginsTheSame
   <4> QED BY <3>3, <4>1, <4>2
  <3>7. j \in NamedOf(s) BY <1>6, <3>3, <3>5
  <3> QED BY <1>7, <3>3, <3>6, <3>7
 <2> QED BY <2>1, <2>2
<1> HIDE DEF here, n, D, Path
<1>10. ASSUME NEW x \in {ShownAt(s, i) : i \in NamedOf(s)}
       PROVE  x \in Children(Range(s.files), Location(s))
 <2>1. PICK i \in NamedOf(s) : x = ShownAt(s, i) OBVIOUS
 <2>2. i \in D /\ Under(s, i) BY <1>6 DEF Named
 <2>3. x = SubSeq(s.files[i].path, 1, Len(Location(s)) + 1) /\ s.files[i] \in Range(s.files)
  BY <1>7, <2>1, <2>2, InRange DEF D, n, Path
 <2>4. IsPrefix(Location(s), s.files[i].path) /\ Len(s.files[i].path) > Len(Location(s))
  BY <1>5, <2>2 DEF here, n, Path
 <2> QED BY <2>3, <2>4 DEF Children
<1>11. ASSUME NEW x \in Children(Range(s.files), Location(s))
       PROVE  x \in {ShownAt(s, i) : i \in NamedOf(s)}
 <2>1. PICK m \in Range(s.files) : /\ IsPrefix(Location(s), m.path) /\ Len(m.path) > Len(Location(s))
                                   /\ x = SubSeq(m.path, 1, Len(Location(s)) + 1)
  BY DEF Children
 <2>2. PICK i \in D : s.files[i] = m BY InRange DEF D
 <2>3. Under(s, i) BY <1>5, <2>1, <2>2 DEF here, n, Path
 <2>4. x = SubSeq(Path(i), 1, n + 1) BY <2>1, <2>2 DEF Path, n
 <2> QED BY <1>9, <2>3, <2>4
<1> QED BY <1>10, <1>11

----
(* The parts of the window. What each function of the window changes, and that it leaves the
   window sound. *)

\* Two windows that differ in some fields only.
Apart(F, s, t) == DOMAIN t = Fields /\ \A f \in Fields \ F : t[f] = s[f]

Good(s) == Window(s) /\ Read(s)

LEMMA UpdateSensitivityIs ==
    ASSUME NEW s, Good(s)
    PROVE  /\ Good(UpdateSensitivity(s)) /\ Apart({"freed_read"}, s, UpdateSensitivity(s))
           /\ Location(UpdateSensitivity(s)) = Location(s)
<1> DEFINE x == s.freed_read \/ (s.selected # {} /\ ~s.rows_live)
<1>1. UpdateSensitivity(s) = [s EXCEPT !.freed_read = x] BY Zenon DEF UpdateSensitivity, ReadRows
<1>2. DOMAIN s = Fields /\ s.freed_read \in BOOLEAN /\ s.rows_live \in BOOLEAN /\ s.selected_then \in BOOLEAN
 BY Zenon DEF Good, Window
<1>3. x \in BOOLEAN /\ (x => s.selected_then) BY Zenon, <1>2 DEF Good, Read
<1> HIDE DEF x
<1> DEFINE t == [s EXCEPT !.freed_read = x]
<1>4. Apart({"freed_read"}, s, t) /\ t.freed_read = x BY <1>2 DEF Apart, Fields
<1> HIDE DEF t
<1>5. Window(t) /\ Location(t) = Location(s) BY <1>3, <1>4 DEF Good, Window, Apart, Fields, Location
<1>6. Read(t) BY <1>3, <1>4 DEF Good, Read, Apart, Fields
<1> QED BY <1>1, <1>4, <1>5, <1>6 DEF Good, t

LEMMA StartActivityIs ==
    ASSUME NEW s, Good(s)
    PROVE  /\ Good(StartActivity(s)) /\ Apart({"freed_read", "activity_ref"}, s, StartActivity(s))
           /\ Location(StartActivity(s)) = Location(s)
           /\ StartActivity(s).activity_ref = s.activity_ref + 1
<1> DEFINE t == [s EXCEPT !.activity_ref = s.activity_ref + 1]
<1>1. StartActivity(s) \in {t, UpdateSensitivity(t)} BY DEF StartActivity
<1>2. DOMAIN s = Fields /\ s.activity_ref \in Nat BY Zenon DEF Good, Window
<1>3. Apart({"activity_ref"}, s, t) /\ t.activity_ref = s.activity_ref + 1 BY <1>2 DEF Apart, Fields
<1> HIDE DEF t
<1>4. Window(t) /\ Location(t) = Location(s) /\ Read(t)
 <2>1. Window(t) BY <1>2, <1>3 DEF Good, Window, Apart, Fields
 <2>2. Location(t) = Location(s) BY <1>2, <1>3 DEF Apart, Fields, Location
 <2>3. Read(t) BY <1>2, <1>3 DEF Good, Read, Apart, Fields
 <2> QED BY <2>1, <2>2, <2>3
<1>5. /\ Good(t) /\ Good(UpdateSensitivity(t)) /\ Apart({"freed_read"}, t, UpdateSensitivity(t))
      /\ Location(UpdateSensitivity(t)) = Location(t)
 BY <1>4, UpdateSensitivityIs DEF Good
<1>6. CASE StartActivity(s) = t BY <1>3, <1>4, <1>5, <1>6 DEF Apart
<1>7. CASE StartActivity(s) = UpdateSensitivity(t)
 <2> DEFINE u == UpdateSensitivity(t)
 <2> HIDE DEF u
 <2>1. Apart({"freed_read"}, t, u) BY <1>5 DEF u
 <2>2. Apart({"freed_read", "activity_ref"}, s, u) /\ u.activity_ref = s.activity_ref + 1
  BY <1>3, <2>1 DEF Apart, Fields
 <2> QED BY <1>4, <1>5, <1>7, <2>2 DEF u
<1> QED BY <1>1, <1>6, <1>7

LEMMA StopActivityIs ==
    ASSUME NEW s, Good(s), s.activity_ref > 0
    PROVE  /\ Good(StopActivity(s)) /\ Apart({"freed_read", "activity_ref"}, s, StopActivity(s))
           /\ Location(StopActivity(s)) = Location(s)
           /\ StopActivity(s).activity_ref = s.activity_ref - 1
<1> DEFINE t == [s EXCEPT !.activity_ref = s.activity_ref - 1]
<1>2. DOMAIN s = Fields /\ s.activity_ref \in Nat BY Zenon DEF Good, Window
<1>1. StopActivity(s) \in {t, UpdateSensitivity(t)} BY <1>2 DEF StopActivity
<1>3. Apart({"activity_ref"}, s, t) /\ t.activity_ref = s.activity_ref - 1 BY <1>2 DEF Apart, Fields
<1> HIDE DEF t
<1>4. Window(t) /\ Location(t) = Location(s) /\ Read(t)
 <2>1. Window(t) BY <1>2, <1>3 DEF Good, Window, Apart, Fields
 <2>2. Location(t) = Location(s) BY <1>2, <1>3 DEF Apart, Fields, Location
 <2>3. Read(t) BY <1>2, <1>3 DEF Good, Read, Apart, Fields
 <2> QED BY <2>1, <2>2, <2>3
<1>5. /\ Good(t) /\ Good(UpdateSensitivity(t)) /\ Apart({"freed_read"}, t, UpdateSensitivity(t))
      /\ Location(UpdateSensitivity(t)) = Location(t)
 BY <1>4, UpdateSensitivityIs DEF Good
<1>6. CASE StopActivity(s) = t BY <1>3, <1>4, <1>5, <1>6 DEF Apart
<1>7. CASE StopActivity(s) = UpdateSensitivity(t)
 <2> DEFINE u == UpdateSensitivity(t)
 <2> HIDE DEF u
 <2>1. Apart({"freed_read"}, t, u) BY <1>5 DEF u
 <2>2. Apart({"freed_read", "activity_ref"}, s, u) /\ u.activity_ref = s.activity_ref - 1
  BY <1>3, <2>1 DEF Apart, Fields
 <2> QED BY <1>4, <1>5, <1>7, <2>2 DEF u
<1> QED BY <1>1, <1>6, <1>7

LEMMA ClearListIs ==
    ASSUME NEW s, Good(s)
    PROVE  /\ Good(ClearList(s))
           /\ Apart({"freed_read", "rows", "selected", "refs", "rows_live"}, s, ClearList(s))
           /\ Location(ClearList(s)) = Location(s)
           /\ ClearList(s).rows = {} /\ ClearList(s).selected = {} /\ ClearList(s).refs = {}
           /\ ClearList(s).rows_live
<1>1. PICK t : /\ t \in {s, UpdateSensitivity(s)}
               /\ ClearList(s) = [t EXCEPT !.rows = {}, !.selected = {}, !.refs = {}, !.rows_live = TRUE]
 BY DEF ClearList
<1>2. Good(t) /\ Apart({"freed_read"}, s, t) /\ Location(t) = Location(s)
 <2>1. Apart({"freed_read"}, s, s) BY Zenon DEF Good, Window, Apart
 <2> QED BY <1>1, <2>1, UpdateSensitivityIs
<1>3. DOMAIN t = Fields BY <1>2 DEF Apart
<1> DEFINE u == [t EXCEPT !.rows = {}, !.selected = {}, !.refs = {}, !.rows_live = TRUE]
<1>4. /\ Apart({"rows", "selected", "refs", "rows_live"}, t, u)
      /\ u.rows = {} /\ u.selected = {} /\ u.refs = {} /\ u.rows_live = TRUE
 BY <1>3 DEF Apart, Fields
<1> HIDE DEF u
<1>5. Window(u) /\ Location(u) = Location(t) /\ Read(u)
 <2>1. Window(u) BY <1>2, <1>4 DEF Good, Window, Apart, Fields
 <2>2. Location(u) = Location(t) BY <1>2, <1>4 DEF Apart, Fields, Location
 <2>3. Read(u) BY <1>2, <1>4 DEF Good, Read, Apart, Fields
 <2> QED BY <2>1, <2>2, <2>3
<1>6. Apart({"freed_read", "rows", "selected", "refs", "rows_live"}, s, u) BY <1>2, <1>4 DEF Apart
<1> QED BY <1>1, <1>2, <1>4, <1>5, <1>6 DEF Good, u

----
(* The history. *)

LEMMA HistoryAddIs ==
    ASSUME NEW s, Good(s), NEW location \in Seq(Names)
    PROVE  /\ Good(HistoryAdd(s, location))
           /\ Apart({"history", "history_current"}, s, HistoryAdd(s, location))
           /\ Location(HistoryAdd(s, location)) = location
           /\ HistoryAdd(s, location).history_current > 0
<1>1. /\ DOMAIN s = Fields /\ s.history \in Seq(Seq(Names)) /\ s.history_current \in 0..Len(s.history)
 BY Zenon DEF Good, Window
<1>2. CASE s.history_current # 0 /\ Location(s) = location
 <2>1. HistoryAdd(s, location) = s BY <1>2 DEF HistoryAdd
 <2>2. Apart({"history", "history_current"}, s, s) /\ s.history_current > 0 BY <1>1, <1>2 DEF Apart
 <2> QED BY <1>2, <2>1, <2>2
<1>3. CASE ~(s.history_current # 0 /\ Location(s) = location)
 <2> DEFINE again == IF s.history_current > 1 THEN Reverse(SubSeq(s.history, 2, s.history_current)) ELSE <<>>
            longer == <<location>> \o again \o s.history
            t == [s EXCEPT !.history = longer, !.history_current = 1]
 <2>1. HistoryAdd(s, location) = t BY <1>3 DEF HistoryAdd
 <2>2. again \in Seq(Seq(Names))
  <3>1. CASE s.history_current > 1
   <4> DEFINE part == SubSeq(s.history, 2, s.history_current)
   <4>1. part \in Seq(Seq(Names)) BY <1>1, <3>1
   <4> HIDE DEF part
   <4>2. Reverse(part) \in Seq(Seq(Names)) BY <4>1 DEF Reverse
   <4> QED BY <3>1, <4>2 DEF part
  <3>2. CASE ~(s.history_current > 1) BY <3>2
  <3> QED BY <3>1, <3>2
 <2> HIDE DEF again
 <2>3. longer \in Seq(Seq(Names)) /\ longer[1] = location /\ Len(longer) >= 1
  <3> DEFINE some == <<location>> \o again
  <3>1. <<location>> \in Seq(Seq(Names)) /\ Len(<<location>>) = 1 /\ <<location>>[1] = location
   OBVIOUS
  <3>2. some \in Seq(Seq(Names)) /\ some[1] = location /\ Len(some) >= 1 BY <2>2, <3>1
  <3> HIDE DEF some
  <3>3. some \o s.history \in Seq(Seq(Names)) /\ (some \o s.history)[1] = location /\ Len(some \o s.history) >= 1
   BY <1>1, <3>2
  <3> QED BY <3>3 DEF some
 <2> HIDE DEF longer
 <2>4. Apart({"history", "history_current"}, s, t) /\ t.history = longer /\ t.history_current = 1
  BY <1>1 DEF Apart, Fields
 <2> HIDE DEF t
 <2>5. Window(t) /\ Location(t) = location /\ Read(t)
  <3>1. Window(t) BY <2>3, <2>4 DEF Good, Window, Apart, Fields
  <3>2. Location(t) = location BY <2>3, <2>4 DEF Apart, Fields, Location
  <3>3. Read(t) BY <2>3, <2>4 DEF Good, Read, Apart, Fields
  <3> QED BY <3>1, <3>2, <3>3
 <2> QED BY <2>1, <2>4, <2>5 DEF Good
<1> QED BY <1>2, <1>3

LEMMA HistoryPopIs ==
    ASSUME NEW s, Good(s)
    PROVE  Good(HistoryPop(s)) /\ Apart({"history", "history_current"}, s, HistoryPop(s))
<1>1. /\ DOMAIN s = Fields /\ s.history \in Seq(Seq(Names)) /\ s.history_current \in 0..Len(s.history)
 BY Zenon DEF Good, Window
<1>2. CASE s.history = <<>> BY <1>1, <1>2 DEF HistoryPop, Apart
<1>3. CASE s.history # <<>>
 <2> DEFINE n == IF s.history_current > 1 THEN s.history_current - 1
                 ELSE IF Len(s.history) > 1 THEN s.history_current ELSE 0
            t == [s EXCEPT !.history = Tail(s.history), !.history_current = n]
 <2>1. HistoryPop(s) = t BY <1>3 DEF HistoryPop
 <2>2. Tail(s.history) \in Seq(Seq(Names)) /\ n \in 0..Len(Tail(s.history)) BY <1>1, <1>3
 <2> HIDE DEF n
 <2>3. Apart({"history", "history_current"}, s, t) /\ t.history = Tail(s.history) /\ t.history_current = n
  BY <1>1 DEF Apart, Fields
 <2> HIDE DEF t
 <2>4. Window(t) /\ Read(t)
  <3>1. Window(t) BY <2>2, <2>3 DEF Good, Window, Apart, Fields
  <3>2. Read(t) BY <2>2, <2>3 DEF Good, Read, Apart, Fields
  <3> QED BY <3>1, <3>2
 <2> QED BY <2>1, <2>3, <2>4 DEF Good
<1> QED BY <1>2, <1>3

LEMMA LocatedIs ==
    ASSUME NEW s, Good(s)
    PROVE  /\ Good(Located(s)) /\ Apart({"history", "history_current"}, s, Located(s))
           /\ Location(Located(s)) = Location(s)
<1>1. CASE s.history_current = 0
 <2>1. <<>> \in Seq(Names) /\ Location(s) = <<>> /\ Located(s) = HistoryAdd(s, <<>>)
  BY <1>1 DEF Location, Located
 <2> QED BY <2>1, HistoryAddIs
<1>2. CASE s.history_current # 0 BY <1>2 DEF Located, Apart, Good, Window
<1> QED BY <1>1, <1>2

LEMMA HistoryClearIs ==
    ASSUME NEW s, Good(s)
    PROVE  /\ Good(HistoryClear(s))
           /\ Apart({"history", "history_current", "last_location"}, s, HistoryClear(s))
           /\ HistoryClear(s).last_location = None /\ Location(HistoryClear(s)) = <<>>
<1> DEFINE t == HistoryClear(s)
<1>1. DOMAIN s = Fields BY Zenon DEF Good, Window
<1>2. /\ Apart({"history", "history_current", "last_location"}, s, t)
      /\ t.history = <<>> /\ t.history_current = 0 /\ t.last_location = None
 BY <1>1 DEF Apart, Fields, HistoryClear
<1> HIDE DEF t
<1>3. Window(t) /\ Read(t) /\ Location(t) = <<>>
 <2>1. Window(t) BY <1>2 DEF Good, Window, Apart, Fields
 <2>2. Read(t) BY <1>2 DEF Good, Read, Apart, Fields
 <2>3. Location(t) = <<>> BY <1>2 DEF Apart, Fields, Location
 <2> QED BY <2>1, <2>2, <2>3
<1> QED BY <1>2, <1>3 DEF Good, t

----
(* Going up. The way up to the nearest folder that there is. *)

----
(* Going up to a folder that there is. *)

\* One folder up after the other.
GoneUp(f, t, here, n) ==
    f = [i \in 0..n |-> IF i = 0 THEN t
                        ELSE HistoryAdd(HistoryPop(f[i - 1]), SubSeq(here, 1, Len(here) - i))]

LEMMA GoneUpExists ==
    ASSUME NEW t, NEW here
    PROVE  \A n \in Nat : \E f : GoneUp(f, t, here, n)
<1> DEFINE Step(s, i) == HistoryAdd(HistoryPop(s), SubSeq(here, 1, Len(here) - i))
           Fails == {n \in Nat : ~\E f : GoneUp(f, t, here, n)}
<1>1. SUFFICES ASSUME Fails # {} PROVE FALSE OBVIOUS
<1>2. PICK n \in Fails : \A m \in Fails : ~(m < n) BY <1>1, SmallestOf
<1>3. CASE n = 0
 <2> DEFINE f == [i \in 0..0 |-> t]
 <2>1. f = [i \in 0..0 |-> IF i = 0 THEN t ELSE Step(f[i - 1], i)] OBVIOUS
 <2>2. GoneUp(f, t, here, n) BY <1>3, <2>1 DEF GoneUp
 <2> QED BY <1>2, <2>2
<1>4. CASE n # 0
 <2>1. n \in Nat /\ n - 1 \in Nat /\ n - 1 < n BY <1>2, <1>4
 <2>2. PICK g : GoneUp(g, t, here, n - 1) BY <1>2, <2>1
 <2> DEFINE f == [i \in 0..n |-> IF i = n THEN Step(g[n - 1], n) ELSE g[i]]
 <2> HIDE DEF Step
 <2>3. g = [i \in 0..(n - 1) |-> IF i = 0 THEN t ELSE Step(g[i - 1], i)] BY <2>2 DEF GoneUp, Step
 <2>4. \A i \in 0..(n - 1) : g[i] = IF i = 0 THEN t ELSE Step(g[i - 1], i) BY <2>3
 <2>5. \A i \in 0..(n - 1) : f[i] = g[i] BY <2>1
 <2>6. ASSUME NEW i \in 0..n
       PROVE  f[i] = IF i = 0 THEN t ELSE Step(f[i - 1], i)
  <3>1. CASE i = n
   <4>1. f[i - 1] = g[n - 1] /\ i # 0 BY <1>4, <2>1, <2>5, <3>1
   <4> QED BY <3>1, <4>1
  <3>2. CASE i # n
   <4>1. i \in 0..(n - 1) /\ (i # 0 => i - 1 \in 0..(n - 1)) BY <2>1, <3>2
   <4> QED BY <2>4, <2>5, <4>1
  <3> QED BY <3>1, <3>2
 <2> DEFINE h == [i \in 0..n |-> IF i = 0 THEN t ELSE Step(f[i - 1], i)]
 <2>7. f = h
  <3> QED BY <2>6
 <2> HIDE DEF f
 <2>8. GoneUp(f, t, here, n) BY <2>7 DEF GoneUp, Step
 <2> QED BY <1>2, <2>8
<1> QED BY <1>3, <1>4

LEMMA GoneUpIs ==
    ASSUME NEW t, Good(t), NEW n \in 0..Len(Location(t)), NEW f, GoneUp(f, t, Location(t), n)
    PROVE  /\ Good(f[n]) /\ Apart({"history", "history_current"}, t, f[n])
           /\ Location(f[n]) = SubSeq(Location(t), 1, Len(Location(t)) - n)
<1> DEFINE here == Location(t)
           Holds(i) == /\ Good(f[i]) /\ Apart({"history", "history_current"}, t, f[i])
                       /\ Location(f[i]) = SubSeq(here, 1, Len(here) - i)
           Fails == {i \in Nat : i <= n /\ ~Holds(i)}
<1>1. here \in Seq(Names) /\ Len(here) \in Nat /\ n \in Nat BY LocationTyped DEF Good
<1> HIDE DEF here
<1>2. \A i \in 0..n : f[i] = IF i = 0 THEN t ELSE HistoryAdd(HistoryPop(f[i - 1]), SubSeq(here, 1, Len(here) - i))
 BY DEF GoneUp, here
<1>3. ASSUME Fails # {} PROVE FALSE
 <2>1. PICK i \in Fails : \A j \in Fails : ~(j < i) BY <1>3, SmallestOf
 <2>2. i \in 0..n BY <1>1, <2>1
 <2>3. CASE i = 0
  <3>1. f[i] = t /\ SubSeq(here, 1, Len(here) - i) = here BY <1>1, <1>2, <2>2, <2>3
  <3>2. Apart({"history", "history_current"}, t, t) BY Zenon DEF Good, Window, Apart
  <3>3. Holds(i) BY <3>1, <3>2 DEF here
  <3> QED BY <2>1, <3>3
 <2>4. CASE i # 0
  <3>1. i - 1 \in Nat /\ i - 1 <= n /\ i - 1 < i BY <1>1, <2>2, <2>4
  <3>2. Holds(i - 1) BY <2>1, <3>1
  <3> DEFINE u == HistoryPop(f[i - 1])
             parent == SubSeq(here, 1, Len(here) - i)
  <3>3. Good(u) /\ Apart({"history", "history_current"}, f[i - 1], u) BY <3>2, HistoryPopIs
  <3>4. n <= Len(here) BY <1>1 DEF here
  <3>5. parent \in Seq(Names) BY <1>1, <2>2, <3>4, FrontIs
  <3> HIDE DEF u, parent
  <3>6. /\ Good(HistoryAdd(u, parent)) /\ Apart({"history", "history_current"}, u, HistoryAdd(u, parent))
        /\ Location(HistoryAdd(u, parent)) = parent
   BY <3>3, <3>5, HistoryAddIs
  <3>7. f[i] = HistoryAdd(u, parent) BY <1>2, <2>2, <2>4 DEF u, parent
  <3>8. Apart({"history", "history_current"}, t, f[i]) BY <3>2, <3>3, <3>6, <3>7 DEF Apart
  <3>9. Holds(i) BY <3>6, <3>7, <3>8 DEF parent
  <3> QED BY <2>1, <3>9
 <2> QED BY <2>3, <2>4
<1> QED BY <1>1, <1>3 DEF here

\* The deepest folder on the way that there is.
Depths(s) == {i \in 0..Len(Location(s)) : DirExists(s.files, SubSeq(Location(s), 1, i))}
DepthOf(s) == IF s.list_mode = "FLAT" THEN Len(Location(s))
              ELSE CHOOSE i \in Depths(s) : \A j \in Depths(s) : j <= i

Near(files, was, here) ==
    \E d \in 0..Len(was) :
       /\ here = SubSeq(was, 1, d) /\ DirExists(files, here)
       /\ \A i \in (d + 1)..Len(was) : ~DirExists(files, SubSeq(was, 1, i))

LEMMA DepthIs ==
    ASSUME NEW s, Window(s)
    PROVE  /\ DepthOf(s) \in 0..Len(Location(s))
           /\ s.list_mode # "FLAT" => Near(s.files, Location(s), SubSeq(Location(s), 1, DepthOf(s)))
           /\ s.list_mode = "FLAT" => SubSeq(Location(s), 1, DepthOf(s)) = Location(s)
<1> DEFINE here == Location(s)
<1>1. here \in Seq(Names) /\ Len(here) \in Nat BY LocationTyped
<1> HIDE DEF here
<1>2. CASE s.list_mode = "FLAT" BY <1>1, <1>2 DEF DepthOf, here
<1>3. CASE s.list_mode # "FLAT"
 <2> DEFINE T == {Len(here) - i : i \in Depths(s)}
 <2>1. Depths(s) \subseteq 0..Len(here) BY DEF Depths, here
 <2>2. 0 \in Depths(s)
  <3>1. SubSeq(here, 1, 0) = <<>> BY <1>1
  <3> QED BY <1>1, <3>1 DEF Depths, DirExists, here
 <2>3. T \in SUBSET Nat /\ T # {} BY <1>1, <2>1, <2>2
 <2>4. PICK x \in T : \A y \in T : ~(y < x) BY <2>3, SmallestOf
 <2>5. PICK i \in Depths(s) : x = Len(here) - i BY <2>4
 <2>6. \A j \in Depths(s) : j <= i
  <3> SUFFICES ASSUME NEW j \in Depths(s) PROVE j <= i OBVIOUS
  <3>1. ~(Len(here) - j < Len(here) - i) BY <2>4, <2>5
  <3> QED BY <1>1, <2>1, <3>1
 <2>7. DepthOf(s) \in Depths(s) /\ \A j \in Depths(s) : j <= DepthOf(s) BY <1>3, <2>6 DEF DepthOf
 <2> DEFINE d == DepthOf(s)
 <2> HIDE DEF d
 <2>8. d \in 0..Len(here) /\ DirExists(s.files, SubSeq(here, 1, d)) BY <2>7 DEF Depths, here, d
 <2>9. \A i1 \in (d + 1)..Len(here) : ~DirExists(s.files, SubSeq(here, 1, i1))
  <3> SUFFICES ASSUME NEW i1 \in (d + 1)..Len(here) PROVE ~DirExists(s.files, SubSeq(here, 1, i1))
   OBVIOUS
  <3>1. i1 \in 0..Len(here) /\ ~(i1 <= d) BY <1>1, <2>8
  <3>2. i1 \notin Depths(s) BY <2>7, <3>1 DEF d
  <3> QED BY <3>1, <3>2 DEF Depths, here
 <2> QED BY <1>3, <2>8, <2>9 DEF Near, here, d
<1> QED BY <1>2, <1>3

\* The window gone up.
UpTo(s) ==
    LET up[i \in 0..(Len(Location(s)) - DepthOf(s))] ==
          IF i = 0 THEN s
          ELSE HistoryAdd(HistoryPop(up[i - 1]), SubSeq(Location(s), 1, Len(Location(s)) - i))
    IN up[Len(Location(s)) - DepthOf(s)]

LEMMA UpToIs ==
    ASSUME NEW s, Good(s)
    PROVE  /\ Good(UpTo(s)) /\ Apart({"history", "history_current"}, s, UpTo(s))
           /\ Location(UpTo(s)) = SubSeq(Location(s), 1, DepthOf(s))
<1> DEFINE here == Location(s)
           n == Len(here) - DepthOf(s)
           f == CHOOSE g : GoneUp(g, s, here, n)
<1>1. here \in Seq(Names) /\ Len(here) \in Nat /\ DepthOf(s) \in 0..Len(here)
 BY LocationTyped, DepthIs DEF Good
<1>2. n \in 0..Len(here) /\ n \in Nat /\ Len(here) - n = DepthOf(s) BY <1>1
<1>3. UpTo(s) = f[n] BY Zenon DEF UpTo, GoneUp
<1> HIDE DEF n
<1>4. GoneUp(f, s, here, n) BY <1>2, GoneUpExists
<1> HIDE DEF f, here
<1>5. /\ Good(f[n]) /\ Apart({"history", "history_current"}, s, f[n])
      /\ Location(f[n]) = SubSeq(here, 1, Len(here) - n)
 BY <1>2, <1>4, GoneUpIs DEF here
<1> QED BY <1>2, <1>3, <1>5 DEF here

----
(* The list made, and shown. *)

LEMMA ComputeListNamesIs ==
    ASSUME NEW s, Good(s)
    PROVE  /\ Good(ComputeListNames(s)) /\ Apart({"names"}, s, ComputeListNames(s))
           /\ Location(ComputeListNames(s)) = Location(s)
           /\ ComputeListNames(s).names = {NameAt(s, i) : i \in NamedOf(s)}
<1> DEFINE names == {NameAt(s, i) : i \in NamedOf(s)}
           t == [s EXCEPT !.names = names]
<1>1. ComputeListNames(s) = t BY ListNamesAre
<1>2. DOMAIN s = Fields BY Zenon DEF Good, Window
<1>3. \A m \in names : m.entry.path \in Paths /\ m.name \in Names BY NamesTyped DEF Good
<1>6. \A m \in names : m.entry \in Range(s.files)
 <2>1. NamedOf(s) \subseteq DOMAIN s.files BY DEF NamedOf
 <2>2. \A i : NameAt(s, i).entry = s.files[i] BY DEF NameAt
 <2> QED BY <2>1, <2>2, InRange
<1> HIDE DEF names
<1>4. Apart({"names"}, s, t) /\ t.names = names BY <1>2 DEF Apart, Fields
<1> HIDE DEF t
<1>5. Window(t) /\ Read(t) /\ Location(t) = Location(s)
 <2>1. Window(t) BY <1>3, <1>4, <1>6 DEF Good, Window, Apart, Fields
 <2>2. Read(t) BY <1>3, <1>4, <1>6 DEF Good, Read, Apart, Fields
 <2>3. Location(t) = Location(s) BY <1>3, <1>4, <1>6 DEF Apart, Fields, Location
 <2> QED BY <2>1, <2>2, <2>3
<1> QED BY <1>1, <1>4, <1>5 DEF Good, names

RowOf(s, m) == [entry |-> m.entry,
                shown |-> Append(IF m.list_dir THEN Location(s) ELSE Front(m.entry.path), m.name)]

LEMMA PopulateFileListIs ==
    ASSUME NEW s, Good(s), s.activity_ref > 0
    PROVE  LET t == PopulateFileList(s)
           IN /\ Good(t)
              /\ Apart({"freed_read", "rows", "selected", "refs", "rows_live", "activity_ref"}, s, t)
              /\ Location(t) = Location(s) /\ t.activity_ref = s.activity_ref - 1
              /\ t.selected = {} /\ t.refs = {} /\ t.rows_live
              /\ t.rows = {RowOf(s, m) : m \in s.names}
<1> DEFINE rows == {RowOf(s, m) : m \in s.names}
           c == ClearList(s)
           u == [c EXCEPT !.rows = rows]
           t == StopActivity(u)
<1>1. PopulateFileList(s) = t BY Zenon DEF PopulateFileList, RowOf
<1>2. /\ Good(c) /\ Apart({"freed_read", "rows", "selected", "refs", "rows_live"}, s, c)
      /\ Location(c) = Location(s) /\ c.selected = {} /\ c.refs = {} /\ c.rows_live
 BY ClearListIs
<1> HIDE DEF c
<1>3. \A row \in rows : row.entry.path \in Paths /\ row.entry \in Range(s.files)
 BY DEF RowOf, Good, Window, Read
<1> HIDE DEF rows
<1>4. DOMAIN c = Fields BY <1>2 DEF Apart
<1>5. Apart({"rows"}, c, u) /\ u.rows = rows BY <1>4 DEF Apart, Fields
<1> HIDE DEF u
<1>6. Window(u) /\ Read(u) /\ Location(u) = Location(c)
 <2>1. Window(u) /\ Location(u) = Location(c)
  BY <1>2, <1>3, <1>5 DEF Good, Window, Apart, Fields, Location
 <2>2. c.files = s.files /\ c.names = s.names BY <1>2 DEF Apart, Fields
 <2>3. Read(u) BY <1>2, <1>3, <1>5, <2>2 DEF Good, Read, Apart, Fields
 <2> QED BY <2>1, <2>3
<1>7. u.activity_ref = s.activity_ref BY <1>2, <1>5 DEF Apart, Fields
<1>8. /\ Good(t) /\ Apart({"freed_read", "activity_ref"}, u, t) /\ Location(t) = Location(u)
      /\ t.activity_ref = u.activity_ref - 1
 BY <1>6, <1>7, StopActivityIs DEF Good
<1> HIDE DEF t
<1>9. Apart({"freed_read", "rows", "selected", "refs", "rows_live", "activity_ref"}, s, t)
 BY <1>2, <1>5, <1>8 DEF Apart
<1>10. t.rows = rows /\ t.selected = {} /\ t.refs = {} /\ t.rows_live
 BY <1>2, <1>5, <1>8 DEF Apart, Fields
<1> QED BY <1>1, <1>2, <1>6, <1>7, <1>8, <1>9, <1>10 DEF rows

Gone(s) == UpTo(Located(StartActivity(s)))

LEMMA GoneIs ==
    ASSUME NEW s, Good(s)
    PROVE  /\ Good(Gone(s)) /\ Gone(s).activity_ref = s.activity_ref + 1
           /\ Apart({"freed_read", "activity_ref", "history", "history_current"}, s, Gone(s))
           /\ s.list_mode # "FLAT" => Near(s.files, Location(s), Location(Gone(s)))
           /\ s.list_mode = "FLAT" => Location(Gone(s)) = Location(s)
<1> DEFINE a == StartActivity(s)
           t == Located(a)
           v == UpTo(t)
<1>1. /\ Good(a) /\ Apart({"freed_read", "activity_ref"}, s, a)
      /\ Location(a) = Location(s) /\ a.activity_ref = s.activity_ref + 1
 BY StartActivityIs
<1> HIDE DEF a
<1>2. /\ Good(t) /\ Apart({"history", "history_current"}, a, t) /\ Location(t) = Location(s)
 BY <1>1, LocatedIs
<1> HIDE DEF t
<1>3. /\ Good(v) /\ Apart({"history", "history_current"}, t, v)
      /\ Location(v) = SubSeq(Location(t), 1, DepthOf(t))
 BY <1>2, UpToIs
<1> HIDE DEF v
<1>4. t.files = s.files /\ t.list_mode = s.list_mode BY <1>1, <1>2 DEF Apart, Fields
<1>5. /\ t.list_mode # "FLAT" => Near(t.files, Location(t), SubSeq(Location(t), 1, DepthOf(t)))
      /\ t.list_mode = "FLAT" => SubSeq(Location(t), 1, DepthOf(t)) = Location(t)
 BY <1>2, DepthIs DEF Good
<1>6. Apart({"freed_read", "activity_ref", "history", "history_current"}, s, v)
 BY <1>1, <1>2, <1>3 DEF Apart
<1>7. v.activity_ref = s.activity_ref + 1 BY <1>1, <1>2, <1>3 DEF Apart, Fields
<1>8. Gone(s) = v BY DEF Gone, v, t, a
<1> QED BY <1>2, <1>3, <1>4, <1>5, <1>6, <1>7, <1>8

LEMMA UpdateFileListMakes ==
    ASSUME NEW s, s.archive_present
    PROVE  /\ UpdateFileList(s, TRUE) = PopulateFileList(ComputeListNames(Gone(s)))
           /\ UpdateFileList(s, FALSE) = ComputeListNames(Gone(s))
<1> QED BY Zenon DEF UpdateFileList, Gone, UpTo, DepthOf, Depths

\* What is named and shown is as it was made to be.
LEMMA MadeIs ==
    ASSUME NEW v, Window(v), NEW t, t.list_mode = v.list_mode, Location(t) = Location(v),
           t.names = {NameAt(v, i) : i \in NamedOf(v)},
           t.rows = {[entry |-> NameAt(v, i).entry, shown |-> ShownAt(v, i)] : i \in NamedOf(v)}
    PROVE  Made(t)
<1> DEFINE n == Len(Location(v)) + 1
<1>1. \A i \in NamedOf(v) :
        i \in DOMAIN v.files /\ (v.list_mode # "FLAT" => Under(v, i))
 BY DEF NamedOf, Named
<1>2. \A i : /\ NameAt(v, i).entry = v.files[i]
             /\ NameAt(v, i).list_dir = (v.list_mode # "FLAT" /\ Len(v.files[i].path) > n)
             /\ v.list_mode # "FLAT" => NameAt(v, i).name = v.files[i].path[n]
 BY DEF NameAt
<1>3. ASSUME NEW i \in NamedOf(v) PROVE NameMade(t, NameAt(v, i))
 <2>1. v.list_mode # "FLAT" => IsPrefix(Location(v), v.files[i].path) /\ Len(v.files[i].path) >= n
  BY <1>1 DEF Under, Inside
 <2> DEFINE m == NameAt(v, i)
 <2>2. /\ m.entry = v.files[i] /\ (v.list_mode # "FLAT" => m.name = v.files[i].path[n])
       /\ m.list_dir = (v.list_mode # "FLAT" /\ Len(v.files[i].path) > n)
  BY <1>2
 <2> HIDE DEF m
 <2> QED BY <2>1, <2>2 DEF NameMade, m
<1>4. ASSUME NEW i \in NamedOf(v)
      PROVE  RowMade(t, [entry |-> NameAt(v, i).entry, shown |-> ShownAt(v, i)])
 BY <1>1, <1>2, RowIs DEF RowMade
<1> QED BY <1>3, <1>4 DEF Made

\* fr_window_update_file_list, when it shows the list.
LEMMA UpdateFileListShows ==
    ASSUME NEW s, Good(s), s.archive_present
    PROVE  LET t == UpdateFileList(s, TRUE)
           IN /\ Good(t)
              /\ Apart({"freed_read", "rows", "selected", "refs", "rows_live", "names", "history",
                        "history_current"}, s, t)
              /\ t.selected = {} /\ t.refs = {} /\ t.rows_live
              /\ s.list_mode # "FLAT" => Near(s.files, Location(s), Location(t))
              /\ s.list_mode = "FLAT" => Location(t) = Location(s)
              /\ InOrder(s.files) => Shown(t)
<1> DEFINE v == Gone(s)
           c == ComputeListNames(v)
           t == PopulateFileList(c)
<1>1. /\ Good(v) /\ v.activity_ref = s.activity_ref + 1
      /\ Apart({"freed_read", "activity_ref", "history", "history_current"}, s, v)
      /\ s.list_mode # "FLAT" => Near(s.files, Location(s), Location(v))
      /\ s.list_mode = "FLAT" => Location(v) = Location(s)
 BY GoneIs
<1> HIDE DEF v
<1>2. /\ Good(c) /\ Apart({"names"}, v, c) /\ Location(c) = Location(v)
      /\ c.names = {NameAt(v, i) : i \in NamedOf(v)}
 BY <1>1, ComputeListNamesIs
<1> HIDE DEF c
<1>3. s.activity_ref \in Nat BY Zenon DEF Good, Window
<1>4. c.activity_ref = s.activity_ref + 1 /\ c.activity_ref > 0
 BY <1>1, <1>2, <1>3 DEF Apart, Fields
<1>5. /\ Good(t)
      /\ Apart({"freed_read", "rows", "selected", "refs", "rows_live", "activity_ref"}, c, t)
      /\ Location(t) = Location(c) /\ t.activity_ref = c.activity_ref - 1
      /\ t.selected = {} /\ t.refs = {} /\ t.rows_live
      /\ t.rows = {RowOf(c, m) : m \in c.names}
 BY <1>2, <1>4, PopulateFileListIs
<1> HIDE DEF t
<1>6. t.activity_ref = s.activity_ref BY <1>3, <1>4, <1>5
<1>7. Apart({"freed_read", "rows", "selected", "refs", "rows_live", "names", "history",
             "history_current"}, s, t)
 BY <1>1, <1>2, <1>5, <1>6 DEF Apart
<1>8. ASSUME InOrder(s.files) PROVE Shown(t)
 <2>1. v.files = s.files /\ v.list_mode = t.list_mode /\ v.filter = t.filter /\ t.files = s.files
       /\ t.names = c.names
  BY <1>1, <1>2, <1>5 DEF Apart, Fields
 <2>2. \A i : RowOf(c, NameAt(v, i)) = [entry |-> NameAt(v, i).entry, shown |-> ShownAt(v, i)]
  BY <1>2 DEF RowOf, ShownAt
 <2>3. t.rows = {[entry |-> NameAt(v, i).entry, shown |-> ShownAt(v, i)] : i \in NamedOf(v)}
  BY <1>2, <1>5, <2>2
 <2>4. ASSUME t.list_mode = "AS_DIR", t.filter = None
       PROVE  {row.shown : row \in t.rows} = Children(Range(t.files), Location(t))
  <3>1. {ShownAt(v, i) : i \in NamedOf(v)} = Children(Range(v.files), Location(v))
   BY <1>1, <1>8, <2>1, <2>4, RowsOfAFolder DEF Good
  <3>2. \A i : RowOf(c, NameAt(v, i)).shown = ShownAt(v, i) BY <2>2
  <3>3. {row.shown : row \in t.rows} = {ShownAt(v, i) : i \in NamedOf(v)} BY <1>2, <1>5, <3>2
  <3> QED BY <1>2, <1>5, <2>1, <3>1, <3>3
 <2>5. Made(t) BY <1>1, <1>2, <1>5, <2>1, <2>3, MadeIs DEF Good
 <2> QED BY <2>4, <2>5 DEF Shown
<1>9. UpdateFileList(s, TRUE) = t BY UpdateFileListMakes DEF t, c, v
<1> QED BY <1>1, <1>2, <1>5, <1>7, <1>8, <1>9

\* When it makes the list only.
LEMMA UpdateFileListHides ==
    ASSUME NEW s, Good(s), s.archive_present
    PROVE  LET t == UpdateFileList(s, FALSE)
           IN /\ Good(t) /\ t.activity_ref = s.activity_ref + 1
              /\ Apart({"freed_read", "activity_ref", "names", "history", "history_current"}, s, t)
<1> DEFINE v == Gone(s)
           t == ComputeListNames(v)
<1>1. /\ Good(v) /\ v.activity_ref = s.activity_ref + 1
      /\ Apart({"freed_read", "activity_ref", "history", "history_current"}, s, v)
 BY GoneIs
<1> HIDE DEF v
<1>2. /\ Good(t) /\ Apart({"names"}, v, t) BY <1>1, ComputeListNamesIs
<1> HIDE DEF t
<1>3. t.activity_ref = s.activity_ref + 1 BY <1>1, <1>2 DEF Apart, Fields
<1>4. Apart({"freed_read", "activity_ref", "names", "history", "history_current"}, s, t)
 BY <1>1, <1>2 DEF Apart
<1>5. UpdateFileList(s, FALSE) = t BY UpdateFileListMakes DEF t, v
<1> QED BY <1>2, <1>3, <1>4, <1>5

----
(* Moving about, and the tree. *)

\* What a move of the window may change.
ViewFields == {"freed_read", "rows", "selected", "refs", "rows_live", "names", "history",
               "history_current", "tree", "tree_selection", "last_location"}

Held(s, t) == t.refs = {} \/ (t.refs = s.refs /\ t.selected = s.selected)

Browsed(s, t) ==
    /\ Good(t) /\ Apart(ViewFields, s, t) /\ Held(s, t)
    /\ InOrder(s.files) /\ Sees(s) => Sees(t)

Stays(s, t) ==
    (s.list_mode = "FLAT" \/ DirExists(s.files, Location(s))) => Location(t) = Location(s)

LEMMA BrowsedOn ==
    ASSUME NEW s, NEW t, NEW u, Browsed(s, t), Browsed(t, u)
    PROVE  Browsed(s, u) /\ (Stays(s, t) /\ Stays(t, u) => Stays(s, u))
<1>1. Apart(ViewFields, s, u) /\ t.files = s.files /\ t.list_mode = s.list_mode
 BY DEF Browsed, Apart, ViewFields, Fields
<1>2. Held(s, u) BY DEF Browsed, Held
<1>3. Good(u) /\ (InOrder(s.files) /\ Sees(s) => Sees(u)) BY <1>1 DEF Browsed
<1>4. Stays(s, t) /\ Stays(t, u) => Stays(s, u) BY <1>1 DEF Stays
<1> QED BY <1>1, <1>2, <1>3, <1>4 DEF Browsed

LEMMA BrowsedSelf ==
    ASSUME NEW s, Good(s) PROVE Browsed(s, s) /\ Stays(s, s)
<1> QED BY Zenon DEF Good, Window, Browsed, Held, Stays, Apart

\* What a place that there is is near to.
LEMMA NearItself ==
    ASSUME NEW files, NEW was \in Seq(Names), NEW here, Near(files, was, here)
    PROVE  /\ DirExists(files, here) /\ here \in Seq(Names)
           /\ DirExists(files, was) => here = was
           /\ here # was => ~DirExists(files, was)
<1>1. PICK d \in 0..Len(was) :
        /\ here = SubSeq(was, 1, d) /\ DirExists(files, here)
        /\ \A i \in (d + 1)..Len(was) : ~DirExists(files, SubSeq(was, 1, i))
 BY DEF Near
<1>2. here \in Seq(Names) BY <1>1
<1>3. SubSeq(was, 1, Len(was)) = was OBVIOUS
<1>4. CASE d = Len(was) BY <1>1, <1>2, <1>3, <1>4
<1>5. CASE d # Len(was)
 <2>1. Len(was) \in (d + 1)..Len(was) BY <1>5
 <2>2. ~DirExists(files, was) BY <1>1, <1>3, <2>1
 <2> QED BY <1>1, <1>2, <2>2
<1> QED BY <1>4, <1>5

\* fr_window_update_file_list, shown.
LEMMA UpdateFileListIs ==
    ASSUME NEW s, Good(s)
    PROVE  LET t == UpdateFileList(s, TRUE)
           IN /\ Browsed(s, t) /\ Stays(s, t) /\ t.last_location = s.last_location
              /\ InOrder(s.files) /\ LastSeen(s) => Sees(t)
              /\ s.archive_present /\ s.list_mode # "FLAT" => Near(s.files, Location(s), Location(t))
<1> DEFINE t == UpdateFileList(s, TRUE)
<1>1. CASE ~s.archive_present
 <2>1. t = ClearList(s) BY <1>1 DEF UpdateFileList
 <2> HIDE DEF t
 <2>2. /\ Good(t) /\ Apart({"freed_read", "rows", "selected", "refs", "rows_live"}, s, t)
       /\ Location(t) = Location(s) /\ t.refs = {}
  BY <2>1, ClearListIs
 <2>3. Apart(ViewFields, s, t) /\ t.archive_present = s.archive_present
       /\ t.last_location = s.last_location
  BY <2>2 DEF Apart, ViewFields, Fields
 <2>4. Browsed(s, t) /\ Stays(s, t) /\ Sees(t) BY <1>1, <2>2, <2>3 DEF Browsed, Held, Sees, Stays
 <2> QED BY <1>1, <2>3, <2>4 DEF t
<1>2. CASE s.archive_present
 <2>1. /\ Good(t)
       /\ Apart({"freed_read", "rows", "selected", "refs", "rows_live", "names", "history",
                       "history_current"}, s, t)
       /\ t.refs = {} /\ t.rows_live
       /\ s.list_mode # "FLAT" => Near(s.files, Location(s), Location(t))
       /\ s.list_mode = "FLAT" => Location(t) = Location(s)
       /\ InOrder(s.files) => Shown(t)
  BY <1>2, UpdateFileListShows
 <2> HIDE DEF t
 <2>2. Apart(ViewFields, s, t) /\ t.last_location = s.last_location /\ t.files = s.files
  BY <2>1 DEF Apart, ViewFields, Fields
 <2>3. Location(s) \in Seq(Names) BY LocationTyped DEF Good
 <2>4. Location(t) # Location(s) => ~DirExists(s.files, Location(s)) BY <2>1, <2>3, NearItself
 <2>5. LastSeen(s) => LastSeen(t) BY <2>2, <2>4 DEF LastSeen
 <2>6. InOrder(s.files) /\ LastSeen(s) => Sees(t) BY <2>1, <2>5 DEF Sees
 <2>7. Stays(s, t) BY <2>1, <2>4 DEF Stays
 <2>8. Browsed(s, t) BY <1>2, <2>1, <2>2, <2>6 DEF Browsed, Held, Sees
 <2> QED BY <2>1, <2>2, <2>6, <2>7, <2>8 DEF t
<1> QED BY <1>1, <1>2

\* What only moves the cursor in the history, or in the tree.
LEMMA SeesAlike ==
    ASSUME NEW s, NEW t, Location(t) = Location(s), t.files = s.files, t.rows = s.rows,
           t.names = s.names, t.rows_live = s.rows_live, t.list_mode = s.list_mode, t.filter = s.filter,
           t.last_location = s.last_location, t.archive_present = s.archive_present
    PROVE  Sees(t) = Sees(s)
<1>1. Shown(t) = Shown(s) BY DEF Shown, Made, NameMade, RowMade
<1>2. LastSeen(t) = LastSeen(s) BY DEF LastSeen
<1> QED BY <1>1, <1>2 DEF Sees

LEMMA LocatedBrowsed ==
    ASSUME NEW s, Good(s)
    PROVE  Browsed(s, Located(s)) /\ Stays(s, Located(s)) /\ Location(Located(s)) = Location(s)
<1> DEFINE t == Located(s)
<1>1. Good(t) /\ Apart({"history", "history_current"}, s, t) /\ Location(t) = Location(s)
 BY LocatedIs
<1> HIDE DEF t
<1>2. /\ t.files = s.files /\ t.rows = s.rows /\ t.names = s.names /\ t.rows_live = s.rows_live
      /\ t.list_mode = s.list_mode /\ t.filter = s.filter /\ t.last_location = s.last_location
      /\ t.archive_present = s.archive_present /\ t.refs = s.refs /\ t.selected = s.selected
 BY <1>1 DEF Apart, Fields
<1>3. Sees(t) = Sees(s) BY <1>1, <1>2, SeesAlike
<1>4. Apart(ViewFields, s, t) BY <1>1 DEF Apart, ViewFields
<1> QED BY <1>1, <1>2, <1>3, <1>4 DEF Browsed, Held, Stays, t

\* Selecting in the tree.
LEMMA SelectLocationIs ==
    ASSUME NEW s, Good(s)
    PROVE  Browsed(s, SelectLocation(s)) /\ Stays(s, SelectLocation(s))
<1> DEFINE a == Located(s)
           here == Location(s)
           b == [a EXCEPT !.tree_selection = here]
           c == [b EXCEPT !.last_location = here]
           u == UpdateFileList(c, TRUE)
<1>1. SelectLocation(s) \in {a, b, u} BY Zenon DEF SelectLocation
<1>2. Good(a) /\ Browsed(s, a) /\ Stays(s, a) /\ Location(a) = here BY LocatedBrowsed DEF Browsed
<1>3. here \in Seq(Names) /\ DOMAIN a = Fields BY <1>2, LocationTyped DEF Browsed, Good, Apart
<1> HIDE DEF a, here
<1>4. Apart({"tree_selection"}, a, b) /\ b.tree_selection = here BY <1>3 DEF Apart, Fields
<1>5. DOMAIN b = Fields BY <1>4 DEF Apart
<1> HIDE DEF b
<1>6. Apart({"last_location"}, b, c) /\ c.last_location = here BY <1>5 DEF Apart, Fields
<1> HIDE DEF c
<1>7. Good(b) /\ Location(b) = here
 <2>1. Window(b) /\ Read(b) /\ Location(b) = Location(a)
  <3>1. Window(b) BY <1>2, <1>3, <1>4 DEF Good, Window, Apart, Fields
  <3>2. Read(b) BY <1>2, <1>3, <1>4 DEF Good, Read, Apart, Fields
  <3>3. Location(b) = Location(a) BY <1>2, <1>3, <1>4 DEF Apart, Fields, Location
  <3> QED BY <3>1, <3>2, <3>3
 <2> QED BY <1>2, <2>1 DEF Good
<1>8. Browsed(a, b) /\ Stays(a, b)
 <2>1. /\ b.files = a.files /\ b.rows = a.rows /\ b.names = a.names /\ b.rows_live = a.rows_live
       /\ b.list_mode = a.list_mode /\ b.filter = a.filter /\ b.last_location = a.last_location
       /\ b.archive_present = a.archive_present /\ b.refs = a.refs /\ b.selected = a.selected
  BY <1>4 DEF Apart, Fields
 <2>2. Sees(b) = Sees(a) BY <1>2, <1>7, <2>1, SeesAlike
 <2>3. Apart(ViewFields, a, b) BY <1>4 DEF Apart, ViewFields
 <2> QED BY <1>2, <1>7, <2>1, <2>2, <2>3 DEF Browsed, Held, Stays
<1>9. Browsed(s, b) /\ Stays(s, b) BY <1>2, <1>8, BrowsedOn
<1>10. Good(c) /\ Location(c) = here
 <2>1. Window(c) /\ Read(c) /\ Location(c) = Location(b)
  <3>1. Window(c) BY <1>3, <1>6, <1>7 DEF Good, Window, Apart, Fields
  <3>2. Read(c) BY <1>3, <1>6, <1>7 DEF Good, Read, Apart, Fields
  <3>3. Location(c) = Location(b) BY <1>3, <1>6, <1>7 DEF Apart, Fields, Location
  <3> QED BY <3>1, <3>2, <3>3
 <2> QED BY <1>7, <2>1 DEF Good
<1>11. /\ Browsed(c, u) /\ Stays(c, u)
       /\ InOrder(c.files) /\ LastSeen(c) => Sees(u)
 BY <1>10, UpdateFileListIs
<1> HIDE DEF u
<1>12. Browsed(s, u) /\ Stays(s, u)
 <2>1. /\ c.files = s.files /\ c.list_mode = s.list_mode /\ c.refs = b.refs /\ c.selected = b.selected
  BY <1>6, <1>9 DEF Browsed, Apart, ViewFields, Fields
 <2>2. Apart(ViewFields, s, u) BY <1>6, <1>9, <1>11 DEF Browsed, Apart, ViewFields
 <2>3. Held(s, u) BY <1>9, <1>11, <2>1 DEF Browsed, Held
 <2>4. LastSeen(c) BY <1>6, <1>10 DEF LastSeen
 <2>5. Stays(s, u) BY <1>10, <1>11, <2>1 DEF Stays, here
 <2> QED BY <1>11, <2>1, <2>2, <2>3, <2>4, <2>5 DEF Browsed
<1> QED BY <1>1, <1>2, <1>9, <1>12

LEMMA UpdateCurrentLocationIs ==
    ASSUME NEW s, Good(s)
    PROVE  Browsed(s, UpdateCurrentLocation(s)) /\ Stays(s, UpdateCurrentLocation(s))
<1> DEFINE t == SelectLocation(s)
<1>1. Browsed(s, t) /\ Stays(s, t) /\ Good(t) BY SelectLocationIs DEF Browsed
<1> HIDE DEF t
<1>2. Browsed(t, SelectLocation(t)) /\ Stays(t, SelectLocation(t)) BY <1>1, SelectLocationIs
<1> QED BY <1>1, <1>2, BrowsedOn DEF UpdateCurrentLocation, t

\* A window with another tree.
LEMMA TreeIs ==
    ASSUME NEW s, Good(s), NEW tree \in SUBSET Seq(Names)
    PROVE  LET t == [s EXCEPT !.tree = tree, !.tree_selection = None]
           IN Browsed(s, t) /\ Stays(s, t)
<1> DEFINE t == [s EXCEPT !.tree = tree, !.tree_selection = None]
<1>1. DOMAIN s = Fields BY Zenon DEF Good, Window
<1>2. Apart({"tree", "tree_selection"}, s, t) /\ t.tree = tree /\ t.tree_selection = None
 BY <1>1 DEF Apart, Fields
<1> HIDE DEF t
<1>3. Window(t) /\ Read(t) /\ Location(t) = Location(s)
 <2>1. Window(t) BY <1>2 DEF Good, Window, Apart, Fields
 <2>2. Read(t) BY <1>2 DEF Good, Read, Apart, Fields
 <2>3. Location(t) = Location(s) BY <1>2 DEF Apart, Fields, Location
 <2> QED BY <2>1, <2>2, <2>3
<1>4. /\ t.files = s.files /\ t.rows = s.rows /\ t.names = s.names /\ t.rows_live = s.rows_live
      /\ t.list_mode = s.list_mode /\ t.filter = s.filter /\ t.last_location = s.last_location
      /\ t.archive_present = s.archive_present /\ t.refs = s.refs /\ t.selected = s.selected
 BY <1>2 DEF Apart, Fields
<1>5. Sees(t) = Sees(s) BY <1>3, <1>4, SeesAlike
<1>6. Apart(ViewFields, s, t) BY <1>2 DEF Apart, ViewFields
<1> QED BY <1>3, <1>4, <1>5, <1>6 DEF Browsed, Held, Stays, Good, t

LEMMA UpdateDirTreeIs ==
    ASSUME NEW s, Good(s)
    PROVE  Browsed(s, UpdateDirTree(s)) /\ Stays(s, UpdateDirTree(s))
<1> DEFINE shown == {entry \in Range(s.files) : RespectsFilter(s, entry)}
           folders == {IF IsDir(entry) THEN entry.path ELSE Front(entry.path) : entry \in shown}
           tree == {<<>>} \cup UNION {Ancestors(path) : path \in folders}
           none == [s EXCEPT !.tree = {}, !.tree_selection = None]
           t == [s EXCEPT !.tree = tree, !.tree_selection = None]
<1>1. UpdateDirTree(s) \in {none, UpdateCurrentLocation(t)} BY Zenon DEF UpdateDirTree
<1>2. folders \subseteq Seq(Names)
 <2>1. \A entry \in shown : entry.path \in Paths BY Zenon DEF Good, Window, Entries
 <2>2. \A p \in Paths : Front(p) \in Seq(Names)
  <3> SUFFICES ASSUME NEW p \in Paths PROVE Front(p) \in Seq(Names) OBVIOUS
  <3> QED BY EmptySeq, LenProperties, FrontIs DEF Paths, Front
 <2> QED BY <2>1, <2>2 DEF Paths
<1> HIDE DEF folders
<1>3. tree \subseteq Seq(Names)
 <2>1. \A path \in Seq(Names) : Ancestors(path) \subseteq Seq(Names) BY FrontIs DEF Ancestors
 <2>2. <<>> \in Seq(Names) OBVIOUS
 <2> QED BY <1>2, <2>1, <2>2
<1> HIDE DEF tree
<1>4. Browsed(s, none) /\ Stays(s, none) BY TreeIs
<1>5. Browsed(s, t) /\ Stays(s, t) /\ Good(t) BY <1>3, TreeIs DEF Browsed
<1> HIDE DEF none, t
<1>6. Browsed(t, UpdateCurrentLocation(t)) /\ Stays(t, UpdateCurrentLocation(t))
 BY <1>5, UpdateCurrentLocationIs
<1>7. Browsed(s, UpdateCurrentLocation(t)) /\ Stays(s, UpdateCurrentLocation(t))
 BY <1>5, <1>6, BrowsedOn
<1> QED BY <1>1, <1>4, <1>7

LEMMA GoToLocationIs ==
    ASSUME NEW s, Good(s), NEW location \in Seq(Names), NEW force_update \in BOOLEAN
    PROVE  LET t == GoToLocation(s, location, force_update)
           IN /\ Good(t) /\ Apart(ViewFields, s, t) /\ Held(s, t)
              /\ ~force_update /\ s.last_location = location => t = s
              /\ force_update \/ s.last_location # location =>
                    /\ InOrder(s.files) => Sees(t)
                    /\ s.archive_present /\ s.list_mode # "FLAT" =>
                          Near(s.files, location, Location(t))
<1> DEFINE a == [s EXCEPT !.last_location = location]
           b == HistoryAdd(a, location)
           c == UpdateFileList(b, TRUE)
           t == UpdateCurrentLocation(c)
<1>1. GoToLocation(s, location, force_update)
        = IF ~force_update /\ s.last_location = location THEN s ELSE t
 BY Zenon DEF GoToLocation
<1>2. DOMAIN s = Fields BY Zenon DEF Good, Window
<1>3. Apart({"last_location"}, s, a) /\ a.last_location = location BY <1>2 DEF Apart, Fields
<1> HIDE DEF a
<1>4. Good(a)
 <2>1. Window(a) /\ Read(a)
  <3>1. Window(a) BY <1>3 DEF Good, Window, Apart, Fields
  <3>2. Read(a) BY <1>3 DEF Good, Read, Apart, Fields
  <3> QED BY <3>1, <3>2
 <2> QED BY <2>1 DEF Good
<1>5. /\ Good(b) /\ Apart({"history", "history_current"}, a, b) /\ Location(b) = location
 BY <1>4, HistoryAddIs
<1> HIDE DEF b
<1>6. Apart({"history", "history_current", "last_location"}, s, b) /\ b.last_location = location
 BY <1>3, <1>5 DEF Apart, Fields
<1>7. /\ Browsed(b, c)
      /\ InOrder(b.files) /\ LastSeen(b) => Sees(c)
      /\ b.archive_present /\ b.list_mode # "FLAT" => Near(b.files, location, Location(c))
 BY <1>5, UpdateFileListIs
<1> HIDE DEF c
<1>8. Browsed(c, t) /\ Stays(c, t) BY <1>7, UpdateCurrentLocationIs DEF Browsed
<1> HIDE DEF t
<1>9. /\ b.files = s.files /\ b.archive_present = s.archive_present /\ b.list_mode = s.list_mode
      /\ b.refs = s.refs /\ b.selected = s.selected /\ c.files = s.files
 BY <1>6, <1>7 DEF Browsed, Apart, Fields, ViewFields
<1>10. Browsed(b, t) BY <1>7, <1>8, BrowsedOn
<1>11. Apart(ViewFields, s, t) /\ Held(s, t) /\ Good(t)
 <2>1. Apart(ViewFields, s, t) BY <1>6, <1>10 DEF Browsed, Apart, ViewFields
 <2>2. Held(s, t) BY <1>9, <1>10 DEF Browsed, Held
 <2> QED BY <2>1, <2>2, <1>10 DEF Browsed
<1>12. LastSeen(b) BY <1>5, <1>6 DEF LastSeen
<1>13. InOrder(s.files) => Sees(t) BY <1>7, <1>8, <1>9, <1>12 DEF Browsed
<1>14. ASSUME s.archive_present, s.list_mode # "FLAT" PROVE Near(s.files, location, Location(t))
 <2>1. Near(s.files, location, Location(c)) BY <1>7, <1>9, <1>14
 <2>2. DirExists(c.files, Location(c)) BY <2>1, <1>9, NearItself
 <2>3. Location(t) = Location(c) BY <2>2, <1>8 DEF Stays
 <2> QED BY <2>1, <2>3
<1>15. Apart(ViewFields, s, s) /\ Held(s, s) BY <1>2 DEF Apart, Held
<1> QED BY <1>1, <1>11, <1>13, <1>14, <1>15

LEMMA RefreshIs ==
    ASSUME NEW s, Good(s)
    PROVE  Browsed(s, Refresh(s)) /\ (InOrder(s.files) /\ LastSeen(s) => Sees(Refresh(s)))
<1> DEFINE a == UpdateFileList(s, TRUE)
           b == UpdateDirTree(a)
           t == UpdateCurrentLocation(b)
<1>1. Browsed(s, a) /\ Good(a) /\ (InOrder(s.files) /\ LastSeen(s) => Sees(a))
 BY UpdateFileListIs DEF Browsed
<1> HIDE DEF a
<1>2. Browsed(a, b) /\ Good(b) BY <1>1, UpdateDirTreeIs DEF Browsed
<1> HIDE DEF b
<1>3. Browsed(b, t) BY <1>2, UpdateCurrentLocationIs
<1> HIDE DEF t
<1>4. Browsed(a, t) BY <1>2, <1>3, BrowsedOn
<1>5. Browsed(s, t) BY <1>1, <1>4, BrowsedOn
<1>6. a.files = s.files BY <1>1 DEF Browsed, Apart, Fields, ViewFields
<1>7. Refresh(s) = t BY DEF Refresh, t, b, a
<1> QED BY <1>1, <1>4, <1>5, <1>6, <1>7 DEF Browsed

\* fr_window_archive_close
LEMMA ArchiveCloseIs ==
    ASSUME NEW s, Good(s)
    PROVE  LET t == ArchiveClose(s)
           IN /\ Good(t) /\ Apart(ViewFields \cup {"archive_present"}, s, t) /\ Held(s, t)
              /\ ~t.archive_present
<1>1. CASE ~s.archive_present BY <1>1, BrowsedSelf DEF ArchiveClose, Browsed, Apart
<1>2. CASE s.archive_present
 <2> DEFINE a == UpdateSensitivity(s)
            b == HistoryClear(a)
            c == [b EXCEPT !.archive_present = FALSE]
            d == UpdateDirTree(c)
            t == UpdateCurrentLocation(d)
 <2>1. Good(a) /\ Apart({"freed_read"}, s, a) BY UpdateSensitivityIs
 <2> HIDE DEF a
 <2>2. Good(b) /\ Apart({"history", "history_current", "last_location"}, a, b)
  BY <2>1, HistoryClearIs
 <2> HIDE DEF b
 <2>3. DOMAIN b = Fields BY <2>2 DEF Apart
 <2>4. Apart({"archive_present"}, b, c) /\ c.archive_present = FALSE BY <2>3 DEF Apart, Fields
 <2>9. ArchiveClose(s) = UpdateCurrentLocation(UpdateDirTree(UpdateFileList(c, FALSE)))
  BY <1>2 DEF ArchiveClose, c, b, a
 <2> HIDE DEF c
 <2>5. Good(c)
  <3>1. Window(c) /\ Read(c)
   <4>1. Window(c) BY <2>2, <2>4 DEF Good, Window, Apart, Fields
   <4>2. Read(c) BY <2>2, <2>4 DEF Good, Read, Apart, Fields
   <4> QED BY <4>1, <4>2
  <3> QED BY <3>1 DEF Good
 <2>6. Browsed(c, d) /\ Good(d) BY <2>5, UpdateDirTreeIs DEF Browsed
 <2>10. UpdateFileList(c, FALSE) = c BY <2>4 DEF UpdateFileList
 <2>11. ArchiveClose(s) = t BY <2>9, <2>10
 <2> HIDE DEF d
 <2>7. Browsed(d, t) BY <2>6, UpdateCurrentLocationIs
 <2> HIDE DEF t
 <2>8. Browsed(c, t) BY <2>6, <2>7, BrowsedOn
 <2>12. c.refs = s.refs /\ c.selected = s.selected BY <2>1, <2>2, <2>4 DEF Apart, Fields
 <2>13. Apart(ViewFields \cup {"archive_present"}, s, t)
  BY <2>1, <2>2, <2>4, <2>8 DEF Browsed, Apart, ViewFields
 <2>14. ~t.archive_present BY <2>4, <2>8 DEF Browsed, Apart, Fields, ViewFields
 <2> QED BY <2>8, <2>11, <2>12, <2>13, <2>14 DEF Browsed, Held
<1> QED BY <1>1, <1>2

\* The listing begun: the entries are freed.
LEMMA StartLoadIs ==
    ASSUME NEW s, Good(s)
    PROVE  LET t == StartLoad(s)
           IN /\ Good(t) /\ t.activity_ref = s.activity_ref + 1
              /\ Apart({"freed_read", "activity_ref", "files", "names", "rows_live", "loading",
                        "selected_then"}, s, t)
              /\ t.files = <<>> /\ t.loading
<1> DEFINE a == StartActivity(s)
           live == s.rows = {}
           then == a.selected_then \/ s.selected # {}
           b == [a EXCEPT !.files = <<>>, !.names = {}, !.rows_live = live,
                          !.loading = TRUE, !.selected_then = then]
           c == StopActivity(b)
           d == UpdateSensitivity(c)
           t == StartActivity(d)
<1>1. StartLoad(s) = t BY Zenon DEF StartLoad
<1>2. /\ Good(a) /\ Apart({"freed_read", "activity_ref"}, s, a)
      /\ a.activity_ref = s.activity_ref + 1
 BY StartActivityIs
<1> HIDE DEF a
<1>3. DOMAIN a = Fields /\ a.selected_then \in BOOLEAN /\ live \in BOOLEAN /\ then \in BOOLEAN
 BY <1>2 DEF Good, Window
<1>4. then = (a.selected_then \/ a.selected # {}) /\ (live => a.rows = {}) BY <1>2 DEF Apart, Fields
<1> HIDE DEF live, then
<1>5. /\ Apart({"files", "names", "rows_live", "loading", "selected_then"}, a, b)
      /\ b.files = <<>> /\ b.names = {} /\ b.rows_live = live /\ b.loading = TRUE
      /\ b.selected_then = then
 BY <1>3 DEF Apart, Fields
<1> HIDE DEF b
<1>6. Window(b)
 <2>1. /\ DOMAIN b = Fields /\ b.files \in Seq(Range(b.files)) /\ Entries(Range(b.files))
  <3>1. Range(b.files) = {} /\ b.files \in Seq({}) BY <1>5 DEF Range
  <3> QED BY <1>5, <3>1 DEF Entries, Apart
 <2> QED BY <1>2, <1>3, <1>5, <2>1 DEF Good, Window, Apart, Fields
<1>7. Read(b)
 <2>1. /\ b.freed_read = a.freed_read /\ b.rows = a.rows /\ b.selected = a.selected
       /\ b.refs = a.refs
  BY <1>5 DEF Apart, Fields
 <2> QED BY <1>2, <1>3, <1>4, <1>5, <2>1 DEF Good, Read
<1>8. s.activity_ref \in Nat BY Zenon DEF Good, Window
<1>9. b.activity_ref = s.activity_ref + 1 BY <1>2, <1>5 DEF Apart, Fields
<1>10. /\ Good(c) /\ Apart({"freed_read", "activity_ref"}, b, c)
       /\ c.activity_ref = b.activity_ref - 1
 BY <1>6, <1>7, <1>8, <1>9, StopActivityIs DEF Good
<1> HIDE DEF c
<1>11. Good(d) /\ Apart({"freed_read"}, c, d) BY <1>10, UpdateSensitivityIs
<1> HIDE DEF d
<1>12. /\ Good(t) /\ Apart({"freed_read", "activity_ref"}, d, t)
       /\ t.activity_ref = d.activity_ref + 1
 BY <1>11, StartActivityIs
<1> HIDE DEF t
<1>13. d.activity_ref = c.activity_ref BY <1>11 DEF Apart, Fields
<1>14. t.activity_ref = s.activity_ref + 1 BY <1>8, <1>9, <1>10, <1>12, <1>13
<1>15. /\ Apart({"freed_read", "activity_ref", "files", "names", "rows_live", "loading",
                        "selected_then"}, s, t)
 BY <1>2, <1>5, <1>10, <1>11, <1>12 DEF Apart
<1>16. t.files = <<>> /\ t.loading BY <1>5, <1>10, <1>11, <1>12 DEF Apart, Fields
<1> QED BY <1>1, <1>12, <1>14, <1>15, <1>16

LEMMA ListingFailedIs ==
    ASSUME NEW s, Good(s), s.activity_ref > 0
    PROVE  LET t == ListingFailed(s)
           IN /\ Good(t) /\ t.activity_ref = s.activity_ref - 1 /\ Held(s, t)
              /\ Apart(ViewFields \cup {"archive_present", "loading", "activity_ref"}, s, t)
              /\ ~t.archive_present /\ ~t.loading
<1> DEFINE a == StopActivity(s)
           b == [a EXCEPT !.loading = FALSE]
           t == ArchiveClose(b)
<1>1. /\ Good(a) /\ Apart({"freed_read", "activity_ref"}, s, a)
      /\ a.activity_ref = s.activity_ref - 1
 BY StopActivityIs
<1>2. ListingFailed(s) = t BY DEF ListingFailed
<1> HIDE DEF a
<1>3. DOMAIN a = Fields BY <1>1 DEF Apart
<1>4. Apart({"loading"}, a, b) /\ b.loading = FALSE BY <1>3 DEF Apart, Fields
<1> HIDE DEF b
<1>5. Window(b) /\ Read(b)
 <2>1. Window(b) BY <1>1, <1>4 DEF Good, Window, Apart, Fields
 <2>2. Read(b) BY <1>1, <1>4 DEF Good, Read, Apart, Fields
 <2> QED BY <2>1, <2>2
<1>6. /\ Good(t) /\ Apart(ViewFields \cup {"archive_present"}, b, t) /\ Held(b, t)
      /\ ~t.archive_present
 BY <1>5, ArchiveCloseIs DEF Good
<1> HIDE DEF t
<1>7. b.refs = s.refs /\ b.selected = s.selected /\ ~t.loading /\ t.activity_ref = a.activity_ref
 BY <1>1, <1>4, <1>6 DEF Apart, Fields, ViewFields
<1>8. Apart(ViewFields \cup {"archive_present", "loading", "activity_ref"}, s, t)
 BY <1>1, <1>4, <1>6 DEF Apart, ViewFields
<1> QED BY <1>1, <1>2, <1>6, <1>7, <1>8 DEF Held

\* The listing done: sorted, and shown at the location or near it.
LEMMA ListingDoneIs ==
    ASSUME NEW s, Good(s), s.activity_ref > 0
    PROVE  LET t == ListingDone(s)
           IN /\ Good(t) /\ t.activity_ref = s.activity_ref - 1 /\ Held(s, t)
              /\ Apart(ViewFields \cup {"archive_present", "loading", "activity_ref", "files"}, s, t)
              /\ t.archive_present /\ ~t.loading
              /\ Range(t.files) = Range(s.files) /\ InOrder(t.files) /\ Sees(t)
              /\ s.archive_present /\ s.list_mode # "FLAT" =>
                    Near(t.files, Location(s), Location(t))
<1> DEFINE sorted == Sorted(s.files)
           a == StopActivity(s)
           b == [a EXCEPT !.loading = FALSE, !.files = sorted]
           c == [b EXCEPT !.archive_present = TRUE]
           h == HistoryClear(c)
           u == IF b.archive_present THEN b ELSE HistoryAdd(h, <<>>)
           l == Located(u)
           g == GoToLocation(l, Location(u), TRUE)
           d == UpdateDirTree(g)
           t == UpdateSensitivity(d)
<1>1. /\ Good(a) /\ Apart({"freed_read", "activity_ref"}, s, a) /\ Location(a) = Location(s)
      /\ a.activity_ref = s.activity_ref - 1
 BY StopActivityIs
<1>2. a.files = s.files /\ DOMAIN a = Fields BY <1>1 DEF Apart, Fields
<1>3. ListingDone(s) = t BY <1>2, Zenon DEF ListingDone
<1> HIDE DEF a
<1>4. /\ sorted \in Seq(Range(s.files)) /\ Range(sorted) = Range(s.files) /\ InOrder(sorted)
 BY Zenon, SortedIs DEF Good, Window
<1> HIDE DEF sorted
<1>5. Apart({"loading", "files"}, a, b) /\ b.loading = FALSE /\ b.files = sorted
 BY <1>2 DEF Apart, Fields
<1> HIDE DEF b
<1>6. Good(b) /\ Location(b) = Location(s)
 <2>1. Entries(Range(b.files)) /\ b.files \in Seq(Range(b.files)) BY <1>4, <1>5 DEF Good, Window
 <2>2. Window(b) /\ Location(b) = Location(a)
  BY <1>1, <1>5, <2>1 DEF Good, Window, Apart, Fields, Location
 <2>3. /\ b.freed_read = a.freed_read /\ b.rows = a.rows /\ b.selected = a.selected
       /\ b.refs = a.refs /\ b.names = a.names /\ b.rows_live = a.rows_live
       /\ b.selected_then = a.selected_then
  BY <1>5 DEF Apart, Fields
 <2>4. Range(b.files) = Range(a.files) BY <1>2, <1>4, <1>5
 <2>5. Read(b) BY <1>1, <2>3, <2>4 DEF Good, Read
 <2> QED BY <1>1, <2>2, <2>5 DEF Good
<1>7. Apart({"archive_present"}, b, c) /\ c.archive_present = TRUE
 <2> QED BY <1>5 DEF Apart, Fields
<1> HIDE DEF c
<1>8. Good(c)
 <2>1. Window(c) /\ Read(c)
  <3>1. Window(c) BY <1>6, <1>7 DEF Good, Window, Apart, Fields
  <3>2. Read(c) BY <1>6, <1>7 DEF Good, Read, Apart, Fields
  <3> QED BY <3>1, <3>2
 <2> QED BY <2>1 DEF Good
<1>9. Good(h) /\ Apart({"history", "history_current", "last_location"}, c, h)
 BY <1>8, HistoryClearIs
<1> HIDE DEF h
<1>10. /\ Good(HistoryAdd(h, <<>>)) /\ Apart({"history", "history_current"}, h, HistoryAdd(h, <<>>))
 <2>1. <<>> \in Seq(Names) OBVIOUS
 <2> QED BY <1>9, <2>1, HistoryAddIs
<1>11. /\ Good(u) /\ u.archive_present
       /\ Apart({"history", "history_current", "last_location", "archive_present"}, b, u)
       /\ b.archive_present => u = b
 <2>1. CASE b.archive_present BY <1>6, <2>1 DEF Good, Window, Apart
 <2>2. CASE ~b.archive_present
  <3>1. u = HistoryAdd(h, <<>>) BY <2>2
  <3>2. Apart({"history", "history_current", "last_location", "archive_present"}, b, u)
   BY <1>7, <1>9, <1>10, <3>1 DEF Apart
  <3>3. u.archive_present BY <1>7, <1>9, <1>10, <3>1 DEF Apart, Fields
  <3> QED BY <1>10, <2>2, <3>1, <3>2, <3>3
 <2> QED BY <2>1, <2>2
<1> HIDE DEF u
<1>12. /\ Good(l) /\ Apart({"history", "history_current"}, u, l) BY <1>11, LocatedIs
<1> HIDE DEF l
<1>13. Location(u) \in Seq(Names) BY <1>11, LocationTyped DEF Good
<1>14. /\ Good(g) /\ Apart(ViewFields, l, g) /\ Held(l, g)
       /\ InOrder(l.files) => Sees(g)
       /\ l.archive_present /\ l.list_mode # "FLAT" => Near(l.files, Location(u), Location(g))
 BY <1>12, <1>13, GoToLocationIs
<1> HIDE DEF g
<1>15. Browsed(g, d) /\ Stays(g, d) /\ Good(d) BY <1>14, UpdateDirTreeIs DEF Browsed
<1> HIDE DEF d
<1>16. Good(t) /\ Apart({"freed_read"}, d, t) /\ Location(t) = Location(d)
 BY <1>15, UpdateSensitivityIs
<1> HIDE DEF t
<1>17. /\ b.files = sorted /\ u.files = sorted /\ l.files = sorted /\ g.files = sorted
       /\ d.files = sorted /\ t.files = sorted
 BY <1>5, <1>11, <1>12, <1>14, <1>15, <1>16 DEF Browsed, Apart, Fields, ViewFields
<1>18. /\ u.archive_present = TRUE /\ l.archive_present = TRUE /\ t.archive_present = TRUE
 <2>1. u.archive_present = TRUE BY <1>11 DEF Good, Window
 <2>2. l.archive_present = TRUE BY <2>1, <1>12 DEF Apart, Fields
 <2>3. t.archive_present = TRUE BY <2>2, <1>14, <1>15, <1>16 DEF Browsed, Apart, Fields, ViewFields
 <2> QED BY <2>1, <2>2, <2>3
<1>19. /\ t.loading = FALSE /\ t.activity_ref = s.activity_ref - 1
       /\ l.list_mode = s.list_mode /\ g.list_mode = s.list_mode
       /\ l.refs = s.refs /\ l.selected = s.selected
       /\ b.archive_present = s.archive_present
 <2>1. b.archive_present = s.archive_present /\ b.activity_ref = s.activity_ref - 1
       /\ b.list_mode = s.list_mode /\ b.refs = s.refs /\ b.selected = s.selected
  BY <1>1, <1>5 DEF Apart, Fields
 <2>2. l.loading = FALSE /\ l.activity_ref = b.activity_ref /\ l.list_mode = b.list_mode
       /\ l.refs = b.refs /\ l.selected = b.selected
  BY <1>5, <1>11, <1>12 DEF Apart, Fields
 <2>3. g.loading = FALSE /\ g.activity_ref = l.activity_ref /\ g.list_mode = l.list_mode
  BY <2>2, <1>14 DEF Apart, Fields, ViewFields
 <2>4. t.loading = FALSE /\ t.activity_ref = g.activity_ref
  BY <2>3, <1>15, <1>16 DEF Browsed, Apart, Fields, ViewFields
 <2> QED BY <2>1, <2>2, <2>3, <2>4
<1>20. Held(s, t)
 <2>1. t.refs = d.refs /\ t.selected = d.selected BY <1>16 DEF Apart, Fields
 <2> QED BY <2>1, <1>14, <1>15, <1>19 DEF Browsed, Held
<1>21. Apart(ViewFields \cup {"archive_present", "loading", "activity_ref", "files"}, s, t)
 <2>1. Apart(ViewFields \cup {"archive_present", "loading", "activity_ref", "files"}, s, l)
  BY <1>1, <1>5, <1>11, <1>12 DEF Apart, ViewFields
 <2>2. Apart(ViewFields, l, t) BY <1>14, <1>15, <1>16 DEF Browsed, Apart, ViewFields
 <2> QED BY <2>1, <2>2 DEF Apart
<1>22. Sees(t)
 <2>1. Sees(d) BY <1>4, <1>14, <1>15, <1>17 DEF Browsed
 <2>2. /\ t.rows = d.rows /\ t.names = d.names /\ t.rows_live = d.rows_live /\ t.list_mode = d.list_mode
       /\ t.filter = d.filter /\ t.last_location = d.last_location
       /\ t.archive_present = d.archive_present
  BY <1>16 DEF Apart, Fields
 <2> QED BY <1>16, <1>17, <2>1, <2>2, SeesAlike
<1>23. ASSUME s.archive_present, s.list_mode # "FLAT" PROVE Near(t.files, Location(s), Location(t))
 <2>1. u = b /\ Location(u) = Location(s) BY <1>6, <1>11, <1>19, <1>23
 <2>2. Near(sorted, Location(s), Location(g)) BY <1>14, <1>17, <1>18, <1>19, <1>23, <2>1
 <2>5. Location(s) \in Seq(Names) BY <1>13, <2>1
 <2>6. DirExists(sorted, Location(g)) BY <2>2, <2>5, NearItself
 <2>3. DirExists(g.files, Location(g)) BY <1>17, <2>6
 <2>4. Location(d) = Location(g) BY <1>15, <2>3 DEF Stays
 <2> QED BY <1>16, <1>17, <2>2, <2>4
<1> QED BY <1>3, <1>4, <1>16, <1>17, <1>18, <1>19, <1>20, <1>21, <1>22, <1>23

----
(* The moves of the user. A move leaves the archive and shows what it did. *)

----
(* What the user does with the window. *)

KeptFields == {"files", "loading", "archive_present", "activity_ref", "icons_changed"}

Later(s, t) == s.acts \in Nat /\ t.acts \in Nat /\ t.acts >= s.acts

LEMMA LaterOn ==
    ASSUME NEW s, NEW t, NEW u, Later(s, t), Later(t, u) PROVE Later(s, u)
BY DEF Later

LEMMA LaterSame ==
    ASSUME NEW s, Good(s), NEW t, t.acts = s.acts PROVE Later(s, t)
<1>1. s.acts \in Nat BY Zenon DEF Good, Window
<1> QED BY <1>1 DEF Later

Moved(s, t) ==
    /\ Good(t) /\ Later(s, t) /\ \A f \in KeptFields : t[f] = s[f]
    /\ InOrder(s.files) /\ Sees(s) => Sees(t)

LEMMA BrowsedMoved ==
    ASSUME NEW s, NEW t, Good(s), Browsed(s, t) PROVE Moved(s, t)
<1>1. t.acts = s.acts BY DEF Browsed, Apart, Fields, ViewFields
<1> QED BY <1>1, LaterSame DEF Browsed, Moved, Apart, KeptFields, Fields, ViewFields

LEMMA MovedOn ==
    ASSUME NEW s, NEW t, NEW u, Moved(s, t), Moved(t, u) PROVE Moved(s, u)
BY LaterOn DEF Moved, KeptFields

LEMMA ActIs ==
    ASSUME NEW s, Good(s)
    PROVE  /\ Good(Act(s)) /\ Apart({"acts"}, s, Act(s)) /\ Location(Act(s)) = Location(s)
           /\ Moved(s, Act(s)) /\ Later(s, Act(s))
<1> DEFINE t == Act(s)
<1>1. DOMAIN s = Fields BY Zenon DEF Good, Window
<1>2. Apart({"acts"}, s, t) /\ Later(s, t) /\ t.acts \in Nat
 <2>1. s.acts \in Nat BY Zenon DEF Good, Window
 <2> QED BY <1>1, <2>1 DEF Apart, Fields, Act, Later
<1> HIDE DEF t
<1>3. Window(t) /\ Read(t) /\ Location(t) = Location(s)
 <2>1. Window(t) BY <1>2 DEF Good, Window, Apart, Fields
 <2>2. Read(t) BY <1>2 DEF Good, Read, Apart, Fields
 <2>3. Location(t) = Location(s) BY <1>2 DEF Apart, Fields, Location
 <2> QED BY <2>1, <2>2, <2>3
<1>4. /\ t.files = s.files /\ t.rows = s.rows /\ t.names = s.names /\ t.rows_live = s.rows_live
      /\ t.list_mode = s.list_mode /\ t.filter = s.filter /\ t.last_location = s.last_location
      /\ t.archive_present = s.archive_present
 BY <1>2 DEF Apart, Fields
<1>5. Sees(t) = Sees(s) BY <1>3, <1>4, SeesAlike
<1> QED BY <1>2, <1>3, <1>5 DEF Good, Moved, Apart, Fields, KeptFields, t

\* fr_window_go_to_location from the window, or from it with another place in its history.
LEMMA GoesTo ==
    ASSUME NEW s, Good(s), NEW a, Good(a), NEW location \in Seq(Names),
           Apart({"acts", "history", "history_current", "tree_selection"}, s, a), Later(s, a),
           Location(a) \in {Location(s), location}
    PROVE  Moved(s, GoToLocation(a, location, FALSE))
<1> DEFINE t == GoToLocation(a, location, FALSE)
<1>1. /\ Good(t) /\ Apart(ViewFields, a, t)
      /\ a.last_location = location => t = a
      /\ a.last_location # location /\ InOrder(a.files) => Sees(t)
 BY GoToLocationIs
<1> HIDE DEF t
<1>2. /\ a.files = s.files /\ a.rows = s.rows /\ a.names = s.names /\ a.rows_live = s.rows_live
      /\ a.list_mode = s.list_mode /\ a.filter = s.filter /\ a.last_location = s.last_location
      /\ a.archive_present = s.archive_present
 BY DEF Apart, Fields
<1>3. \A f \in KeptFields : t[f] = s[f] BY <1>1 DEF Apart, KeptFields, Fields, ViewFields
<1>4. ASSUME InOrder(s.files), Sees(s) PROVE Sees(t)
 <2>1. CASE a.last_location # location BY <1>1, <1>2, <1>4, <2>1
 <2>2. CASE a.last_location = location /\ Location(a) = Location(s)
  <3>1. Sees(a) = Sees(s) BY <1>2, <2>2, SeesAlike
  <3> QED BY <1>1, <1>4, <2>2, <3>1
 <2>3. CASE a.last_location = location /\ Location(a) = location /\ Location(a) # Location(s)
  <3>1. LastSeen(a) BY <2>3 DEF LastSeen
  <3>2. location # None BY BrowseAssumption
  <3>3. s.archive_present => ~DirExists(s.files, location)
   BY <1>2, <1>4, <2>3, <3>2 DEF Sees, LastSeen
  <3>4. ASSUME s.archive_present PROVE Shown(a)
   <4>1. CASE a.list_mode # "FLAT" BY <1>2, <2>3, <3>3, <3>4, <4>1 DEF Shown, Made
   <4>2. CASE a.list_mode = "FLAT"
    <5>1. Made(s) BY <1>4, <3>4 DEF Sees, Shown
    <5>2. Made(a) BY <1>2, <4>2, <5>1 DEF Made, NameMade, RowMade
    <5> QED BY <4>2, <5>2 DEF Shown
   <4> QED BY <4>1, <4>2
  <3>5. Sees(a) BY <1>2, <1>4, <3>1, <3>4 DEF Sees
  <3> QED BY <1>1, <2>3, <3>5
 <2> QED BY <2>1, <2>2, <2>3
<1>5. Later(s, t)
 <2> QED BY <1>1 DEF Apart, Fields, ViewFields, Later
<1> QED BY <1>1, <1>3, <1>4, <1>5 DEF Moved, t

\* The list made again of a window that is set another way.
LEMMA RefreshMoves ==
    ASSUME NEW s, NEW a, Good(a), Later(s, a), \A f \in KeptFields : a[f] = s[f],
           LastSeen(s) => LastSeen(a)
    PROVE  Moved(s, Refresh(a))
<1> DEFINE t == Refresh(a)
<1>1. Browsed(a, t) /\ (InOrder(a.files) /\ LastSeen(a) => Sees(t)) BY RefreshIs
<1> HIDE DEF t
<1>2. \A f \in KeptFields : t[f] = s[f] BY <1>1 DEF Browsed, Apart, KeptFields, Fields, ViewFields
<1>3. ASSUME InOrder(s.files), Sees(s) PROVE Sees(t)
 <2>1. CASE s.archive_present BY <1>1, <1>3, <2>1 DEF Sees, KeptFields
 <2>2. CASE ~s.archive_present BY <1>2, <2>2 DEF Sees, KeptFields
 <2> QED BY <2>1, <2>2
<1>4. Later(s, t)
 <2> QED BY <1>1 DEF Browsed, Apart, Fields, ViewFields, Later
<1> QED BY <1>1, <1>2, <1>3, <1>4 DEF Moved, Browsed, t

LEMMA GoUpMoves ==
    ASSUME Good(w), GoUp PROVE Moved(w, w')
<1> DEFINE a == Act(w)
           s == Located(a)
           up == SubSeq(Location(s), 1, Len(Location(s)) - 1)
<1>1. w' = GoToLocation(s, up, FALSE) BY Zenon DEF GoUp
<1>2. Good(a) /\ Apart({"acts"}, w, a) /\ Location(a) = Location(w) /\ Later(w, a) BY ActIs
<1> HIDE DEF a
<1>3. Good(s) /\ Apart({"history", "history_current"}, a, s) /\ Location(s) = Location(a)
 BY <1>2, LocatedIs
<1> HIDE DEF s
<1>4. Location(s) \in Seq(Names) BY <1>3, LocationTyped DEF Good
<1>5. up \in Seq(Names) BY <1>4, FrontIs, LenProperties, EmptySeq
<1> HIDE DEF up
<1>6. Apart({"acts", "history", "history_current", "tree_selection"}, w, s) /\ Later(w, s)
 BY <1>2, <1>3 DEF Apart, Fields, Later
<1> QED BY <1>1, <1>2, <1>3, <1>5, <1>6, GoesTo

\* A place in the history.
LEMMA GoesAlong ==
    ASSUME Good(w), NEW n \in 1..Len(w.history)
    PROVE  LET s == [Act(w) EXCEPT !.history_current = n]
           IN Moved(w, GoToLocation(s, Location(s), FALSE))
<1> DEFINE a == Act(w)
           s == [a EXCEPT !.history_current = n]
<1>1. Good(a) /\ Apart({"acts"}, w, a) /\ Later(w, a) BY ActIs
<1> HIDE DEF a
<1>2. DOMAIN a = Fields /\ a.history = w.history BY <1>1 DEF Apart, Fields
<1>3. Apart({"history_current"}, a, s) /\ s.history_current = n BY <1>2 DEF Apart, Fields
<1> HIDE DEF s
<1>4. n \in 0..Len(s.history) BY <1>2, <1>3 DEF Apart, Fields
<1>5. Window(s) /\ Read(s)
 <2>1. Window(s) BY <1>1, <1>3, <1>4 DEF Good, Window, Apart, Fields
 <2>2. Read(s) BY <1>1, <1>3, <1>4 DEF Good, Read, Apart, Fields
 <2> QED BY <2>1, <2>2
<1>6. Location(s) \in Seq(Names) BY <1>5, LocationTyped
<1>7. Apart({"acts", "history", "history_current", "tree_selection"}, w, s) /\ Later(w, s)
 BY <1>1, <1>3 DEF Apart, Fields, Later
<1> QED BY <1>5, <1>6, <1>7, GoesTo DEF Good, s, a

LEMMA GoBackMoves ==
    ASSUME Good(w), GoBack PROVE Moved(w, w')
<1> DEFINE n == w.history_current + 1
           s == [Act(w) EXCEPT !.history_current = n]
<1>1. /\ w.history_current \in 0..Len(w.history) /\ w.history_current < Len(w.history)
      /\ Len(w.history) \in Nat /\ Good(Act(w)) /\ Apart({"acts"}, w, Act(w))
 <2>1. w.history \in Seq(Seq(Names)) /\ w.history_current \in 0..Len(w.history)
  BY Zenon DEF Good, Window
 <2>2. w.history_current < Len(w.history) BY Zenon DEF GoBack
 <2>3. Good(Act(w)) /\ Apart({"acts"}, w, Act(w)) BY ActIs
 <2> QED BY <2>1, <2>2, <2>3
<1>2. n \in 1..Len(w.history) /\ Act(w).history_current = w.history_current
 BY <1>1 DEF Apart, Fields
<1>3. w' = GoToLocation(s, Location(s), FALSE) BY <1>2 DEF GoBack
<1> HIDE DEF n
<1> QED BY <1>2, <1>3, GoesAlong

LEMMA GoForwardMoves ==
    ASSUME Good(w), GoForward PROVE Moved(w, w')
<1> DEFINE n == w.history_current - 1
           s == [Act(w) EXCEPT !.history_current = n]
<1>1. /\ w.history_current \in 0..Len(w.history) /\ w.history_current > 1
      /\ Len(w.history) \in Nat /\ Good(Act(w)) /\ Apart({"acts"}, w, Act(w))
 <2>1. w.history \in Seq(Seq(Names)) /\ w.history_current \in 0..Len(w.history)
  BY Zenon DEF Good, Window
 <2>2. w.history_current > 1 BY Zenon DEF GoForward
 <2>3. Good(Act(w)) /\ Apart({"acts"}, w, Act(w)) BY ActIs
 <2> QED BY <2>1, <2>2, <2>3
<1>2. n \in 1..Len(w.history) /\ Act(w).history_current = w.history_current
 BY <1>1 DEF Apart, Fields
<1>3. w' = GoToLocation(s, Location(s), FALSE) BY <1>2 DEF GoForward
<1> HIDE DEF n
<1> QED BY <1>2, <1>3, GoesAlong

LEMMA GoHomeMoves ==
    ASSUME Good(w), GoHome PROVE Moved(w, w')
<1> DEFINE a == Act(w)
           s == Located(a)
<1>1. w' = GoToLocation(s, <<>>, FALSE) /\ <<>> \in Seq(Names) BY DEF GoHome
<1>2. Good(a) /\ Apart({"acts"}, w, a) /\ Location(a) = Location(w) /\ Later(w, a) BY ActIs
<1> HIDE DEF a
<1>3. Good(s) /\ Apart({"history", "history_current"}, a, s) /\ Location(s) = Location(a)
 BY <1>2, LocatedIs
<1> HIDE DEF s
<1>4. Apart({"acts", "history", "history_current", "tree_selection"}, w, s) /\ Later(w, s)
 BY <1>2, <1>3 DEF Apart, Fields, Later
<1> QED BY <1>1, <1>2, <1>3, <1>4, GoesTo

LEMMA TypeLocationMoves ==
    ASSUME Good(w), TypeLocation PROVE Moved(w, w')
<1> DEFINE a == Act(w)
<1>1. PICK location \in {<<>>} \cup {<<name>> : name \in NewNames} :
        w' = GoToLocation(a, location, FALSE)
 BY Zenon DEF TypeLocation
<1>2. location \in Seq(Names)
 <2>1. \A name \in Names : <<name>> \in Seq(Names) OBVIOUS
 <2>2. NewNames \subseteq Names /\ <<>> \in Seq(Names) BY BrowseAssumption
 <2> QED BY <2>1, <2>2
<1>3. Good(a) /\ Apart({"acts"}, w, a) /\ Location(a) = Location(w) /\ Later(w, a) BY ActIs
<1> HIDE DEF a
<1>4. Apart({"acts", "history", "history_current", "tree_selection"}, w, a) BY <1>3 DEF Apart
<1> QED BY <1>1, <1>2, <1>3, <1>4, GoesTo

LEMMA SelectFolderMoves ==
    ASSUME Good(w), SelectFolder PROVE Moved(w, w')
<1> DEFINE a == Act(w)
<1>1. PICK folder \in w.tree :
        w' = GoToLocation([a EXCEPT !.tree_selection = folder], folder, FALSE)
 BY Zenon DEF SelectFolder
<1> DEFINE s == [a EXCEPT !.tree_selection = folder]
<1>2. folder \in Seq(Names) BY DEF Good, Window
<1>3. Good(a) /\ Apart({"acts"}, w, a) /\ Location(a) = Location(w) /\ Later(w, a) BY ActIs
<1> HIDE DEF a
<1>4. DOMAIN a = Fields BY <1>3 DEF Apart
<1>5. Apart({"tree_selection"}, a, s) /\ s.tree_selection = folder BY <1>4 DEF Apart, Fields
<1> HIDE DEF s
<1>6. Window(s) /\ Read(s) /\ Location(s) = Location(a)
 <2>1. Window(s) BY <1>2, <1>3, <1>5 DEF Good, Window, Apart, Fields
 <2>2. Read(s) BY <1>2, <1>3, <1>5 DEF Good, Read, Apart, Fields
 <2>3. Location(s) = Location(a) BY <1>2, <1>3, <1>5 DEF Apart, Fields, Location
 <2> QED BY <2>1, <2>2, <2>3
<1>7. Apart({"acts", "history", "history_current", "tree_selection"}, w, s) /\ Later(w, s)
 BY <1>3, <1>5 DEF Apart, Fields, Later
<1>8. w' = GoToLocation(s, folder, FALSE) BY <1>1 DEF s
<1> QED BY <1>2, <1>3, <1>6, <1>7, <1>8, GoesTo DEF Good

LEMMA UnselectFolderMoves ==
    ASSUME Good(w), UnselectFolder PROVE Moved(w, w')
<1> DEFINE t == [w EXCEPT !.tree_selection = None]
<1>1. w' = t BY DEF UnselectFolder
<1>2. DOMAIN w = Fields BY Zenon DEF Good, Window
<1>3. Apart({"tree_selection"}, w, t) /\ t.tree_selection = None BY <1>2 DEF Apart, Fields
<1> HIDE DEF t
<1>4. Window(t) /\ Read(t) /\ Location(t) = Location(w)
 <2>1. Window(t) BY <1>3 DEF Good, Window, Apart, Fields
 <2>2. Read(t) BY <1>3 DEF Good, Read, Apart, Fields
 <2>3. Location(t) = Location(w) BY <1>3 DEF Apart, Fields, Location
 <2> QED BY <2>1, <2>2, <2>3
<1>5. Sees(t) = Sees(w)
 <2>1. /\ t.files = w.files /\ t.rows = w.rows /\ t.names = w.names /\ t.rows_live = w.rows_live
       /\ t.list_mode = w.list_mode /\ t.filter = w.filter /\ t.last_location = w.last_location
       /\ t.archive_present = w.archive_present
  BY <1>3 DEF Apart, Fields
 <2> QED BY <1>4, <2>1, SeesAlike
<1>6. Later(w, t) BY <1>3, LaterSame DEF Apart, Fields
<1>7. Moved(w, t) BY <1>3, <1>4, <1>5, <1>6 DEF Moved, Good, Apart, Fields, KeptFields
<1> QED BY <1>1, <1>7

LEMMA ListNameTyped ==
    ASSUME NEW s, Window(s), NEW entry
    PROVE  ListName(s, entry).name \in Names \cup {None}
<1> DEFINE named == {m \in s.names : m.entry = entry}
<1>1. CASE named = {} BY <1>1 DEF ListName
<1>2. CASE named # {}
 <2>1. ListName(s, entry) \in named BY <1>2, Zenon DEF ListName
 <2>2. \A m \in s.names : m.name \in Names BY Zenon DEF Window
 <2> QED BY <2>1, <2>2
<1> QED BY <1>1, <1>2

LEMMA ActivateRowMoves ==
    ASSUME Good(w), ActivateRow PROVE Moved(w, w')
<1> DEFINE a == Act(w)
           s == Located(a)
           r == [w EXCEPT !.freed_read = w.freed_read \/ (w.rows # {} /\ ~w.rows_live),
                          !.selected_then = TRUE]
<1>1. PICK row \in w.rows :
        \/ ~w.rows_live /\ w' = [ReadRows(w, w.rows) EXCEPT !.selected_then = TRUE]
        \/ w' = GoToLocation(s, Location(s) \o (IF ListName(w, row.entry).name = None THEN <<>>
                                                ELSE << ListName(w, row.entry).name >>), FALSE)
 BY Zenon DEF ActivateRow
<1> DEFINE name == ListName(w, row.entry).name
           tail == IF name = None THEN <<>> ELSE <<name>>
<1>2. CASE w' = GoToLocation(s, Location(s) \o tail, FALSE)
 <2>1. name \in Names \cup {None} BY ListNameTyped DEF Good
 <2> HIDE DEF name
 <2>2. tail \in Seq(Names) BY <2>1
 <2> HIDE DEF tail
 <2>3. Good(a) /\ Apart({"acts"}, w, a) /\ Location(a) = Location(w) /\ Later(w, a) BY ActIs
 <2> HIDE DEF a
 <2>4. Good(s) /\ Apart({"history", "history_current"}, a, s) /\ Location(s) = Location(a)
  BY <2>3, LocatedIs
 <2> HIDE DEF s
 <2>5. Location(s) \o tail \in Seq(Names) BY <2>2, <2>4, LocationTyped, ConcatProperties DEF Good
 <2>6. Apart({"acts", "history", "history_current", "tree_selection"}, w, s) /\ Later(w, s)
  BY <2>3, <2>4 DEF Apart, Fields, Later
 <2> QED BY <1>2, <2>3, <2>4, <2>5, <2>6, GoesTo
<1>3. CASE w' = [ReadRows(w, w.rows) EXCEPT !.selected_then = TRUE]
 <2>1. DOMAIN w = Fields /\ w.freed_read \in BOOLEAN /\ w.rows_live \in BOOLEAN
  BY Zenon DEF Good, Window
 <2>2. w' = r BY <1>3, <2>1 DEF ReadRows
 <2>3. Apart({"freed_read", "selected_then"}, w, r) /\ r.selected_then = TRUE
       /\ r.freed_read = (w.freed_read \/ (w.rows # {} /\ ~w.rows_live))
  BY <2>1 DEF Apart, Fields
 <2> HIDE DEF r
 <2>4. r.freed_read \in BOOLEAN BY <2>1, <2>3
 <2>5. Window(r) /\ Read(r) /\ Location(r) = Location(w)
  <3>1. Window(r) BY <2>3, <2>4 DEF Good, Window, Apart, Fields
  <3>2. Read(r) BY <2>3, <2>4 DEF Good, Read, Apart, Fields
  <3>3. Location(r) = Location(w) BY <2>3, <2>4 DEF Apart, Fields, Location
  <3> QED BY <3>1, <3>2, <3>3
 <2>6. Sees(r) = Sees(w)
  <3>1. /\ r.files = w.files /\ r.rows = w.rows /\ r.names = w.names /\ r.rows_live = w.rows_live
        /\ r.list_mode = w.list_mode /\ r.filter = w.filter /\ r.last_location = w.last_location
        /\ r.archive_present = w.archive_present
   BY <2>3 DEF Apart, Fields
  <3> QED BY <2>5, <3>1, SeesAlike
 <2>8. Later(w, r) BY <2>3, LaterSame DEF Apart, Fields
 <2>7. Moved(w, r) BY <2>3, <2>5, <2>6, <2>8 DEF Moved, Good, Apart, Fields, KeptFields
 <2> QED BY <2>2, <2>7
<1> QED BY <1>1, <1>2, <1>3

\* Rows selected: a part of the rows, read then.
LEMMA Selects ==
    ASSUME NEW s, Good(s), NEW rows \in SUBSET (s.rows \cup s.selected), NEW then \in BOOLEAN,
           then = (s.selected_then \/ ~s.rows_live)
    PROVE  LET t == UpdateSensitivity([s EXCEPT !.selected = rows, !.selected_then = then])
           IN Moved(s, t) /\ Apart({"freed_read", "selected", "selected_then"}, s, t)
<1> DEFINE a == [s EXCEPT !.selected = rows, !.selected_then = then]
           t == UpdateSensitivity(a)
<1>1. DOMAIN s = Fields /\ s.rows_live \in BOOLEAN /\ s.selected_then \in BOOLEAN
 BY Zenon DEF Good, Window
<1>2. Apart({"selected", "selected_then"}, s, a) /\ a.selected = rows /\ a.selected_then = then
 BY <1>1 DEF Apart, Fields
<1> HIDE DEF a
<1>3. Window(a) /\ Location(a) = Location(s) BY <1>2 DEF Good, Window, Apart, Fields, Location
<1>4. Read(a) BY <1>1, <1>2 DEF Good, Read, Apart, Fields
<1>5. Good(t) /\ Apart({"freed_read"}, a, t) /\ Location(t) = Location(a)
 BY <1>3, <1>4, UpdateSensitivityIs DEF Good
<1> HIDE DEF t
<1>6. Apart({"freed_read", "selected", "selected_then"}, s, t) BY <1>2, <1>5 DEF Apart
<1>7. Sees(t) = Sees(s)
 <2>1. /\ t.files = s.files /\ t.rows = s.rows /\ t.names = s.names /\ t.rows_live = s.rows_live
       /\ t.list_mode = s.list_mode /\ t.filter = s.filter /\ t.last_location = s.last_location
       /\ t.archive_present = s.archive_present
  BY <1>6 DEF Apart, Fields
 <2> QED BY <1>3, <1>5, <2>1, SeesAlike
<1>8. Later(s, t) BY <1>6, LaterSame DEF Apart, Fields
<1>9. Moved(s, t) BY <1>5, <1>6, <1>7, <1>8 DEF Moved, Apart, Fields, KeptFields
<1> QED BY <1>6, <1>9 DEF t, a

LEMMA SelectMoves ==
    ASSUME Good(w), Select PROVE Moved(w, w')
<1> DEFINE then == w.selected_then \/ ~w.rows_live
<1>1. PICK rows \in {{}, w.rows} \cup {{row} : row \in w.rows} :
        w' = UpdateSensitivity([w EXCEPT !.selected = rows, !.selected_then = then])
 BY Zenon DEF Select
<1>2. rows \in SUBSET (w.rows \cup w.selected) OBVIOUS
<1>3. then \in BOOLEAN /\ then = (w.selected_then \/ ~w.rows_live) BY DEF Good, Window
<1> HIDE DEF then
<1> QED BY <1>1, <1>2, <1>3, Selects

LEMMA SetListModeMoves ==
    ASSUME Good(w), SetListMode PROVE Moved(w, w')
<1> DEFINE a == Act(w)
<1>1. PICK mode \in {"FLAT", "AS_DIR"} :
        LET s == [a EXCEPT !.list_mode = mode, !.last_list_mode = mode]
        IN w' = Refresh(IF mode = "FLAT" THEN HistoryAdd(HistoryClear(s), <<>>) ELSE s)
 BY Zenon DEF SetListMode
<1> DEFINE s == [a EXCEPT !.list_mode = mode, !.last_list_mode = mode]
           h == HistoryClear(s)
           l == HistoryAdd(h, <<>>)
<1>2. Good(a) /\ Apart({"acts"}, w, a) /\ Location(a) = Location(w) /\ Later(w, a) BY ActIs
<1>3. w' = Refresh(IF mode = "FLAT" THEN l ELSE s) BY <1>1, Zenon
<1> HIDE DEF a
<1>4. DOMAIN a = Fields BY <1>2 DEF Apart
<1>5. Apart({"list_mode", "last_list_mode"}, a, s) /\ s.list_mode = mode BY <1>4 DEF Apart, Fields
<1> HIDE DEF s
<1>6. Good(s) /\ Location(s) = Location(w)
 <2>1. Window(s) /\ Read(s) /\ Location(s) = Location(a)
  <3>1. Window(s) BY <1>2, <1>5 DEF Good, Window, Apart, Fields
  <3>2. Read(s) BY <1>2, <1>5 DEF Good, Read, Apart, Fields
  <3>3. Location(s) = Location(a) BY <1>2, <1>5 DEF Apart, Fields, Location
  <3> QED BY <3>1, <3>2, <3>3
 <2> QED BY <1>2, <2>1 DEF Good
<1>7. s.last_location = w.last_location /\ s.files = w.files /\ \A f \in KeptFields : s[f] = w[f]
 BY <1>2, <1>5 DEF Apart, Fields, KeptFields
<1>10. Later(w, s) BY <1>2, <1>5 DEF Apart, Fields, Later
<1>8. CASE mode # "FLAT"
 <2>1. LastSeen(w) => LastSeen(s) BY <1>6, <1>7 DEF LastSeen
 <2> QED BY <1>3, <1>6, <1>7, <1>8, <1>10, <2>1, RefreshMoves
<1>9. CASE mode = "FLAT"
 <2>1. Good(h) /\ Apart({"history", "history_current", "last_location"}, s, h)
       /\ h.last_location = None
  BY <1>6, HistoryClearIs
 <2> HIDE DEF h
 <2>2. <<>> \in Seq(Names) OBVIOUS
 <2>3. Good(l) /\ Apart({"history", "history_current"}, h, l) BY <2>1, <2>2, HistoryAddIs
 <2> HIDE DEF l
 <2>4. LastSeen(l) BY <2>1, <2>3 DEF LastSeen, Apart, Fields
 <2>5. \A f \in KeptFields : l[f] = w[f] BY <1>7, <2>1, <2>3 DEF Apart, Fields, KeptFields
 <2>6. Later(w, l) BY <1>10, <2>1, <2>3 DEF Apart, Fields, Later
 <2> QED BY <1>3, <1>9, <2>3, <2>4, <2>5, <2>6, RefreshMoves
<1> QED BY <1>8, <1>9

LEMMA TypeFilterMoves ==
    ASSUME Good(w), TypeFilter PROVE Moved(w, w')
<1> DEFINE a == Act(w)
<1>1. PICK prefix \in Texts : w' = [a EXCEPT !.filter_mode = TRUE, !.filter = prefix]
 BY Zenon DEF TypeFilter
<1> DEFINE t == [a EXCEPT !.filter_mode = TRUE, !.filter = prefix]
<1>2. Good(a) /\ Apart({"acts"}, w, a) /\ Location(a) = Location(w) /\ Later(w, a) BY ActIs
<1> HIDE DEF a
<1>3. DOMAIN a = Fields BY <1>2 DEF Apart
<1>4. Apart({"filter_mode", "filter"}, a, t) /\ t.filter = prefix BY <1>3 DEF Apart, Fields
<1> HIDE DEF t
<1>5. Window(t) /\ Read(t) /\ Location(t) = Location(a)
 <2>1. Window(t) BY <1>2, <1>4 DEF Good, Window, Apart, Fields
 <2>2. Read(t) BY <1>2, <1>4 DEF Good, Read, Apart, Fields
 <2>3. Location(t) = Location(a) BY <1>2, <1>4 DEF Apart, Fields, Location
 <2> QED BY <2>1, <2>2, <2>3
<1>6. Apart({"acts", "filter_mode", "filter"}, w, t) BY <1>2, <1>4 DEF Apart
<1>7. Sees(w) => Sees(t)
 <2>3. /\ t.files = w.files /\ t.names = w.names /\ t.rows = w.rows /\ t.list_mode = w.list_mode
       /\ t.archive_present = w.archive_present /\ Location(t) = Location(w)
  BY <1>2, <1>5, <1>6 DEF Apart, Fields
 <2>4. Made(t) = Made(w) BY <2>3 DEF Made, NameMade, RowMade
 <2>1. Sees(w) /\ w.archive_present => Shown(t) BY <1>4, <2>4, BrowseAssumption DEF Shown, Sees
 <2>2. LastSeen(w) => LastSeen(t) BY <1>2, <1>5, <1>6 DEF LastSeen, Apart, Fields
 <2> QED BY <1>6, <2>1, <2>2 DEF Sees, Apart, Fields
<1>8. Later(w, t) BY <1>2, <1>4 DEF Apart, Fields, Later
<1>9. Moved(w, t) BY <1>5, <1>6, <1>7, <1>8 DEF Moved, Good, Apart, Fields, KeptFields
<1> QED BY <1>1, <1>9 DEF t

\* The list cleared, and made again in another mode.
LEMMA FilterMoves ==
    ASSUME NEW s, Good(s), NEW t, Apart({"list_mode", "filter_mode", "filter"}, ClearList(s), t)
    PROVE  Moved(s, Refresh(t))
<1> DEFINE c == ClearList(s)
<1>1. Good(c) /\ Apart({"freed_read", "rows", "selected", "refs", "rows_live"}, s, c)
      /\ Location(c) = Location(s)
 BY ClearListIs
<1> HIDE DEF c
<1>2. Apart({"list_mode", "filter_mode", "filter"}, c, t) BY DEF c
<1>3. Window(t) /\ Read(t) /\ Location(t) = Location(c)
 <2>1. Window(t) BY <1>1, <1>2 DEF Good, Window, Apart, Fields
 <2>2. Read(t) BY <1>1, <1>2 DEF Good, Read, Apart, Fields
 <2>3. Location(t) = Location(c) BY <1>1, <1>2 DEF Apart, Fields, Location
 <2> QED BY <2>1, <2>2, <2>3
<1>4. t.last_location = s.last_location /\ t.files = s.files /\ \A f \in KeptFields : t[f] = s[f]
 BY <1>1, <1>2 DEF Apart, Fields, KeptFields
<1>5. LastSeen(s) => LastSeen(t) BY <1>1, <1>3, <1>4 DEF LastSeen
<1>6. Later(s, t)
 <2> QED BY <1>1, <1>2, LaterSame DEF Apart, Fields
<1> QED BY <1>3, <1>4, <1>5, <1>6, RefreshMoves DEF Good

LEMMA ActivateFilterMoves ==
    ASSUME Good(w), ActivateFilter PROVE Moved(w, w')
<1> DEFINE a == Act(w)
           c == ClearList(a)
           t == [c EXCEPT !.list_mode = "FLAT"]
<1>1. w' = Refresh(t) BY Zenon DEF ActivateFilter
<1>2. Good(a) /\ Moved(w, a) BY ActIs
<1> HIDE DEF a
<1>3. DOMAIN c = Fields BY <1>2, ClearListIs DEF Apart
<1> HIDE DEF c
<1>4. Apart({"list_mode", "filter_mode", "filter"}, c, t) BY <1>3 DEF Apart, Fields
<1> HIDE DEF t
<1>5. Moved(a, Refresh(t)) BY <1>2, <1>4, FilterMoves DEF c
<1> QED BY <1>1, <1>2, <1>5, MovedOn

LEMMA DeactivateFilterMoves ==
    ASSUME Good(w), DeactivateFilter PROVE Moved(w, w')
<1> DEFINE c == ClearList(w)
           t == [c EXCEPT !.filter_mode = FALSE, !.filter = None, !.list_mode = w.last_list_mode]
<1>1. w' = Refresh(t) BY Zenon DEF DeactivateFilter
<1>3. DOMAIN c = Fields BY ClearListIs DEF Apart
<1> HIDE DEF c
<1>4. Apart({"list_mode", "filter_mode", "filter"}, c, t) BY <1>3 DEF Apart, Fields
<1> HIDE DEF t
<1>5. Moved(w, Refresh(t)) BY <1>4, FilterMoves DEF c
<1> QED BY <1>1, <1>5

LEMMA ViewFoldersMoves ==
    ASSUME Good(w), ViewFolders PROVE Moved(w, w')
<1> DEFINE a == Act(w)
           t == [a EXCEPT !.view_folders = ~a.view_folders]
<1>1. w' = UpdateDirTree(t) BY DEF ViewFolders
<1>2. Good(a) /\ Moved(w, a) BY ActIs
<1> HIDE DEF a
<1>3. DOMAIN a = Fields BY <1>2 DEF Good, Window
<1>4. Apart({"view_folders"}, a, t) BY <1>3 DEF Apart, Fields
<1> HIDE DEF t
<1>5. Window(t) /\ Read(t) /\ Location(t) = Location(a)
 <2>1. Window(t) BY <1>2, <1>4 DEF Good, Window, Apart, Fields
 <2>2. Read(t) BY <1>2, <1>4 DEF Good, Read, Apart, Fields
 <2>3. Location(t) = Location(a) BY <1>2, <1>4 DEF Apart, Fields, Location
 <2> QED BY <2>1, <2>2, <2>3
<1>6. Sees(t) = Sees(a)
 <2>1. /\ t.files = a.files /\ t.rows = a.rows /\ t.names = a.names /\ t.rows_live = a.rows_live
       /\ t.list_mode = a.list_mode /\ t.filter = a.filter /\ t.last_location = a.last_location
       /\ t.archive_present = a.archive_present
  BY <1>4 DEF Apart, Fields
 <2> QED BY <1>5, <2>1, SeesAlike
<1>10. Later(a, t) BY <1>2, <1>4, LaterSame DEF Apart, Fields
<1>7. Moved(a, t) BY <1>4, <1>5, <1>6, <1>10 DEF Moved, Good, Apart, Fields, KeptFields
<1>8. Moved(t, UpdateDirTree(t)) BY <1>5, UpdateDirTreeIs, BrowsedMoved DEF Good
<1>9. Moved(w, t) BY <1>2, <1>7, MovedOn
<1> QED BY <1>1, <1>8, <1>9, MovedOn

LEMMA ThemeChangedMoves ==
    ASSUME Good(w), ThemeChanged PROVE Moved(w, w') /\ Held(w, w')
<1> DEFINE a == UpdateFileList(w, TRUE)
           t == UpdateDirTree(a)
<1>1. w' = t BY DEF ThemeChanged
<1>2. Browsed(w, a) /\ Good(a) BY UpdateFileListIs DEF Browsed
<1> HIDE DEF a
<1>3. Browsed(a, t) BY <1>2, UpdateDirTreeIs
<1> HIDE DEF t
<1>4. Browsed(w, t) BY <1>2, <1>3, BrowsedOn
<1>5. Moved(w, t) /\ Held(w, t) BY <1>4, BrowsedMoved DEF Browsed
<1> QED BY <1>1, <1>5

\* pref_use_mime_icons_changed leaves the window busy for good.
LEMMA IconsChangedIs ==
    ASSUME Good(w), IconsChanged
    PROVE  /\ Good(w') /\ Held(w, w') /\ ~w.icons_changed /\ w'.icons_changed
           /\ w'.files = w.files /\ w'.loading = w.loading
           /\ w'.archive_present = w.archive_present
           /\ w'.activity_ref = w.activity_ref + (IF w.archive_present THEN 1 ELSE 0)
           /\ Later(w, w')
<1> DEFINE a == Act(w)
           b == [a EXCEPT !.icons_changed = TRUE]
           c == UpdateFileList(b, FALSE)
           t == UpdateDirTree(c)
<1>1. w' = t /\ ~w.icons_changed BY DEF IconsChanged
<1>2. Good(a) /\ Apart({"acts"}, w, a) /\ Later(w, a) BY ActIs
<1> HIDE DEF a
<1>3. DOMAIN a = Fields /\ w.activity_ref \in Nat BY <1>2 DEF Good, Window
<1>4. Apart({"icons_changed"}, a, b) /\ b.icons_changed = TRUE BY <1>3 DEF Apart, Fields
<1> HIDE DEF b
<1>5. Window(b) /\ Read(b)
 <2>1. Window(b) BY <1>2, <1>4 DEF Good, Window, Apart, Fields
 <2>2. Read(b) BY <1>2, <1>4 DEF Good, Read, Apart, Fields
 <2> QED BY <2>1, <2>2
<1>6. /\ b.files = w.files /\ b.loading = w.loading /\ b.archive_present = w.archive_present
      /\ b.activity_ref = w.activity_ref /\ b.refs = w.refs /\ b.selected = w.selected
 BY <1>2, <1>4 DEF Apart, Fields
<1>7. /\ Good(c) /\ Apart({"freed_read", "activity_ref", "names", "history", "history_current"}, b, c)
      /\ c.activity_ref = b.activity_ref + (IF b.archive_present THEN 1 ELSE 0)
 <2>1. CASE b.archive_present BY <1>5, <2>1, UpdateFileListHides DEF Good
 <2>2. CASE ~b.archive_present
  <3>1. c = b BY <2>2 DEF UpdateFileList
  <3>2. DOMAIN b = Fields /\ b.activity_ref = b.activity_ref + 0 BY <1>3, <1>4, <1>6 DEF Apart
  <3> HIDE DEF c
  <3> QED BY <1>5, <2>2, <3>1, <3>2 DEF Good, Apart
 <2> QED BY <2>1, <2>2
<1> HIDE DEF c
<1>8. Browsed(c, t) BY <1>7, UpdateDirTreeIs
<1> HIDE DEF t
<1>9. /\ t.files = c.files /\ t.loading = c.loading /\ t.archive_present = c.archive_present
      /\ t.activity_ref = c.activity_ref /\ t.icons_changed = c.icons_changed
 BY <1>8 DEF Browsed, Apart, Fields, ViewFields
<1>10. /\ c.files = b.files /\ c.loading = b.loading /\ c.archive_present = b.archive_present
       /\ c.icons_changed = TRUE /\ c.refs = b.refs /\ c.selected = b.selected
 BY <1>4, <1>7 DEF Apart, Fields
<1>11. Good(t) /\ Held(w, t) BY <1>6, <1>8, <1>10 DEF Browsed, Held
<1>12. Later(w, t)
 <2>1. t.acts = c.acts /\ c.acts = b.acts /\ b.acts = a.acts
  BY <1>4, <1>7, <1>8 DEF Browsed, Apart, Fields, ViewFields
 <2> QED BY <1>2, <2>1 DEF Later
<1> QED BY <1>1, <1>6, <1>7, <1>9, <1>10, <1>11, <1>12

----
(* Parts of a list. *)

KeptOf(f, list, set, m) ==
    f = [n \in 0..m |-> IF n = 0 THEN <<>>
                        ELSE IF list[n] \in set THEN Append(f[n - 1], list[n]) ELSE f[n - 1]]

LEMMA KeptExists ==
    ASSUME NEW list, NEW set
    PROVE  \A m \in Nat : \E f : KeptOf(f, list, set, m)
<1> DEFINE Step(s, n) == IF list[n] \in set THEN Append(s, list[n]) ELSE s
           Fails == {m \in Nat : ~\E f : KeptOf(f, list, set, m)}
<1>1. SUFFICES ASSUME Fails # {} PROVE FALSE OBVIOUS
<1>2. PICK m \in Fails : \A k \in Fails : ~(k < m) BY <1>1, SmallestOf
<1>3. CASE m = 0
 <2> DEFINE f == [n \in 0..0 |-> <<>>]
 <2> HIDE DEF Step
 <2>1. f = [n \in 0..0 |-> IF n = 0 THEN <<>> ELSE Step(f[n - 1], n)] OBVIOUS
 <2>2. KeptOf(f, list, set, m) BY <1>3, <2>1 DEF KeptOf, Step
 <2> QED BY <1>2, <2>2
<1>4. CASE m # 0
 <2>1. m \in Nat /\ m - 1 \in Nat /\ m - 1 < m BY <1>2, <1>4
 <2>2. PICK g : KeptOf(g, list, set, m - 1) BY <1>2, <2>1
 <2> DEFINE f == [n \in 0..m |-> IF n = m THEN Step(g[m - 1], m) ELSE g[n]]
 <2> HIDE DEF Step
 <2>3. g = [n \in 0..(m - 1) |-> IF n = 0 THEN <<>> ELSE Step(g[n - 1], n)]
  BY <2>2 DEF KeptOf, Step
 <2>4. \A n \in 0..(m - 1) : g[n] = IF n = 0 THEN <<>> ELSE Step(g[n - 1], n) BY <2>3
 <2>5. \A n \in 0..(m - 1) : f[n] = g[n] BY <2>1
 <2>6. ASSUME NEW n \in 0..m
       PROVE  f[n] = IF n = 0 THEN <<>> ELSE Step(f[n - 1], n)
  <3>1. CASE n = m
   <4>1. f[n - 1] = g[m - 1] /\ n # 0 BY <1>4, <2>1, <2>5, <3>1
   <4> QED BY <3>1, <4>1
  <3>2. CASE n # m
   <4>1. n \in 0..(m - 1) /\ (n # 0 => n - 1 \in 0..(m - 1)) BY <2>1, <3>2
   <4> QED BY <2>4, <2>5, <4>1
  <3> QED BY <3>1, <3>2
 <2> DEFINE h == [n \in 0..m |-> IF n = 0 THEN <<>> ELSE Step(f[n - 1], n)]
 <2>7. f = h
  <3> QED BY <2>6
 <2> HIDE DEF f
 <2>8. KeptOf(f, list, set, m) BY <2>7 DEF KeptOf, Step
 <2> QED BY <1>2, <2>8
<1> QED BY <1>3, <1>4

\* Only gives a list of what is in the list.
LEMMA OnlyIs ==
    ASSUME NEW S, NEW list \in Seq(S), NEW set
    PROVE  Only(list, set) \in Seq(S)
<1> DEFINE m == Len(list)
           f == CHOOSE g : KeptOf(g, list, set, m)
           Fails == {n \in Nat : n <= m /\ f[n] \notin Seq(S)}
<1>1. m \in Nat /\ \A n \in 1..m : list[n] \in S OBVIOUS
<1>2. Only(list, set) = f[m] BY Zenon DEF Only, KeptOf
<1>3. KeptOf(f, list, set, m) BY <1>1, KeptExists
<1> HIDE DEF f, m
<1>4. \A n \in 0..m : f[n] = IF n = 0 THEN <<>>
                        ELSE IF list[n] \in set THEN Append(f[n - 1], list[n]) ELSE f[n - 1]
 BY <1>3 DEF KeptOf
<1>5. ASSUME Fails # {} PROVE FALSE
 <2>1. PICK n \in Fails : \A j \in Fails : ~(j < n) BY <1>5, SmallestOf
 <2>2. n \in 0..m BY <1>1, <2>1
 <2>3. CASE n = 0
  <3>1. f[n] = <<>> /\ <<>> \in Seq(S) BY <1>4, <2>2, <2>3
  <3> QED BY <2>1, <3>1
 <2>4. CASE n # 0
  <3>1. n - 1 \in Nat /\ n - 1 <= m /\ n - 1 < n /\ n \in 1..m BY <1>1, <2>2, <2>4
  <3>2. f[n - 1] \in Seq(S) BY <2>1, <3>1
  <3>3. f[n] \in {Append(f[n - 1], list[n]), f[n - 1]} BY <1>4, <2>2, <2>4
  <3>4. Append(f[n - 1], list[n]) \in Seq(S) BY <1>1, <3>1, <3>2
  <3> QED BY <2>1, <3>2, <3>3, <3>4
 <2> QED BY <2>3, <2>4
<1>6. f[m] \in Seq(S) BY <1>1, <1>5
<1> QED BY <1>2, <1>6

----
(* Scripts. *)

Nodes(tree) == \A t \in tree : t.path \in Paths /\ "path" \in DOMAIN t

\* What there is in the course of a script.
Script(r) ==
    /\ DOMAIN r = {"disk", "tmp", "ok", "removed", "done"}
    /\ Entries(r.disk) /\ Nodes(r.tmp) /\ r.done \in Nat

LEMMA ExtractIs ==
    ASSUME NEW r, Script(r), NEW names
    PROVE  LET t == Extract(r, names)
           IN Script(t) /\ t.done = r.done /\ t.disk = r.disk
<1> DEFINE found == {m \in r.disk : names = None \/ Name(m) \in Range(names)}
           tmp == r.tmp \cup {Node(m.path, m.kind, m.data) : m \in found}
           ok == /\ names = None \/ Range(names) \subseteq {Name(m) : m \in r.disk}
                 /\ ~\E m \in found : m.kind = "file" /\ IsFolderIn(r.tmp, m.path)
           t == [r EXCEPT !.tmp = tmp, !.ok = ok]
<1>1. Extract(r, names) = t BY Zenon DEF Extract
<1>2. Nodes(tmp)
 <2>1. \A m \in r.disk : m.path \in Paths BY DEF Script, Entries
 <2>2. \A p, k, d : Node(p, k, d).path = p /\ "path" \in DOMAIN Node(p, k, d) BY DEF Node
 <2>3. Nodes(r.tmp) BY DEF Script
 <2> QED BY <2>1, <2>2, <2>3 DEF Nodes
<1> HIDE DEF tmp, ok
<1>3. t.tmp = tmp /\ t.disk = r.disk /\ t.done = r.done /\ DOMAIN t = DOMAIN r BY DEF Script
<1> HIDE DEF t
<1> QED BY <1>1, <1>2, <1>3 DEF Script

LEMMA TakeOutIs ==
    ASSUME NEW r, Script(r), NEW names
    PROVE  Script(TakeOut(r, names)) /\ TakeOut(r, names).done = r.done
<1> DEFINE left == {m \in r.disk : names # None /\ Name(m) \notin Range(names)}
           t == [r EXCEPT !.disk = left, !.removed = TRUE]
<1>1. TakeOut(r, names) = t BY DEF TakeOut
<1>2. Entries(left) BY DEF Script, Entries
<1> HIDE DEF left
<1>3. t.tmp = r.tmp /\ t.disk = left /\ t.done = r.done /\ DOMAIN t = DOMAIN r BY DEF Script
<1> HIDE DEF t
<1> QED BY <1>1, <1>2, <1>3 DEF Script

LEMMA MoveIs ==
    ASSUME NEW r, Script(r), NEW from \in Paths, NEW to \in Seq(Names)
    PROVE  Script(Move(r, from, to)) /\ Move(r, from, to).done = r.done
<1> DEFINE moved == {t \in r.tmp : IsPrefix(from, t.path)}
           into == IF IsFolderIn(r.tmp, to) THEN Append(to, Last(from)) ELSE to
           There(t) == into \o SubSeq(t.path, Len(from) + 1, Len(t.path))
           file == \E t \in moved : t.path = from /\ t.kind = "file"
           ok == /\ moved # {} /\ IsFolderIn(r.tmp, Front(to)) /\ ~IsPrefix(from, into)
                 /\ \A t \in r.tmp : IsPrefix(into, t.path) =>
                                       t.path = into /\ (t.kind = "file") = file
           tmp == {t \in r.tmp : ~IsPrefix(from, t.path) /\ t.path # into}
                    \cup {[t EXCEPT !.path = There(t)] : t \in moved}
           u == [r EXCEPT !.ok = ok, !.tmp = tmp]
<1>1. Move(r, from, to) = u BY Zenon DEF Move
<1>2. into \in Paths
 <2>1. from \in Seq(Names) /\ Len(from) \in 1..Len(from) /\ Last(from) \in Names
  BY EmptySeq, LenProperties DEF Paths, Last
 <2>2. Append(to, Last(from)) \in Paths BY <2>1 DEF Paths
 <2>3. ~IsFolderIn(r.tmp, to) => to # <<>> BY DEF IsFolderIn
 <2> QED BY <2>2, <2>3 DEF Paths
<1> HIDE DEF into
<1>3. \A t \in r.tmp : t.path \in Paths /\ "path" \in DOMAIN t BY DEF Script, Nodes
<1>4. ASSUME NEW t \in r.tmp PROVE There(t) \in Paths
 <2>1. t.path \in Seq(Names) /\ Len(t.path) \in Nat /\ from \in Seq(Names) /\ Len(from) \in Nat
  BY <1>3 DEF Paths
 <2>2. SubSeq(t.path, Len(from) + 1, Len(t.path)) \in Seq(Names) BY <2>1
 <2> DEFINE rest == SubSeq(t.path, Len(from) + 1, Len(t.path))
 <2> HIDE DEF rest
 <2>3. into \in Seq(Names) /\ into # <<>> /\ rest \in Seq(Names) BY <1>2, <2>2 DEF Paths, rest
 <2> QED BY <2>3 DEF Paths, rest
<1> HIDE DEF There
<1>5. Nodes(tmp) BY <1>3, <1>4 DEF Nodes
<1> HIDE DEF tmp, ok
<1>6. u.tmp = tmp /\ u.disk = r.disk /\ u.done = r.done /\ DOMAIN u = DOMAIN r BY DEF Script
<1> HIDE DEF u
<1> QED BY <1>1, <1>5, <1>6 DEF Script

LEMMA MakeFoldersIs ==
    ASSUME NEW r, Script(r), NEW paths \in SUBSET Seq(Names)
    PROVE  LET t == MakeFolders(r, paths)
           IN Script(t) /\ t.done = r.done /\ t.disk = r.disk
<1> DEFINE folders == (UNION {Ancestors(p) : p \in paths}) \ {<<>>}
           tmp == r.tmp \cup {Node(path, FolderKind(r.disk), None) : path \in folders}
           t == [r EXCEPT !.tmp = tmp]
<1>1. MakeFolders(r, paths) = t BY DEF MakeFolders
<1>2. folders \subseteq Paths
 <2>1. \A path \in Seq(Names) : Ancestors(path) \subseteq Seq(Names) BY FrontIs DEF Ancestors
 <2>2. ASSUME NEW q \in folders PROVE q \in Seq(Names) /\ q # <<>>
  <3>1. PICK p \in paths : q \in Ancestors(p) OBVIOUS
  <3>2. p \in Seq(Names) OBVIOUS
  <3> QED BY <2>1, <3>1, <3>2
 <2> HIDE DEF folders
 <2> QED BY <2>2 DEF Paths
<1> HIDE DEF folders
<1>3. Nodes(tmp)
 <2>2. \A p, k, d : Node(p, k, d).path = p /\ "path" \in DOMAIN Node(p, k, d) BY DEF Node
 <2>3. Nodes(r.tmp) BY DEF Script
 <2> QED BY <1>2, <2>2, <2>3 DEF Nodes
<1> HIDE DEF tmp
<1>4. t.tmp = tmp /\ t.disk = r.disk /\ t.done = r.done /\ DOMAIN t = DOMAIN r BY DEF Script
<1> HIDE DEF t
<1> QED BY <1>1, <1>3, <1>4 DEF Script

LEMMA AddIs ==
    ASSUME NEW r, Script(r), NEW paths
    PROVE  Script(Add(r, paths)) /\ Add(r, paths).done = r.done
<1> DEFINE here == {t \in r.tmp : t.path \in Range(paths)}
           kept == {m \in r.disk : m.path \notin {t.path : t \in here}}
           members == kept \cup {[path |-> t.path, kind |-> t.kind, rooted |-> FALSE,
                                  data |-> t.data] : t \in here}
           ok == \A p \in Range(paths) : \E t \in r.tmp : IsPrefix(p, t.path)
           u == [r EXCEPT !.ok = ok, !.disk = members]
<1>1. Add(r, paths) = u BY Zenon DEF Add
<1>2. Entries(members)
 <2>1. \A t \in here : t.path \in Paths BY DEF Script, Nodes
 <2>2. \A m \in kept : m.path \in Paths /\ m.rooted \in BOOLEAN BY DEF Script, Entries
 <2> DEFINE new(t) == [path |-> t.path, kind |-> t.kind, rooted |-> FALSE, data |-> t.data]
 <2>3. \A t \in here : new(t).path \in Paths /\ new(t).rooted \in BOOLEAN BY <2>1
 <2>4. members = kept \cup {new(t) : t \in here} OBVIOUS
 <2> HIDE DEF here, kept, members, new
 <2> QED BY <2>2, <2>3, <2>4 DEF Entries
<1> HIDE DEF members, ok
<1>3. u.tmp = r.tmp /\ u.disk = members /\ u.done = r.done /\ DOMAIN u = DOMAIN r BY DEF Script
<1> HIDE DEF u
<1> QED BY <1>1, <1>2, <1>3 DEF Script

\* One command done.
StepDone(r, step) ==
    CASE step.do = "extract" -> Extract(r, step.of)
      [] step.do = "remove" -> TakeOut(r, step.of)
      [] step.do = "move" -> Move(r, step.of[1], step.of[2])
      [] step.do = "folders" -> MakeFolders(r, step.of)
      [] step.do = "add" -> Add(r, step.of)
      [] OTHER -> [r EXCEPT !.ok = ~step.of.rooted,
                            !.disk = Put(@, step.of.path, "file", step.of.data)]

LEMMA StepDoneIs ==
    ASSUME NEW r, Script(r), NEW step, StepOK(step)
    PROVE  LET t == StepDone(r, step)
           IN /\ Script(t) /\ t.done = r.done
              /\ step.do \in {"folders", "extract"} => t.disk = r.disk
<1>1. CASE step.do = "extract"
 <2> QED BY <1>1, ExtractIs DEF StepDone
<1>2. CASE step.do = "remove"
 <2>1. StepDone(r, step) = TakeOut(r, step.of) BY <1>2 DEF StepDone
 <2> QED BY <1>2, <2>1, TakeOutIs
<1>3. CASE step.do = "move"
 <2>1. StepDone(r, step) = Move(r, step.of[1], step.of[2]) BY <1>3 DEF StepDone
 <2> QED BY <1>3, <2>1, MoveIs DEF StepOK
<1>4. CASE step.do = "folders"
 <2>1. StepDone(r, step) = MakeFolders(r, step.of) BY <1>4 DEF StepDone
 <2> QED BY <1>4, <2>1, MakeFoldersIs DEF StepOK
<1>5. CASE step.do = "add"
 <2>1. StepDone(r, step) = Add(r, step.of) BY <1>5 DEF StepDone
 <2> QED BY <1>5, <2>1, AddIs
<1>6. CASE step.do = "update"
 <2> DEFINE ok == ~step.of.rooted
            members == Put(r.disk, step.of.path, "file", step.of.data)
            t == [r EXCEPT !.ok = ok, !.disk = members]
 <2>1. StepDone(r, step) = t BY <1>6 DEF StepDone
 <2>2. step.of.path \in Paths BY <1>6 DEF StepOK
 <2>3. Entries(members)
  <3> DEFINE m == [path |-> step.of.path, kind |-> "file", rooted |-> FALSE, data |-> step.of.data]
  <3>1. m.path \in Paths /\ m.rooted \in BOOLEAN BY <2>2
  <3>2. members \subseteq r.disk \cup {m} BY DEF Put
  <3> HIDE DEF m, members
  <3> QED BY <3>1, <3>2 DEF Script, Entries
 <2> HIDE DEF members, ok
 <2>4. t.tmp = r.tmp /\ t.disk = members /\ t.done = r.done /\ DOMAIN t = DOMAIN r BY DEF Script
 <2> HIDE DEF t
 <2>5. Script(t) /\ t.done = r.done BY <2>3, <2>4 DEF Script
 <2> QED BY <1>6, <2>1, <2>5
<1> QED BY <1>1, <1>2, <1>3, <1>4, <1>5, <1>6 DEF StepOK

LEMMA PerformIs ==
    ASSUME NEW r, Script(r), NEW step, StepOK(step)
    PROVE  LET t == Perform(r, step)
           IN /\ Script(t)
              /\ t.done = (IF r.ok /\ t.ok THEN r.done + 1 ELSE r.done)
              /\ ~r.ok => t = r
              /\ ~t.ok \/ step.do \in {"folders", "extract"} => t.disk = r.disk
              /\ r.ok /\ t.ok => /\ StepDone(r, step).ok /\ t.disk = StepDone(r, step).disk
                                 /\ t.tmp = StepDone(r, step).tmp
<1> DEFINE u == StepDone(r, step)
           done == [u EXCEPT !.done = u.done + 1]
           failed == [r EXCEPT !.ok = FALSE]
<1>1. Perform(r, step) = IF ~r.ok THEN r ELSE IF u.ok THEN done ELSE failed
 BY Zenon DEF Perform, StepDone
<1>2. /\ Script(u) /\ u.done = r.done
      /\ step.do \in {"folders", "extract"} => u.disk = r.disk
 BY StepDoneIs
<1> HIDE DEF u
<1>3. /\ Script(done) /\ done.done = r.done + 1 /\ done.ok = u.ok
      /\ done.disk = u.disk /\ done.tmp = u.tmp
      /\ step.do \in {"folders", "extract"} => done.disk = r.disk
 <2>1. DOMAIN done = DOMAIN u /\ done.done = u.done + 1 /\ done.ok = u.ok
       /\ done.disk = u.disk /\ done.tmp = u.tmp
  BY <1>2 DEF Script
 <2> HIDE DEF done
 <2>2. done.done \in Nat BY <1>2, <2>1 DEF Script
 <2> QED BY <1>2, <2>1, <2>2 DEF Script
<1>4. Script(failed) /\ failed.done = r.done /\ failed.ok = FALSE /\ failed.disk = r.disk
 <2>1. DOMAIN failed = DOMAIN r /\ failed.done = r.done /\ failed.ok = FALSE
       /\ failed.disk = r.disk /\ failed.tmp = r.tmp
  BY DEF Script
 <2> HIDE DEF failed
 <2> QED BY <2>1 DEF Script
<1> HIDE DEF done, failed
<1> QED BY <1>1, <1>2, <1>3, <1>4 DEF u

\* What a script has done after each of its steps.
ExecutedBy(f, members, steps, n) ==
    f = [i \in 0..n |->
           IF i = 0
           THEN [disk |-> members, tmp |-> {}, ok |-> TRUE, removed |-> FALSE, done |-> 0]
           ELSE Perform(f[i - 1], steps[i])]

LEMMA ExecutedExists ==
    ASSUME NEW members, NEW steps
    PROVE  \A n \in Nat : \E f : ExecutedBy(f, members, steps, n)
<1> DEFINE t == [disk |-> members, tmp |-> {}, ok |-> TRUE, removed |-> FALSE, done |-> 0]
           Step(s, i) == Perform(s, steps[i])
           Fails == {n \in Nat : ~\E f : ExecutedBy(f, members, steps, n)}
<1>1. SUFFICES ASSUME Fails # {} PROVE FALSE OBVIOUS
<1>2. PICK n \in Fails : \A m \in Fails : ~(m < n) BY <1>1, SmallestOf
<1>5. \A f, m : ExecutedBy(f, members, steps, m)
                  <=> f = [i \in 0..m |-> IF i = 0 THEN t ELSE Step(f[i - 1], i)]
 BY Zenon DEF ExecutedBy
<1> HIDE DEF t, Step
<1>3. CASE n = 0
 <2> DEFINE f == [i \in 0..0 |-> t]
 <2>1. f = [i \in 0..0 |-> IF i = 0 THEN t ELSE Step(f[i - 1], i)] OBVIOUS
 <2>2. ExecutedBy(f, members, steps, n) BY <1>3, <1>5, <2>1
 <2> QED BY <1>2, <2>2
<1>4. CASE n # 0
 <2>1. n \in Nat /\ n - 1 \in Nat /\ n - 1 < n BY <1>2, <1>4
 <2>2. PICK g : ExecutedBy(g, members, steps, n - 1) BY <1>2, <2>1
 <2> DEFINE f == [i \in 0..n |-> IF i = n THEN Step(g[n - 1], n) ELSE g[i]]
 <2>3. g = [i \in 0..(n - 1) |-> IF i = 0 THEN t ELSE Step(g[i - 1], i)] BY <1>5, <2>2
 <2>4. \A i \in 0..(n - 1) : g[i] = IF i = 0 THEN t ELSE Step(g[i - 1], i) BY <2>3
 <2>5. \A i \in 0..(n - 1) : f[i] = g[i] BY <2>1
 <2>6. ASSUME NEW i \in 0..n
       PROVE  f[i] = IF i = 0 THEN t ELSE Step(f[i - 1], i)
  <3>1. CASE i = n
   <4>1. f[i - 1] = g[n - 1] /\ i # 0 BY <1>4, <2>1, <2>5, <3>1
   <4> QED BY <3>1, <4>1
  <3>2. CASE i # n
   <4>1. i \in 0..(n - 1) /\ (i # 0 => i - 1 \in 0..(n - 1)) BY <2>1, <3>2
   <4> QED BY <2>4, <2>5, <4>1
  <3> QED BY <3>1, <3>2
 <2> DEFINE h == [i \in 0..n |-> IF i = 0 THEN t ELSE Step(f[i - 1], i)]
 <2>7. f = h
  <3> QED BY <2>6
 <2> HIDE DEF f
 <2>8. ExecutedBy(f, members, steps, n) BY <1>5, <2>7
 <2> QED BY <1>2, <2>8
<1> QED BY <1>3, <1>4

\* A script leaves members with paths; and none changed in its first part, while it is in it.
LEMMA ExecutedIs ==
    ASSUME NEW members, Entries(members), NEW steps, NEW n \in Nat, NEW apart \in Nat,
           \A i \in 1..n : StepOK(steps[i]),
           \A i \in 1..n : i < apart => steps[i].do \in {"folders", "extract"}
    PROVE  LET r == Executed(members, steps, n)
           IN Entries(r.disk) /\ (r.done < apart => r.disk = members)
<1> DEFINE t == [disk |-> members, tmp |-> {}, ok |-> TRUE, removed |-> FALSE, done |-> 0]
           f == CHOOSE g : ExecutedBy(g, members, steps, n)
           Holds(i) == /\ Script(f[i]) /\ f[i].done <= i /\ (f[i].ok => f[i].done = i)
                       /\ f[i].done < apart => f[i].disk = members
           Fails == {i \in Nat : i <= n /\ ~Holds(i)}
<1>1. Executed(members, steps, n) = f[n] BY Zenon DEF Executed, ExecutedBy
<1>2. ExecutedBy(f, members, steps, n) BY ExecutedExists
<1> HIDE DEF f
<1>3. \A i \in 0..n : f[i] = IF i = 0 THEN t ELSE Perform(f[i - 1], steps[i]) BY <1>2 DEF ExecutedBy
<1>4. Script(t) /\ t.done = 0 /\ t.disk = members BY DEF Script, Nodes
<1> HIDE DEF t
<1>5. ASSUME Fails # {} PROVE FALSE
 <2>1. PICK i \in Fails : \A j \in Fails : ~(j < i) BY <1>5, SmallestOf
 <2>2. i \in 0..n BY <2>1
 <2>3. CASE i = 0
  <3>1. f[i] = t BY <1>3, <2>2, <2>3
  <3>2. Holds(i) BY <1>4, <2>3, <3>1
  <3> QED BY <2>1, <3>2
 <2>4. CASE i # 0
  <3>1. i - 1 \in Nat /\ i - 1 <= n /\ i - 1 < i /\ i \in 1..n BY <2>2, <2>4
  <3>2. Holds(i - 1) BY <2>1, <3>1
  <3> DEFINE r == f[i - 1]
             u == f[i]
  <3>3. u = Perform(r, steps[i]) BY <1>3, <2>2, <2>4
  <3>4. /\ Script(r) /\ r.done <= i - 1 /\ (r.ok => r.done = i - 1)
        /\ r.done < apart => r.disk = members
   BY <3>2
  <3> DEFINE step == steps[i]
  <3>7. StepOK(step) /\ (i < apart => step.do \in {"folders", "extract"}) BY <3>1
  <3>10. u = Perform(r, step) BY <3>3
  <3> HIDE DEF r, u, step
  <3>6. /\ Script(u)
        /\ u.done = (IF r.ok /\ u.ok THEN r.done + 1 ELSE r.done)
        /\ ~r.ok => u = r
        /\ ~u.ok \/ step.do \in {"folders", "extract"} => u.disk = r.disk
   BY <3>4, <3>7, <3>10, PerformIs
  <3>5. r.done \in Nat /\ u.done \in Nat BY <3>4, <3>6 DEF Script
  <3>8. u.done <= i /\ (u.ok => u.done = i) /\ (u.done < apart => u.disk = members)
   <4>1. CASE ~r.ok BY <3>1, <3>4, <3>5, <3>6, <4>1
   <4>2. CASE r.ok /\ ~u.ok BY <3>1, <3>4, <3>5, <3>6, <4>2
   <4>3. CASE r.ok /\ u.ok
    <5>1. u.done = i /\ r.done = i - 1 BY <3>1, <3>4, <3>5, <3>6, <4>3
    <5>2. u.done < apart => r.done < apart /\ i < apart BY <3>1, <5>1
    <5> QED BY <3>1, <3>4, <3>6, <3>7, <5>1, <5>2
   <4> QED BY <4>1, <4>2, <4>3
  <3>9. Holds(i) BY <3>6, <3>8 DEF u
  <3> QED BY <2>1, <3>9
 <2> QED BY <2>3, <2>4
<1>6. Holds(n) BY <1>5
<1> QED BY <1>1, <1>6 DEF Script

----
(* Lists of names, and of steps. *)

LEMMA NameListOf ==
    ASSUME NEW S, NEW list \in Seq(S), \A x \in S : x.path \in Paths
    PROVE  NameList(list)
<1>1. \A i \in DOMAIN list : list[i] \in S OBVIOUS
<1>2. list \in Seq(Range(list)) BY DEF Range
<1> QED BY <1>1, <1>2 DEF NameList

LEMMA NameListRange ==
    ASSUME NEW list, NameList(list)
    PROVE  list \in Seq(Range(list)) /\ \A x \in Range(list) : x.path \in Paths
BY DEF NameList, Range

LEMMA NamesOfIs ==
    ASSUME NEW s, Window(s), NEW entries
    PROVE  NameList(NamesOf(Listed(s, entries)))
<1> DEFINE list == Only(s.files, entries)
<1>1. s.files \in Seq(Range(s.files)) /\ \A m \in Range(s.files) : m.path \in Paths
 BY Zenon DEF Window, Entries
<1>2. list \in Seq(Range(s.files)) BY <1>1, OnlyIs
<1>3. Listed(s, entries) = list BY DEF Listed
<1> HIDE DEF list
<1> DEFINE names == [i \in DOMAIN list |-> Name(list[i])]
           S == {Name(m) : m \in Range(s.files)}
<1>4. names \in Seq(S) BY <1>2
<1>5. \A m : Name(m).path = m.path BY DEF Name
<1>6. \A x \in S : x.path \in Paths BY <1>1, <1>5
<1> HIDE DEF names, S
<1>7. NameList(names) BY <1>4, <1>6, NameListOf
<1> QED BY <1>3, <1>7 DEF NamesOf, names

LEMMA ReverseIs ==
    ASSUME NEW list, NameList(list)
    PROVE  NameList(Reverse(list))
<1>1. list \in Seq(Range(list)) /\ \A x \in Range(list) : x.path \in Paths BY NameListRange
<1>2. Reverse(list) \in Seq(Range(list)) BY <1>1 DEF Reverse
<1> QED BY <1>1, <1>2, NameListOf

LEMMA OnlyNames ==
    ASSUME NEW list, NameList(list), NEW set
    PROVE  NameList(Only(list, set))
<1>1. list \in Seq(Range(list)) /\ \A x \in Range(list) : x.path \in Paths BY NameListRange
<1>2. Only(list, set) \in Seq(Range(list)) BY <1>1, OnlyIs
<1> QED BY <1>1, <1>2, NameListOf

StepList(steps) == \E S : steps \in Seq(S) /\ \A step \in S : StepOK(step)

LEMMA StepsBoth ==
    ASSUME NEW a, NEW b, StepList(a), StepList(b)
    PROVE  StepList(a \o b)
<1>1. PICK S : a \in Seq(S) /\ \A step \in S : StepOK(step) BY DEF StepList
<1>2. PICK T : b \in Seq(T) /\ \A step \in T : StepOK(step) BY DEF StepList
<1> DEFINE U == S \cup T
<1>3. a \in Seq(U) /\ b \in Seq(U) BY <1>1, <1>2
<1>4. \A step \in U : StepOK(step) BY <1>1, <1>2
<1> HIDE DEF U
<1>5. a \o b \in Seq(U) BY <1>3
<1> QED BY <1>4, <1>5 DEF StepList

LEMMA OneStep ==
    ASSUME NEW step, StepOK(step) PROVE StepList(<<step>>) /\ StepList(<<>>)
<1> DEFINE S == {step}
<1>1. <<step>> \in Seq(S) /\ <<>> \in Seq(S) /\ \A x \in S : StepOK(x) OBVIOUS
<1> HIDE DEF S
<1> QED BY <1>1 DEF StepList

LEMMA TwoSteps ==
    ASSUME NEW x, StepOK(x), NEW y, StepOK(y)
    PROVE  StepList(<<x, y>>)
<1> DEFINE S == {x, y}
<1>1. <<x, y>> \in Seq(S) OBVIOUS
<1>2. \A z \in S : StepOK(z) OBVIOUS
<1> HIDE DEF S
<1> QED BY <1>1, <1>2 DEF StepList

\* What a list begins with, another list after it.
LEMMA Longer ==
    ASSUME NEW S, NEW T, NEW a \in Seq(S), NEW b \in Seq(T)
    PROVE  /\ Len(a \o b) = Len(a) + Len(b) /\ Len(a) \in Nat /\ Len(b) \in Nat
           /\ \A i \in 1..Len(a) : (a \o b)[i] = a[i]
<1> DEFINE U == S \cup T
<1>1. a \in Seq(U) /\ b \in Seq(U) OBVIOUS
<1> HIDE DEF U
<1>2. Len(a \o b) = Len(a) + Len(b) /\ Len(a) \in Nat /\ Len(b) \in Nat BY <1>1
<1>3. \A i \in 1..Len(a) : (a \o b)[i] = a[i] BY <1>1, ConcatProperties
<1> QED BY <1>2, <1>3

LEMMA SomeSteps ==
    ASSUME NEW n \in Nat, NEW steps, DOMAIN steps = 1..n, steps = [i \in 1..n |-> steps[i]],
           \A i \in 1..n : StepOK(steps[i])
    PROVE  StepList(steps)
<1> DEFINE S == {steps[i] : i \in 1..n}
<1>1. steps \in Seq(S) OBVIOUS
<1>2. \A step \in S : StepOK(step) OBVIOUS
<1> QED BY <1>1, <1>2 DEF StepList

\* The steps that ask for nothing of what they are for.
LEMMA PlainSteps ==
    ASSUME NEW what \in {"extract", "remove", "add"}, NEW of
    PROVE  StepOK(Do(what, of))
BY DEF StepOK, Do

LEMMA OpIs ==
    ASSUME NEW kind, NEW steps, StepList(steps), NEW apart \in Nat,
           \A i \in DOMAIN steps : i < apart => steps[i].do \in {"folders", "extract"},
           kind = "open" => 1 \in DOMAIN steps /\ NameList(steps[1].of)
    PROVE  OpOK([kind |-> kind, steps |-> steps, apart |-> apart])
<1>1. steps \in Seq(Range(steps)) /\ \A i \in DOMAIN steps : StepOK(steps[i])
 <2>1. PICK S : steps \in Seq(S) /\ \A step \in S : StepOK(step) BY DEF StepList
 <2> QED BY <2>1 DEF Range
<1> DEFINE op == [kind |-> kind, steps |-> steps, apart |-> apart]
<1>2. op.kind = kind /\ op.steps = steps /\ op.apart = apart /\ DOMAIN op = {"kind", "steps", "apart"}
 OBVIOUS
<1> HIDE DEF op
<1> QED BY <1>1, <1>2 DEF OpOK, op

LEMMA RenameStepsAre ==
    ASSUME NEW parent \in Seq(Names), NEW old_name \in Names, NEW new_name \in Names,
           NEW trailing, NEW entries, NameList(NamesOf(entries)), NEW folder, NEW is_dir
    PROVE  StepList(RenameSteps(parent, old_name, new_name, trailing, entries, folder, is_dir))
<1> DEFINE list == NamesOf(entries)
           n == Len(parent) + 1
           Off(name) == name.rooted /\ parent # <<>> /\ ~trailing
           Renamed(name) ==
              (IF Off(name) THEN parent \o <<new_name, Garbled>> ELSE Append(parent, new_name))
                \o SubSeq(name.path, n + 1, Len(name.path))
           added == IF folder = None \/ folder \in Range(list) THEN <<>> ELSE <<folder>>
           moves == IF is_dir THEN << <<Append(parent, old_name), Append(parent, new_name)>> >>
                    ELSE [i \in DOMAIN list |-> <<list[i].path, Renamed(list[i])>>]
           a == << Do("extract", OrNull(list)), Do("remove", OrNull(added \o list)) >>
           b == [i \in DOMAIN moves |-> Do("move", moves[i])]
           c == IF list = <<>> THEN <<>> ELSE << Do("add", [i \in DOMAIN list |-> Renamed(list[i])]) >>
<1>1. RenameSteps(parent, old_name, new_name, trailing, entries, folder, is_dir) = a \o b \o c
 BY Zenon DEF RenameSteps
<1>2. StepList(a)
 <2>1. /\ StepOK(Do("extract", OrNull(list))) /\ StepOK(Do("remove", OrNull(added \o list)))
  BY PlainSteps
 <2> DEFINE x == Do("extract", OrNull(list))
            y == Do("remove", OrNull(added \o list))
 <2>2. a = <<x>> \o <<y>> BY DEF x, y
 <2> HIDE DEF x, y, a
 <2> QED BY <2>1, <2>2, OneStep, StepsBoth DEF x, y
<1>3. StepList(c)
 <2> DEFINE x == Do("add", [i \in DOMAIN list |-> Renamed(list[i])])
 <2>1. StepOK(x) BY PlainSteps
 <2> HIDE DEF x
 <2> QED BY <2>1, OneStep DEF x
<1>4. \A i \in DOMAIN list : list[i].path \in Paths BY DEF NameList
<1>5. DOMAIN list = 1..Len(list) /\ Len(list) \in Nat
 <2>1. list \in Seq(Range(list)) BY Zenon DEF NameList
 <2> HIDE DEF list
 <2> QED BY <2>1
<1>6. \A name : name.path \in Paths => Renamed(name) \in Seq(Names)
 <2> SUFFICES ASSUME NEW name, name.path \in Paths PROVE Renamed(name) \in Seq(Names) OBVIOUS
 <2> DEFINE x == IF Off(name) THEN parent \o <<new_name, Garbled>> ELSE Append(parent, new_name)
            y == SubSeq(name.path, n + 1, Len(name.path))
 <2>1. x \in Seq(Names)
  <3>1. <<new_name, Garbled>> \in Seq(Names) BY EditAssumption
  <3> QED BY <3>1
 <2>2. y \in Seq(Names)
  <3> QED BY DEF Paths
 <2> HIDE DEF x, y
 <2> QED BY <2>1, <2>2 DEF x, y
<1> HIDE DEF Renamed, Off, a, c, added
<1>7. StepList(b)
 <2>1. \A from \in Paths : \A to \in Seq(Names) : StepOK(Do("move", <<from, to>>))
  BY DEF StepOK, Do
 <2>2. CASE is_dir
  <3> DEFINE x == Append(parent, old_name)
             y == Append(parent, new_name)
             m == Do("move", <<x, y>>)
  <3>1. x \in Paths /\ y \in Seq(Names)
   <4>1. x \in Seq(Names) /\ y \in Seq(Names) /\ Len(x) = Len(parent) + 1 /\ Len(parent) \in Nat
    OBVIOUS
   <4> HIDE DEF x, y
   <4> QED BY <4>1 DEF Paths
  <3>4. moves = << <<x, y>> >> BY <2>2
  <3> HIDE DEF x, y, moves
  <3>2. StepOK(m) BY <2>1, <3>1
  <3>3. b = <<m>>
   <4>1. DOMAIN moves = {1} /\ moves[1] = <<x, y>> BY <3>4
   <4>2. b = [i \in {1} |-> m] BY <4>1
   <4> HIDE DEF m, b
   <4> QED BY <4>2
  <3> HIDE DEF m, b
  <3> QED BY <3>2, <3>3, OneStep
 <2>3. CASE ~is_dir
  <3> DEFINE g == [i \in 1..Len(list) |-> Do("move", <<list[i].path, Renamed(list[i])>>)]
  <3>1. b = g BY <1>5, <2>3
  <3>2. \A i \in 1..Len(list) : StepOK(g[i]) BY <1>4, <1>5, <1>6, <2>1
  <3>3. DOMAIN g = 1..Len(list) /\ g = [i \in 1..Len(list) |-> g[i]] OBVIOUS
  <3> HIDE DEF g, b
  <3>4. StepList(g) BY <1>5, <3>2, <3>3, SomeSteps
  <3> QED BY <3>1, <3>4
 <2> QED BY <2>2, <2>3
<1> HIDE DEF b
<1>8. StepList(a \o b) BY <1>2, <1>7, StepsBoth
<1> DEFINE ab == a \o b
<1>9. StepList(ab) BY <1>8
<1>10. RenameSteps(parent, old_name, new_name, trailing, entries, folder, is_dir) = ab \o c BY <1>1
<1> HIDE DEF ab
<1> QED BY <1>3, <1>9, <1>10, StepsBoth

DataOK(data) ==
    /\ DOMAIN data = {"files", "op", "base_dir", "pasted"}
    /\ NameList(data.files) /\ data.base_dir \in Seq(Names)

LEMMA PasteStepsAre ==
    ASSUME NEW data, DataOK(data), NEW current_dir \in Seq(Names), NEW apart \in 2..3
    PROVE  LET steps == PasteSteps(data, current_dir)
           IN /\ StepList(steps)
              /\ \A i \in DOMAIN steps : i < apart => steps[i].do \in {"folders", "extract"}
<1> DEFINE n == Len(data.base_dir)
           New(name) == current_dir \o SubSeq(name.path, n + 1, Len(name.path))
           Same(name) == New(name) = name.path /\ ~name.rooted
           moved == Only(data.files, {name \in Range(data.files) : ~Same(name) /\ ~name.slash})
           dirs == {IF name.slash THEN New(name) ELSE Front(New(name)) : name \in Range(data.files)}
           x == Do("folders", dirs)
           y == Do("extract", OrNull(data.files))
           a == << x, y >>
           b == IF data.op = "CUT" THEN << Do("remove", data.files) >> ELSE <<>>
           c == [i \in DOMAIN moved |-> Do("move", <<moved[i].path, New(moved[i])>>)]
           d == IF data.files = <<>> THEN <<>>
                ELSE << Do("add", [i \in DOMAIN data.files |-> New(data.files[i])]) >>
<1>1. PasteSteps(data, current_dir) = ((a \o b) \o c) \o d BY Zenon DEF PasteSteps
<1>2. /\ data.files \in Seq(Range(data.files)) /\ n \in Nat
      /\ \A name \in Range(data.files) : name.path \in Paths
 <2>1. NameList(data.files) /\ data.base_dir \in Seq(Names) BY Zenon DEF DataOK
 <2> QED BY <2>1, NameListRange
<1> HIDE DEF n
<1>3. \A name : name.path \in Paths => New(name) \in Seq(Names)
 <2> SUFFICES ASSUME NEW name, name.path \in Paths PROVE New(name) \in Seq(Names) OBVIOUS
 <2> DEFINE z == SubSeq(name.path, n + 1, Len(name.path))
 <2>2. z \in Seq(Names)
  <3>1. name.path \in Seq(Names) /\ Len(name.path) \in Nat BY DEF Paths
  <3> QED BY <1>2, <3>1
 <2> HIDE DEF z
 <2> QED BY <2>2 DEF z
<1> HIDE DEF New
<1>4. dirs \subseteq Seq(Names)
 <2>1. \A p \in Seq(Names) : Front(p) \in Seq(Names)
  <3> SUFFICES ASSUME NEW p \in Seq(Names) PROVE SubSeq(p, 1, Len(p) - 1) \in Seq(Names)
   BY DEF Front
  <3> QED BY FrontIs, LenProperties, EmptySeq
 <2> QED BY <1>2, <1>3, <2>1
<1> HIDE DEF dirs
<1>5. /\ StepOK(x) /\ x.do = "folders" /\ StepOK(y) /\ y.do = "extract"
 BY <1>4, PlainSteps DEF StepOK, Do
<1> HIDE DEF x, y
<1>6. StepList(a) /\ Len(a) = 2 /\ a[1] = x /\ a[2] = y
 <2>1. StepList(a) BY <1>5, TwoSteps
 <2>2. Len(a) = 2 /\ a[1] = x /\ a[2] = y OBVIOUS
 <2> HIDE DEF a
 <2> QED BY <2>1, <2>2
<1> HIDE DEF a
<1>7. StepList(b)
 <2> DEFINE z == Do("remove", data.files)
 <2>1. StepOK(z) BY PlainSteps
 <2>2. b = IF data.op = "CUT" THEN <<z>> ELSE <<>> OBVIOUS
 <2> HIDE DEF z, b
 <2>3. StepList(<<z>>) /\ StepList(<<>>) BY <2>1, OneStep
 <2> QED BY <2>2, <2>3
<1>8. StepList(d)
 <2> DEFINE z == Do("add", [i \in DOMAIN data.files |-> New(data.files[i])])
 <2>1. StepOK(z) BY PlainSteps
 <2>2. d = IF data.files = <<>> THEN <<>> ELSE <<z>> OBVIOUS
 <2> HIDE DEF z, d
 <2>3. StepList(<<z>>) /\ StepList(<<>>) BY <2>1, OneStep
 <2> QED BY <2>2, <2>3
<1> HIDE DEF b, d
<1>9. StepList(c)
 <2>1. moved \in Seq(Range(data.files)) BY <1>2, OnlyIs
 <2> HIDE DEF moved
 <2>2. /\ DOMAIN moved = 1..Len(moved) /\ Len(moved) \in Nat
       /\ \A i \in 1..Len(moved) : moved[i].path \in Paths
  BY <1>2, <2>1
 <2>3. \A from \in Paths : \A to \in Seq(Names) : StepOK(Do("move", <<from, to>>))
  BY DEF StepOK, Do
 <2>4. \A i \in 1..Len(moved) : StepOK(c[i]) BY <1>3, <2>2, <2>3
 <2>5. DOMAIN c = 1..Len(moved) /\ c = [i \in 1..Len(moved) |-> c[i]] BY <2>2
 <2> HIDE DEF c
 <2> QED BY <2>2, <2>4, <2>5, SomeSteps
<1> HIDE DEF c
<1> DEFINE ab == a \o b
           abc == ab \o c
           steps == abc \o d
<1>10. StepList(ab) BY <1>6, <1>7, StepsBoth
<1>11. PICK S : a \in Seq(S) BY <1>6 DEF StepList
<1>12. PICK T : b \in Seq(T) BY <1>7 DEF StepList
<1>13. /\ Len(ab) \in Nat /\ Len(ab) >= 2 /\ ab[1] = x /\ ab[2] = y
 <2>3. /\ Len(a \o b) = Len(a) + Len(b) /\ Len(b) \in Nat
       /\ \A i \in 1..Len(a) : (a \o b)[i] = a[i]
  BY <1>11, <1>12, Longer
 <2>4. Len(a) = 2 /\ 1 \in 1..Len(a) /\ 2 \in 1..Len(a) BY <1>6
 <2>1. Len(b) \in Nat /\ Len(ab) = 2 + Len(b) BY <2>3, <2>4
 <2>2. ab[1] = a[1] /\ ab[2] = a[2] BY <2>3, <2>4
 <2> HIDE DEF ab
 <2> QED BY <1>6, <2>1, <2>2
<1> HIDE DEF ab
<1>14. StepList(abc) BY <1>9, <1>10, StepsBoth
<1>15. PICK A : ab \in Seq(A) BY <1>10 DEF StepList
<1>16. PICK C : c \in Seq(C) BY <1>9 DEF StepList
<1>22. PICK D : d \in Seq(D) BY <1>8 DEF StepList
<1>23. /\ Len(abc) \in Nat /\ Len(abc) >= 2 /\ abc[1] = x /\ abc[2] = y
 <2>1. Len(c) \in Nat /\ Len(abc) = Len(ab) + Len(c) BY <1>15, <1>16, Longer
 <2>2. 1 \in 1..Len(ab) /\ 2 \in 1..Len(ab) BY <1>13
 <2>3. abc[1] = ab[1] /\ abc[2] = ab[2] BY <1>15, <1>16, <2>2, Longer
 <2> HIDE DEF abc
 <2> QED BY <1>13, <2>1, <2>3
<1> HIDE DEF abc
<1>17. StepList(steps) BY <1>8, <1>14, StepsBoth
<1>18. PICK B : abc \in Seq(B) BY <1>14 DEF StepList
<1>19. steps[1] = x /\ steps[2] = y /\ (\A i \in DOMAIN steps : i \in Nat /\ i >= 1)
 <2>2. 1 \in 1..Len(abc) /\ 2 \in 1..Len(abc) BY <1>23
 <2>3. steps[1] = abc[1] /\ steps[2] = abc[2] BY <1>18, <1>22, <2>2, Longer
 <2> HIDE DEF steps
 <2>4. PICK Q : steps \in Seq(Q) BY <1>17 DEF StepList
 <2> QED BY <1>23, <2>3, <2>4
<1> HIDE DEF steps
<1>20. \A i \in DOMAIN steps : i < apart => i \in {1, 2} BY <1>19
<1>21. PasteSteps(data, current_dir) = steps BY <1>1 DEF steps, abc, ab
<1> QED BY <1>5, <1>17, <1>19, <1>20, <1>21

----
(* The steps of the window. *)

LEMMA InvIs ==
    ASSUME Entries(disk'), Good(w'), Edit(e'), Busy', Follows', Dragging'
    PROVE  IInv'
BY DEF IInv, Good

LEMMA BitIs == \A b \in BOOLEAN : Bit(b) \in {0, 1} /\ (Bit(b) = 1 <=> b)
BY DEF Bit

LEMMA CountIs ==
    ASSUME IInv
    PROVE  /\ Good(w) /\ w.activity_ref \in Nat /\ w.loading \in BOOLEAN /\ Runs(e) \in BOOLEAN
           /\ w.icons_changed \in BOOLEAN
           /\ ~w.loading /\ ~Runs(e) => Running = 0
           /\ w.loading \/ Runs(e) => Running = 1
           /\ ~(w.loading /\ Runs(e))
           /\ w.activity_ref = Running \/ (w.icons_changed /\ w.activity_ref = Running + 1)
           /\ Stuck <=> w.activity_ref # Running
           /\ Idle => ~w.loading /\ ~Runs(e) /\ ~Stuck
<1>1. Good(w) /\ Busy BY DEF IInv, Good
<1>2. w.activity_ref \in Nat /\ w.loading \in BOOLEAN /\ w.icons_changed \in BOOLEAN
 BY <1>1 DEF Good, Window
<1>3. Runs(e) \in BOOLEAN BY DEF Runs
<1>4. Running = Bit(w.loading) + Bit(Runs(e)) BY DEF Running
<1>5. Bit(w.loading) \in {0, 1} /\ Bit(Runs(e)) \in {0, 1}
      /\ (Bit(w.loading) = 1 <=> w.loading) /\ (Bit(Runs(e)) = 1 <=> Runs(e))
 BY <1>2, <1>3, BitIs
<1>6. /\ w.activity_ref = Running \/ (w.icons_changed /\ w.activity_ref = Running + 1)
      /\ ~(w.loading /\ Runs(e))
 BY <1>1 DEF Busy
<1>7. Stuck <=> w.activity_ref # Running BY DEF Stuck
<1>8. Idle <=> w.activity_ref = 0 BY DEF Idle
<1> QED BY <1>1, <1>2, <1>3, <1>4, <1>5, <1>6, <1>7, <1>8

LEMMA RunningNow ==
    ASSUME w'.loading \in BOOLEAN, Runs(e') \in BOOLEAN
    PROVE  /\ ~w'.loading /\ ~Runs(e') => Running' = 0
           /\ ~(w'.loading /\ Runs(e')) /\ (w'.loading \/ Runs(e')) => Running' = 1
<1>1. Running' = Bit(w'.loading) + Bit(Runs(e')) BY DEF Running
<1>5. Bit(w'.loading) \in {0, 1} /\ Bit(Runs(e')) \in {0, 1}
      /\ (Bit(w'.loading) = 1 <=> w'.loading) /\ (Bit(Runs(e')) = 1 <=> Runs(e'))
 BY BitIs
<1> QED BY <1>1, <1>5

\* What is shown stays what is in the archive.
LEMMA MovedKeeps ==
    ASSUME IInv, Moved(w, w'), disk' = disk, Runs(e') = Runs(e)
    PROVE  Entries(disk') /\ Good(w') /\ Busy' /\ Follows'
<1>1. /\ w'.files = w.files /\ w'.loading = w.loading /\ w'.archive_present = w.archive_present
      /\ w'.activity_ref = w.activity_ref /\ w'.icons_changed = w.icons_changed
      /\ Good(w') /\ (InOrder(w.files) /\ Sees(w) => Sees(w'))
 BY DEF Moved, KeptFields
<1>2. Running' = Running BY <1>1 DEF Running
<1>3. Busy' BY <1>1, <1>2 DEF IInv, Busy
<1>4. Stuck' = Stuck BY <1>1, <1>2 DEF Stuck
<1>5. Follows' BY <1>1, <1>4 DEF IInv, Follows
<1> QED BY <1>1, <1>3, <1>5 DEF IInv

\* A listing begun.
LEMMA LoadKeeps ==
    ASSUME NEW s, Good(s), s.activity_ref = 0, w' = StartLoad(s), ~Runs(e')
    PROVE  Good(w') /\ Busy' /\ Follows' /\ w'.refs = s.refs /\ w'.selected = s.selected
<1> DEFINE t == StartLoad(s)
<1>1. /\ Good(t) /\ t.activity_ref = s.activity_ref + 1
      /\ Apart({"freed_read", "activity_ref", "files", "names", "rows_live", "loading",
                        "selected_then"}, s, t)
      /\ t.files = <<>> /\ t.loading
 BY StartLoadIs
<1>2. w' = t OBVIOUS
<1> HIDE DEF t
<1>3. t.refs = s.refs /\ t.selected = s.selected BY <1>1 DEF Apart, Fields
<1>4. t.loading \in BOOLEAN BY <1>1 DEF Good, Window
<1>5. Runs(e') \in BOOLEAN BY DEF Runs
<1>10. w'.loading \in BOOLEAN /\ w'.loading /\ ~Runs(e') BY <1>1, <1>2, <1>4
<1>11. Running' = 1 BY <1>5, <1>10, RunningNow
<1>6. Running' = 1 /\ w'.activity_ref = 1 /\ w'.loading BY <1>1, <1>2, <1>10, <1>11
<1>7. Busy' BY <1>6 DEF Busy
<1>8. Range(t.files) \subseteq disk'
 <2> QED BY <1>1 DEF Range
<1>9. Follows' BY <1>2, <1>6, <1>8 DEF Follows
<1> QED BY <1>1, <1>2, <1>3, <1>7, <1>9

LEMMA OpenKeeps ==
    ASSUME IInv, Open \/ Reload, Runs(e') = Runs(e)
    PROVE  Entries(disk') /\ Good(w') /\ Busy' /\ Follows'
<1>1. Idle /\ w' = StartLoad(Act(w)) /\ disk' = disk BY DEF Open, Reload
<1>2. Good(w) /\ ~Runs(e) BY <1>1, CountIs
<1> DEFINE s == Act(w)
<1>3. Good(s) /\ Apart({"acts"}, w, s) BY <1>2, ActIs
<1>4. w' = StartLoad(s) BY <1>1
<1> HIDE DEF s
<1>5. s.activity_ref = 0 BY <1>1, <1>3 DEF Apart, Fields, Idle
<1> QED BY <1>1, <1>2, <1>3, <1>4, <1>5, LoadKeeps DEF IInv

LEMMA ReadMemberKeeps ==
    ASSUME IInv, ReadMember, Runs(e') = Runs(e)
    PROVE  /\ Entries(disk') /\ Good(w') /\ Busy' /\ Follows'
           /\ w'.refs = w.refs /\ w'.selected = w.selected
<1> DEFINE m == CHOOSE entry \in disk \ Range(w.files) : TRUE
           files == Append(w.files, m)
           t == [w EXCEPT !.files = files]
<1>1. w.loading /\ Range(w.files) # disk /\ w' = t /\ disk' = disk BY DEF ReadMember
<1>2. Range(w.files) \subseteq disk /\ Good(w) /\ Entries(disk) BY <1>1 DEF IInv, Follows, Good
<1>3. m \in disk BY <1>1, <1>2
<1> HIDE DEF m
<1>4. w.files \in Seq(Range(w.files)) /\ DOMAIN w = Fields BY <1>2, Zenon DEF Good, Window
<1>5. w.files \in Seq(disk) BY <1>2, <1>4
<1>6. files \in Seq(disk) BY <1>3, <1>5
<1> HIDE DEF files
<1>7. Range(files) \subseteq disk /\ files \in Seq(Range(files)) BY <1>6 DEF Range
<1>8. Apart({"files"}, w, t) /\ t.files = files BY <1>4 DEF Apart, Fields
<1> HIDE DEF t
<1>9. Entries(Range(t.files)) /\ t.files \in Seq(Range(t.files)) BY <1>2, <1>7, <1>8 DEF Entries
<1>15. Range(w.files) \subseteq Range(files)
 <2>1. files = Append(w.files, m) /\ w.files \in Seq(disk) BY <1>5 DEF files
 <2> QED BY <2>1, <1>3 DEF Range
<1>10. Window(t) /\ Read(t)
 <2>1. Window(t) BY <1>2, <1>8, <1>9 DEF Good, Window, Apart, Fields
 <2>2. Read(t) BY <1>2, <1>8, <1>15 DEF Good, Read, Apart, Fields
 <2> QED BY <2>1, <2>2
<1>11. /\ t.loading = w.loading /\ t.activity_ref = w.activity_ref
       /\ t.icons_changed = w.icons_changed /\ t.refs = w.refs /\ t.selected = w.selected
 BY <1>8 DEF Apart, Fields
<1>12. Running' = Running BY <1>1, <1>11 DEF Running
<1>13. Busy' BY <1>1, <1>11, <1>12 DEF IInv, Busy
<1>14. Follows' BY <1>1, <1>7, <1>8, <1>11 DEF Follows
<1> QED BY <1>1, <1>2, <1>10, <1>11, <1>13, <1>14 DEF Good

LEMMA EndLoadKeeps ==
    ASSUME IInv, EndLoad, Runs(e') = Runs(e)
    PROVE  Entries(disk') /\ Good(w') /\ Busy' /\ Follows' /\ Held(w, w')
<1>1. /\ w.loading /\ disk' = disk
      /\ \/ Range(w.files) = disk /\ w' = ListingDone(w)
         \/ w' = ListingFailed(w)
 BY DEF EndLoad
<1>2. /\ Good(w) /\ ~Runs(e) /\ Running = 1 /\ w.activity_ref \in Nat /\ w.activity_ref > 0
      /\ w.activity_ref = 1 \/ (w.icons_changed /\ w.activity_ref = 2)
 BY <1>1, CountIs
<1>3. CASE Range(w.files) = disk /\ w' = ListingDone(w)
 <2> DEFINE t == ListingDone(w)
 <2>1. /\ Good(t) /\ t.activity_ref = w.activity_ref - 1 /\ Held(w, t)
       /\ Apart(ViewFields \cup {"archive_present", "loading", "activity_ref", "files"}, w, t)
       /\ t.archive_present /\ ~t.loading
       /\ Range(t.files) = Range(w.files) /\ InOrder(t.files) /\ Sees(t)
  BY <1>2, ListingDoneIs
 <2>2. w' = t BY <1>3
 <2> HIDE DEF t
 <2>3. t.icons_changed = w.icons_changed /\ t.loading \in BOOLEAN /\ Runs(e') \in BOOLEAN
  BY <2>1 DEF Apart, Fields, ViewFields, Runs, Good, Window
 <2>4. Running' = 0 BY <1>2, <2>1, <2>2, <2>3, RunningNow
 <2>5. Busy' BY <1>2, <2>1, <2>2, <2>3, <2>4 DEF Busy
 <2>6. Follows' BY <1>1, <1>3, <2>1, <2>2 DEF Follows
 <2> QED BY <1>1, <2>1, <2>2, <2>5, <2>6 DEF IInv
<1>4. CASE w' = ListingFailed(w)
 <2> DEFINE t == ListingFailed(w)
 <2>1. /\ Good(t) /\ t.activity_ref = w.activity_ref - 1 /\ Held(w, t)
       /\ Apart(ViewFields \cup {"archive_present", "loading", "activity_ref"}, w, t)
       /\ ~t.archive_present /\ ~t.loading
  BY <1>2, ListingFailedIs
 <2>2. w' = t BY <1>4
 <2> HIDE DEF t
 <2>3. t.icons_changed = w.icons_changed /\ t.loading \in BOOLEAN /\ Runs(e') \in BOOLEAN
  BY <2>1 DEF Apart, Fields, ViewFields, Runs, Good, Window
 <2>4. Running' = 0 BY <1>2, <2>1, <2>2, <2>3, RunningNow
 <2>5. Busy' BY <1>2, <2>1, <2>2, <2>3, <2>4 DEF Busy
 <2>6. Follows' BY <2>1, <2>2 DEF Follows
 <2> QED BY <1>1, <2>1, <2>2, <2>5, <2>6 DEF IInv
<1> QED BY <1>1, <1>3, <1>4

LEMMA IconsKeep ==
    ASSUME IInv, IconsChanged, Runs(e') = Runs(e)
    PROVE  Entries(disk') /\ Good(w') /\ Busy' /\ Follows' /\ Held(w, w')
<1>1. /\ Good(w) /\ w.activity_ref \in Nat /\ w.loading \in BOOLEAN
      /\ w.activity_ref = Running \/ (w.icons_changed /\ w.activity_ref = Running + 1)
      /\ ~(w.loading /\ Runs(e)) /\ (Running \in Nat)
 <2> QED BY CountIs
<1>2. /\ Good(w') /\ Held(w, w') /\ ~w.icons_changed /\ w'.icons_changed
      /\ w'.files = w.files /\ w'.loading = w.loading
      /\ w'.archive_present = w.archive_present
      /\ w'.activity_ref = w.activity_ref + (IF w.archive_present THEN 1 ELSE 0)
 BY <1>1, IconsChangedIs
<1>3. disk' = disk BY DEF IconsChanged
<1>4. Running' = Running BY <1>2 DEF Running
<1>5. Busy' BY <1>1, <1>2, <1>4 DEF Busy
<1>6. w'.archive_present => Stuck' BY <1>1, <1>2, <1>4 DEF Stuck
<1>7. Follows' BY <1>2, <1>3, <1>6 DEF IInv, Follows
<1> QED BY <1>2, <1>3, <1>5, <1>7 DEF IInv

LEMMA BrowseMoves ==
    ASSUME Good(w), Browse
    PROVE  Moved(w, w') \/ Open \/ Reload \/ ReadMember \/ EndLoad \/ IconsChanged
<1> QED
 BY GoUpMoves, GoBackMoves, GoForwardMoves, GoHomeMoves, DeactivateFilterMoves, SelectMoves,
    SelectFolderMoves, UnselectFolderMoves, TypeLocationMoves, ActivateRowMoves, SetListModeMoves,
    TypeFilterMoves, ActivateFilterMoves, ViewFoldersMoves, ThemeChangedMoves, Zenon DEF Browse,
    KeyPress, FileButtonPress, TreeButtonPress

\* The archive as it was, a move of the window in it.
LEMMA BrowseSame == Browse => disk' = disk
BY Zenon DEF Browse, KeyPress, FileButtonPress, TreeButtonPress, Open, Reload, ReadMember, EndLoad,
   GoUp, GoBack, GoForward, GoHome, DeactivateFilter, Select, SelectFolder, UnselectFolder,
   TypeLocation, ActivateRow, SetListMode, TypeFilter, ActivateFilter, ViewFolders, ThemeChanged,
   IconsChanged

LEMMA ClosedKeeps ==
    ASSUME Edit(e), e' \in {e, Closed(e)}
    PROVE  Edit(e') /\ Runs(e') = Runs(e) /\ e'.drag = e.drag
<1> DEFINE c == Closed(e)
<1>1. DOMAIN e = EditFields BY DEF Edit
<1>2. /\ DOMAIN c = EditFields /\ c.op = e.op /\ c.drag = e.drag /\ c.copy_data = None
      /\ c.open_files = {}
 BY <1>1 DEF Closed, EditFields
<1>3. e' = e \/ e' = c OBVIOUS
<1> HIDE DEF c
<1>4. IsFiniteSet({}) BY FS_EmptySet
<1>5. Edit(c) BY <1>2, <1>4 DEF Edit
<1> QED BY <1>2, <1>3, <1>5 DEF Runs

LEMMA BrowseStepKeeps ==
    ASSUME IInv, BrowseStep PROVE IInv'
<1>1. e' \in {e, Closed(e)} BY DEF BrowseStep
<1>2. Edit(e') /\ Runs(e') = Runs(e) /\ e'.drag = e.drag BY <1>1, ClosedKeeps DEF IInv
<1>3. Good(w) /\ Dragging BY DEF IInv, Good
<1>4. \/ e.drag = NoDrag /\ Browse
      \/ ReadMember \/ EndLoad \/ ThemeChanged \/ IconsChanged
 BY DEF BrowseStep, Going
<1>5. ASSUME e.drag = NoDrag PROVE Dragging' BY <1>2, <1>5 DEF Dragging
<1>6. ASSUME Held(w, w') PROVE Dragging' BY <1>2, <1>3, <1>6 DEF Dragging, Held
<1>7. CASE ReadMember
 <2>1. /\ Entries(disk') /\ Good(w') /\ Busy' /\ Follows'
       /\ w'.refs = w.refs /\ w'.selected = w.selected
  BY <1>2, <1>7, ReadMemberKeeps
 <2>2. Dragging' BY <2>1, <1>6 DEF Held
 <2> QED BY <1>2, <2>1, <2>2, InvIs
<1>8. CASE EndLoad
 <2>1. Entries(disk') /\ Good(w') /\ Busy' /\ Follows' /\ Held(w, w') BY <1>2, <1>8, EndLoadKeeps
 <2> QED BY <1>2, <1>6, <2>1, InvIs
<1>9. CASE IconsChanged
 <2>1. Entries(disk') /\ Good(w') /\ Busy' /\ Follows' /\ Held(w, w') BY <1>2, <1>9, IconsKeep
 <2> QED BY <1>2, <1>6, <2>1, InvIs
<1>10. CASE ThemeChanged
 <2>1. Moved(w, w') /\ Held(w, w') BY <1>3, <1>10, ThemeChangedMoves
 <2>2. disk' = disk BY <1>10 DEF ThemeChanged
 <2>3. Entries(disk') /\ Good(w') /\ Busy' /\ Follows' BY <1>2, <2>1, <2>2, MovedKeeps
 <2> QED BY <1>2, <1>6, <2>1, <2>3, InvIs
<1>11. CASE e.drag = NoDrag /\ Moved(w, w') /\ Browse
 <2>1. disk' = disk BY <1>11, BrowseSame
 <2>2. Entries(disk') /\ Good(w') /\ Busy' /\ Follows' BY <1>2, <1>11, <2>1, MovedKeeps
 <2> QED BY <1>2, <1>5, <1>11, <2>2, InvIs
<1>12. CASE e.drag = NoDrag /\ (Open \/ Reload)
 <2>1. Entries(disk') /\ Good(w') /\ Busy' /\ Follows' BY <1>2, <1>12, OpenKeeps
 <2> QED BY <1>2, <1>5, <1>12, <2>1, InvIs
<1> QED BY <1>3, <1>4, <1>7, <1>8, <1>9, <1>10, <1>11, <1>12, BrowseMoves

----
(* The steps of what is edited. *)

\* What the edits change that no type is known of.
LooseFields == EditFields \ {"op", "copy_data", "open_files"}

\* The same but for those.
Loosely(c, d) ==
    /\ DOMAIN d = EditFields
    /\ d.op = c.op /\ d.copy_data = c.copy_data /\ d.open_files = c.open_files

LEMMA LooselyIs ==
    ASSUME NEW c, Edit(c), NEW d, Loosely(c, d)
    PROVE  Edit(d) /\ Runs(d) = Runs(c)
BY DEF Edit, Loosely, Runs

LEMMA MayEditIs ==
    ASSUME IInv, MayEdit
    PROVE  /\ ~w.loading /\ ~Runs(e) /\ e.drag = NoDrag /\ Good(w) /\ Edit(e) /\ Window(w)
BY CountIs DEF MayEdit, Going, IInv

LEMMA NoOpIs == OpOK(NoOp) /\ NoOp.kind = "none"
<1>1. NoOp.steps \in Seq(Range(NoOp.steps)) /\ DOMAIN NoOp.steps = {} BY DEF NoOp, Range
<1>2. NoOp.kind = "none" /\ NoOp.apart = 0 /\ DOMAIN NoOp = {"kind", "steps", "apart"} BY DEF NoOp
<1> QED BY <1>1, <1>2 DEF OpOK

\* An operation begun: the window is busy, and shows what it showed.
LEMMA BeginKeeps ==
    ASSUME IInv, ~w.loading, ~Runs(e), NEW c, Edit(c), c.drag = NoDrag,
           NEW kind, kind # "none", NEW steps, NEW apart, NEW excuses,
           OpOK([kind |-> kind, steps |-> steps, apart |-> apart]),
           Begin(c, kind, steps, apart, excuses)
    PROVE  IInv'
<1> DEFINE op == [kind |-> kind, steps |-> steps, apart |-> apart]
<1>1. op.kind = kind /\ OpOK(op) OBVIOUS
<1>2. PICK x, y : e' = [c EXCEPT !.edits = x, !.op = op, !.excuses = y] BY DEF Begin
<1> HIDE DEF op
<1>3. DOMAIN c = EditFields BY DEF Edit
<1> DEFINE d == [c EXCEPT !.edits = x, !.op = op, !.excuses = y]
<1>4. /\ DOMAIN d = EditFields /\ d.op = op /\ d.copy_data = c.copy_data
      /\ d.open_files = c.open_files /\ d.drag = c.drag
 BY <1>3 DEF EditFields
<1>5. e' = d BY <1>2
<1> HIDE DEF d
<1>6. Edit(d) BY <1>1, <1>4 DEF Edit
<1>7. Runs(e') = TRUE BY <1>1, <1>4, <1>5 DEF Runs
<1> DEFINE s == IF kind \in Reading THEN w ELSE Act(w)
           t == StartActivity(s)
<1>8. w' = t /\ disk' = disk BY DEF Begin
<1>9. Good(s) /\ Moved(w, s)
 <2>1. Good(w) BY CountIs
 <2>2. Moved(w, w) BY <2>1, LaterSame DEF Moved
 <2> QED BY <2>1, <2>2, ActIs
<1> HIDE DEF s
<1>10. /\ Good(t) /\ Apart({"freed_read", "activity_ref"}, s, t)
       /\ Location(t) = Location(s) /\ t.activity_ref = s.activity_ref + 1
 BY <1>9, StartActivityIs
<1> HIDE DEF t
<1>11. /\ t.files = s.files /\ t.rows = s.rows /\ t.names = s.names /\ t.rows_live = s.rows_live
       /\ t.list_mode = s.list_mode /\ t.filter = s.filter /\ t.last_location = s.last_location
       /\ t.archive_present = s.archive_present /\ t.loading = s.loading
       /\ t.icons_changed = s.icons_changed
 BY <1>10 DEF Apart, Fields
<1>12. Sees(t) = Sees(s) BY <1>10, <1>11, SeesAlike
<1>13. /\ s.files = w.files /\ s.loading = w.loading /\ s.archive_present = w.archive_present
       /\ s.activity_ref = w.activity_ref /\ s.icons_changed = w.icons_changed
       /\ (InOrder(w.files) /\ Sees(w) => Sees(s))
 BY <1>9 DEF Moved, KeptFields
<1>14. /\ Running = 0 /\ w.activity_ref \in Nat
       /\ w.activity_ref = 0 \/ (w.icons_changed /\ w.activity_ref = 1)
       /\ Stuck <=> w.activity_ref # 0
 BY CountIs
<1>15. Running' = 1
 <2>1. w'.loading \in BOOLEAN /\ Runs(e') \in BOOLEAN /\ ~w'.loading
  BY <1>7, <1>8, <1>10, <1>11, <1>13 DEF Good, Window
 <2> QED BY <1>7, <2>1, RunningNow
<1>16. Busy' BY <1>8, <1>10, <1>11, <1>13, <1>14, <1>15 DEF Busy
<1>17. Stuck' => Stuck BY <1>8, <1>10, <1>13, <1>14, <1>15 DEF Stuck
<1>18. Stuck => Stuck' BY <1>8, <1>10, <1>13, <1>14, <1>15 DEF Stuck
<1>19. Follows' BY <1>8, <1>11, <1>12, <1>13, <1>18 DEF IInv, Follows
<1>20. Dragging' BY <1>4, <1>5 DEF Dragging
<1> QED BY <1>5, <1>6, <1>8, <1>10, <1>16, <1>19, <1>20, InvIs DEF IInv

LEMMA ClipboardRemoveIs ==
    ASSUME NEW c, Edit(c), NEW names
    PROVE  Edit(ClipboardRemove(c, names)) /\ ClipboardRemove(c, names).drag = c.drag
<1>1. CASE c.copy_data = None BY <1>1 DEF ClipboardRemove
<1>2. CASE c.copy_data # None
 <2> DEFINE left == Only(c.copy_data.files, Range(c.copy_data.files) \ Range(names))
            fewer == [c.copy_data EXCEPT !.files = left]
            data == IF names = <<>> \/ left = <<>> THEN None ELSE fewer
            d == [c EXCEPT !.copy_data = data]
 <2>1. ClipboardRemove(c, names) = d BY <1>2, Zenon DEF ClipboardRemove
 <2>2. /\ DOMAIN c.copy_data = {"files", "op", "base_dir", "pasted"}
       /\ NameList(c.copy_data.files) /\ c.copy_data.base_dir \in Seq(Names)
  BY <1>2 DEF Edit
 <2>3. NameList(left) BY <2>2, OnlyNames
 <2> HIDE DEF left
 <2>4. /\ DOMAIN fewer = {"files", "op", "base_dir", "pasted"}
       /\ NameList(fewer.files) /\ fewer.base_dir \in Seq(Names)
  BY <2>2, <2>3
 <2> HIDE DEF fewer
 <2>5. data \in {None, fewer} OBVIOUS
 <2> HIDE DEF data
 <2>6. DOMAIN c = EditFields BY DEF Edit
 <2>7. /\ DOMAIN d = EditFields /\ d.op = c.op /\ d.copy_data = data
       /\ d.open_files = c.open_files /\ d.drag = c.drag
  BY <2>6 DEF EditFields
 <2> HIDE DEF d
 <2>8. Edit(d) BY <2>4, <2>5, <2>7 DEF Edit
 <2> QED BY <2>1, <2>7, <2>8
<1> QED BY <1>1, <1>2

LEMMA DeleteKeeps ==
    ASSUME IInv, Delete PROVE IInv'
<1>1. ~w.loading /\ ~Runs(e) /\ e.drag = NoDrag /\ Edit(e) BY MayEditIs DEF Delete
<1>2. PICK names, asked, excuses :
        Begin([ClipboardRemove(e, names) EXCEPT !.asked = asked],
                "delete", << Do("remove", OrNull(names)) >>, 0, excuses)
 BY DEF Delete
<1> DEFINE r == ClipboardRemove(e, names)
           c == [r EXCEPT !.asked = asked]
           step == Do("remove", OrNull(names))
<1>3. Edit(r) /\ r.drag = NoDrag BY <1>1, ClipboardRemoveIs
<1> HIDE DEF r
<1>4. DOMAIN r = EditFields BY <1>3 DEF Edit
<1>5. Loosely(r, c) /\ c.drag = r.drag BY <1>4 DEF Loosely, EditFields
<1>8. Begin(c, "delete", << step >>, 0, excuses) BY <1>2 DEF r
<1> HIDE DEF c
<1>6. Edit(c) /\ c.drag = NoDrag BY <1>3, <1>5, LooselyIs
<1>7. StepList(<<step>>)
 <2> QED BY PlainSteps, OneStep
<1> HIDE DEF step
<1> DEFINE steps == <<step>>
<1>9. StepList(steps) /\ \A i \in DOMAIN steps : ~(i < 0) BY <1>7
<1>11. Begin(c, "delete", steps, 0, excuses) BY <1>8
<1> HIDE DEF steps
<1>10. OpOK([kind |-> "delete", steps |-> steps, apart |-> 0]) BY <1>9, OpIs
<1> QED BY <1>1, <1>6, <1>10, <1>11, BeginKeeps

LEMMA RenameToKeeps ==
    ASSUME IInv, ~w.loading, ~Runs(e), e.drag = NoDrag, NEW path \in Paths, NEW trailing,
           NEW entries, NameList(NamesOf(entries)), NEW folder, NEW is_dir, NEW excuses,
           RenameTo(path, trailing, entries, folder, is_dir, excuses)
    PROVE  IInv'
<1>0. PICK new_name \in NewNames :
        \E removed : Begin(ClipboardRemove(e, removed), "rename",
              RenameSteps(Front(path), Last(path), new_name, trailing, entries, folder, is_dir),
              0, excuses)
 BY DEF RenameTo
<1>1. PICK removed :
        Begin(ClipboardRemove(e, removed), "rename",
              RenameSteps(Front(path), Last(path), new_name, trailing, entries, folder, is_dir),
              0, excuses)
 BY <1>0
<1> DEFINE steps == RenameSteps(Front(path), Last(path), new_name, trailing, entries, folder, is_dir)
           c == ClipboardRemove(e, removed)
<1>2. Front(path) \in Seq(Names) /\ Last(path) \in Names
 <2>1. path \in Seq(Names) /\ Len(path) \in Nat /\ Len(path) \in 1..Len(path) /\ Len(path) - 1 \in 0..Len(path)
  BY EmptySeq, LenProperties DEF Paths
 <2>2. Front(path) \in Seq(Names) BY <2>1, FrontIs DEF Front
 <2>3. Last(path) \in Names BY <2>1 DEF Last
 <2> QED BY <2>2, <2>3
<1>3. new_name \in Names BY BrowseAssumption
<1>4. StepList(steps) BY <1>2, <1>3, RenameStepsAre
<1>5. Begin(c, "rename", steps, 0, excuses) BY <1>1
<1>6. Edit(c) /\ c.drag = NoDrag BY ClipboardRemoveIs DEF IInv
<1> HIDE DEF c, steps
<1>7. \A i \in DOMAIN steps : ~(i < 0)
 <2>1. PICK S : steps \in Seq(S) BY <1>4 DEF StepList
 <2> QED BY <2>1
<1>8. OpOK([kind |-> "rename", steps |-> steps, apart |-> 0]) BY <1>4, <1>7, OpIs
<1> QED BY <1>5, <1>6, <1>8, BeginKeeps

LEMMA RenamePathIs ==
    ASSUME NEW s, Window(s), NEW row \in s.rows \cup s.selected
    PROVE  RenamePath(s, row) \in Paths /\ row.entry.path \in Paths
<1> DEFINE m == ListName(s, row.entry)
           named == {x \in s.names : x.entry = row.entry}
<1>1. row.entry.path \in Paths BY DEF Window
<1>2. RenamePath(s, row) = IF m.list_dir /\ ~IsDir(row.entry) THEN Append(Location(s), m.name)
                           ELSE row.entry.path
 BY Zenon DEF RenamePath
<1>3. CASE m.list_dir
 <2>1. named # {}
  <3>1. CASE named = {}
   <4>1. m = [entry |-> row.entry, name |-> None, list_dir |-> FALSE] BY <3>1 DEF ListName
   <4> QED BY <1>3, <4>1
  <3> QED BY <3>1
 <2>2. m \in named BY <2>1, Zenon DEF ListName
 <2>3. m.name \in Names BY <2>2 DEF Window
 <2>4. Location(s) \in Seq(Names) BY LocationTyped
 <2> DEFINE p == Append(Location(s), m.name)
 <2>5. p \in Seq(Names) /\ Len(p) = Len(Location(s)) + 1 /\ Len(Location(s)) \in Nat BY <2>3, <2>4
 <2> HIDE DEF p
 <2>6. p \in Paths BY <2>5 DEF Paths
 <2> QED BY <1>1, <1>2, <2>6 DEF p
<1>4. CASE ~m.list_dir BY <1>1, <1>2, <1>4
<1> QED BY <1>1, <1>3, <1>4

LEMMA RenameRowKeeps ==
    ASSUME IInv, RenameRow PROVE IInv'
<1>1. ~w.loading /\ ~Runs(e) /\ e.drag = NoDrag /\ Window(w) BY MayEditIs DEF RenameRow
<1>0. PICK row \in w.selected :
        \E trailing, folder, is_dir, excuses :
        RenameTo(RenamePath(w, row), trailing,
                 IF is_dir THEN Listed(w, DirList(w, RenamePath(w, row))) ELSE <<row.entry>>,
                 folder, is_dir, excuses)
 BY Zenon DEF RenameRow
<1>2. PICK trailing, folder, is_dir, excuses :
        RenameTo(RenamePath(w, row), trailing,
                 IF is_dir THEN Listed(w, DirList(w, RenamePath(w, row))) ELSE <<row.entry>>,
                 folder, is_dir, excuses)
 BY <1>0
<1> DEFINE path == RenamePath(w, row)
           listed == Listed(w, DirList(w, path))
           entries == IF is_dir THEN listed ELSE <<row.entry>>
<1>3. path \in Paths /\ row.entry.path \in Paths BY <1>1, RenamePathIs
<1>6. RenameTo(path, trailing, entries, folder, is_dir, excuses) BY <1>2
<1> HIDE DEF path
<1>4. NameList(NamesOf(listed)) BY <1>1, NamesOfIs
<1> HIDE DEF listed
<1>5. NameList(NamesOf(<<row.entry>>))
 <2> DEFINE x == Name(row.entry)
            S == {x}
 <2>1. NamesOf(<<row.entry>>) = <<x>> BY DEF NamesOf
 <2>2. x.path \in Paths BY <1>3 DEF Name
 <2> HIDE DEF x
 <2>3. <<x>> \in Seq(S) /\ \A z \in S : z.path \in Paths BY <2>2
 <2> HIDE DEF S
 <2>4. NameList(<<x>>) BY <2>3, NameListOf
 <2> QED BY <2>1, <2>4
<1>7. NameList(NamesOf(entries)) BY <1>4, <1>5
<1> HIDE DEF entries
<1> QED BY <1>1, <1>3, <1>6, <1>7, RenameToKeeps

LEMMA RenameFolderKeeps ==
    ASSUME IInv, RenameFolder PROVE IInv'
<1>1. ~w.loading /\ ~Runs(e) /\ e.drag = NoDrag /\ Window(w) BY MayEditIs DEF RenameFolder
<1> DEFINE entries == Listed(w, DirList(w, w.tree_selection))
<1>2. PICK excuses : RenameTo(w.tree_selection, FALSE, entries, None, TRUE, excuses)
 BY Zenon DEF RenameFolder
<1>3. w.tree_selection \in Paths BY <1>1 DEF RenameFolder, Window, Paths
<1>4. NameList(NamesOf(entries)) BY <1>1, NamesOfIs
<1> HIDE DEF entries
<1> QED BY <1>1, <1>2, <1>3, <1>4, RenameToKeeps

\* What the steps change of the window that does not change what it shows.
Quiet == {"freed_read", "refs", "activity_ref", "selected", "selected_then", "acts"}

LEMMA QuietIs ==
    ASSUME NEW s, Good(s), NEW t, Good(t), Apart(Quiet, s, t)
    PROVE  /\ Location(t) = Location(s) /\ Sees(t) = Sees(s)
           /\ t.files = s.files /\ t.loading = s.loading /\ t.archive_present = s.archive_present
           /\ t.icons_changed = s.icons_changed
           /\ t.activity_ref = s.activity_ref /\ Later(s, t) => Moved(s, t)
<1>1. /\ t.files = s.files /\ t.rows = s.rows /\ t.names = s.names /\ t.rows_live = s.rows_live
      /\ t.list_mode = s.list_mode /\ t.filter = s.filter /\ t.last_location = s.last_location
      /\ t.archive_present = s.archive_present /\ t.loading = s.loading
      /\ t.icons_changed = s.icons_changed
      /\ t.history = s.history /\ t.history_current = s.history_current
 BY DEF Apart, Fields, Quiet
<1>2. Location(t) = Location(s) BY <1>1 DEF Location
<1>3. Sees(t) = Sees(s) BY <1>1, <1>2, SeesAlike
<1> QED BY <1>1, <1>2, <1>3 DEF Moved, KeptFields

LEMMA SensitivityMoves ==
    ASSUME NEW s, Good(s)
    PROVE  Moved(s, UpdateSensitivity(s))
<1> DEFINE t == UpdateSensitivity(s)
<1>1. Good(t) /\ Apart({"freed_read"}, s, t) BY UpdateSensitivityIs
<1> HIDE DEF t
<1>2. Apart(Quiet, s, t) /\ t.activity_ref = s.activity_ref BY <1>1 DEF Apart, Quiet, Fields
<1>4. Later(s, t) BY <1>1, LaterSame DEF Apart, Fields
<1> QED BY <1>1, <1>2, <1>4, QuietIs DEF t

\* The references to rows are given up.
LEMMA RefsMove ==
    ASSUME NEW s, Good(s), NEW read \in BOOLEAN, read => s.freed_read \/ s.selected_then
    PROVE  LET t == [s EXCEPT !.freed_read = read, !.refs = {}]
           IN Moved(s, t) /\ t.refs = {}
<1> DEFINE t == [s EXCEPT !.freed_read = read, !.refs = {}]
<1>1. DOMAIN s = Fields BY Zenon DEF Good, Window
<1>2. Apart({"freed_read", "refs"}, s, t) /\ t.refs = {} /\ t.freed_read = read
 BY <1>1 DEF Apart, Fields
<1> HIDE DEF t
<1>3. Good(t) BY <1>2 DEF Good, Window, Read, Apart, Fields
<1>4. Apart(Quiet, s, t) /\ t.activity_ref = s.activity_ref BY <1>2 DEF Apart, Quiet, Fields
<1>6. Later(s, t) BY <1>2, LaterSame DEF Apart, Fields
<1>5. Moved(s, t) BY <1>3, <1>4, <1>6, QuietIs
<1> QED BY <1>2, <1>5 DEF t

LEMMA CopyOrCutKeeps ==
    ASSUME IInv, CopyOrCut PROVE IInv'
<1>1. ~w.loading /\ ~Runs(e) /\ e.drag = NoDrag /\ Good(w) /\ Edit(e) /\ Window(w)
 BY MayEditIs DEF CopyOrCut
<1> DEFINE list == NamesOf(Listed(w, UNION {RowFiles(w, row) : row \in w.selected}))
           copied == Reverse(list)
<1>2. PICK op \in {"COPY", "CUT"} :
        e' = [e EXCEPT !.clipboard = TRUE,
                       !.copy_data = [files |-> copied, op |-> op, base_dir |-> Location(w),
                                      pasted |-> FALSE]]
 BY Zenon DEF CopyOrCut
<1>3. NameList(copied)
 <2>1. NameList(list) BY <1>1, NamesOfIs
 <2> HIDE DEF list
 <2> QED BY <2>1, ReverseIs
<1> HIDE DEF copied
<1> DEFINE data == [files |-> copied, op |-> op, base_dir |-> Location(w), pasted |-> FALSE]
<1>4. /\ DOMAIN data = {"files", "op", "base_dir", "pasted"} /\ data.files = copied
      /\ data.base_dir = Location(w)
 OBVIOUS
<1>5. e' = [e EXCEPT !.clipboard = TRUE, !.copy_data = data] BY <1>2
<1> HIDE DEF data
<1>6. DOMAIN e = EditFields BY <1>1 DEF Edit
<1>7. /\ DOMAIN e' = EditFields /\ e'.op = e.op /\ e'.copy_data = data
      /\ e'.open_files = e.open_files /\ e'.drag = e.drag
 BY <1>5, <1>6 DEF EditFields
<1>8. Location(w) \in Seq(Names) BY <1>1, LocationTyped
<1>9. Edit(e') BY <1>1, <1>3, <1>4, <1>7, <1>8 DEF Edit
<1>10. Runs(e') = Runs(e) BY <1>7 DEF Runs
<1>11. Moved(w, w') /\ disk' = disk BY <1>1, SensitivityMoves DEF CopyOrCut
<1>12. Entries(disk') /\ Good(w') /\ Busy' /\ Follows' BY <1>10, <1>11, MovedKeeps
<1>13. Dragging' BY <1>1, <1>7 DEF Dragging
<1> QED BY <1>9, <1>12, <1>13, InvIs

\* The window and the archive left as they were.
LEMMA LeftKeeps ==
    ASSUME IInv, Edit(e'), Runs(e') = Runs(e), UNCHANGED <<disk, w>>,
           e'.drag # NoDrag => /\ e.drag # NoDrag /\ e'.drag.from = e.drag.from
                             /\ DOMAIN e'.drag = DOMAIN e.drag
    PROVE  IInv'
<1>1. w' = w /\ disk' = disk /\ Good(w) BY CountIs
<1>2. Moved(w, w') BY <1>1, LaterSame DEF Moved
<1>3. Entries(disk') /\ Good(w') /\ Busy' /\ Follows' BY <1>1, <1>2, MovedKeeps
<1>4. Dragging' BY <1>1 DEF IInv, Dragging
<1> QED BY <1>3, <1>4, InvIs

LEMMA PasteKeeps ==
    ASSUME IInv, Paste PROVE IInv'
<1>1. ~w.loading /\ ~Runs(e) /\ e.drag = NoDrag /\ Good(w) /\ Edit(e) /\ Window(w)
 BY MayEditIs DEF Paste
<1>2. DOMAIN e = EditFields BY <1>1 DEF Edit
<1>3. CASE e' = [e EXCEPT !.crashed = TRUE] /\ UNCHANGED <<disk, w>>
 <2>1. Loosely(e, e') /\ e'.drag = e.drag BY <1>2, <1>3 DEF Loosely, EditFields
 <2>2. Edit(e') /\ Runs(e') = Runs(e) BY <1>1, <2>1, LooselyIs
 <2> QED BY <1>3, <2>1, <2>2, LeftKeeps
<1> DEFINE cut == e.copy_data.op = "CUT"
           data == [e.copy_data EXCEPT !.pasted = cut]
           c == [e EXCEPT !.copy_data.pasted = cut]
           apart == IF cut THEN 3 ELSE 2
<1>4. ASSUME e.copy_data # None,
             NEW current_dir \in {Location(w)} \cup {<<name>> : name \in NewNames}, NEW excuses,
             Begin(c, "paste", PasteSteps(e.copy_data, current_dir), apart, excuses)
      PROVE  IInv'
 <2>1. DataOK(e.copy_data) BY <1>1, <1>4 DEF Edit, DataOK
 <2>2. current_dir \in Seq(Names)
  <3>1. Location(w) \in Seq(Names) BY <1>1, LocationTyped
  <3>2. \A name \in NewNames : <<name>> \in Seq(Names) BY BrowseAssumption
  <3> QED BY <3>1, <3>2
 <2>3. apart \in 2..3 /\ apart \in Nat OBVIOUS
 <2> DEFINE steps == PasteSteps(e.copy_data, current_dir)
 <2>4. /\ StepList(steps)
       /\ \A i \in DOMAIN steps : i < apart => steps[i].do \in {"folders", "extract"}
  BY <2>1, <2>2, <2>3, PasteStepsAre
 <2>5. Begin(c, "paste", steps, apart, excuses) BY <1>4
 <2> HIDE DEF steps, apart
 <2>6. OpOK([kind |-> "paste", steps |-> steps, apart |-> apart]) BY <2>3, <2>4, OpIs
 <2>7. DataOK(data) BY <2>1 DEF DataOK
 <2>8. c.copy_data = data /\ DOMAIN c = EditFields /\ c.op = e.op /\ c.drag = e.drag
       /\ c.open_files = e.open_files
  BY <1>2 DEF EditFields
 <2> HIDE DEF c, data
 <2>9. Edit(c) /\ c.drag = NoDrag BY <1>1, <2>7, <2>8 DEF Edit, DataOK
 <2> QED BY <1>1, <2>5, <2>6, <2>9, BeginKeeps
<1>5. \/ e' = [e EXCEPT !.crashed = TRUE] /\ UNCHANGED <<disk, w>>
      \/ /\ e.copy_data # None
         /\ \E current_dir \in {Location(w)} \cup {<<name>> : name \in NewNames} :
               \E excuses :
                  Begin(c, "paste", PasteSteps(e.copy_data, current_dir), apart, excuses)
 BY Zenon DEF Paste
<1> HIDE DEF c, apart
<1> QED BY <1>3, <1>4, <1>5

\* An operation that ended.
LEMMA EndedIs ==
    ASSUME NEW c, Edit(c), NEW d, DOMAIN d = EditFields, d.op = NoOp, d.copy_data = c.copy_data,
           IsFiniteSet(d.open_files), \A f \in d.open_files : f.path.path \in Paths
    PROVE  Edit(d) /\ ~Runs(d)
<1> QED BY NoOpIs DEF Edit, Runs

LEMMA StopKeeps ==
    ASSUME IInv, Runs(e), ~Runs(e'), w' = StopActivity(w),
           disk' = disk \/ w'.activity_ref > 0
    PROVE  /\ Good(w') /\ Busy' /\ Follows' /\ w'.refs = w.refs /\ w'.selected = w.selected
<1>1. /\ Good(w) /\ ~w.loading /\ Running = 1 /\ w.activity_ref \in Nat /\ w.activity_ref > 0
      /\ w.activity_ref = 1 \/ (w.icons_changed /\ w.activity_ref = 2)
 BY CountIs
<1> DEFINE s == StopActivity(w)
<1>2. /\ Good(s) /\ Apart({"freed_read", "activity_ref"}, w, s)
      /\ s.activity_ref = w.activity_ref - 1
 BY <1>1, StopActivityIs
<1>3. w' = s OBVIOUS
<1> HIDE DEF s
<1>4. Apart(Quiet, w, s) /\ s.refs = w.refs /\ s.selected = w.selected
 BY <1>2 DEF Apart, Quiet, Fields
<1>5. /\ Sees(s) = Sees(w) /\ s.files = w.files /\ s.loading = w.loading
      /\ s.archive_present = w.archive_present /\ s.icons_changed = w.icons_changed
 BY <1>1, <1>2, <1>4, QuietIs
<1>6. Running' = 0
 <2> QED BY <1>1, <1>2, <1>3, <1>5, RunningNow DEF Runs, Good, Window
<1>7. Busy' BY <1>1, <1>2, <1>3, <1>5, <1>6 DEF Busy
<1>8. Stuck' <=> Stuck BY <1>1, <1>2, <1>3, <1>6 DEF Stuck
<1>9. Stuck' <=> w'.activity_ref > 0 BY <1>1, <1>2, <1>3, <1>6 DEF Stuck
<1>10. Follows'
 <2>1. ~w'.loading BY <1>1, <1>3, <1>5
 <2>2. CASE Stuck' BY <2>1, <2>2 DEF Follows
 <2>3. CASE ~Stuck'
  <3>1. disk' = disk /\ ~Stuck BY <1>8, <1>9, <2>3
  <3> QED BY <1>3, <1>5, <2>1, <2>3, <3>1 DEF IInv, Follows
 <2> QED BY <2>2, <2>3
<1> QED BY <1>2, <1>3, <1>4, <1>7, <1>10

LEMMA FinishKeeps ==
    ASSUME IInv, Finish PROVE IInv'
<1> DEFINE op == e.op
<1>1. /\ Runs(e) /\ Edit(e) /\ OpOK(op) /\ Entries(disk) /\ Good(w) /\ ~w.loading
      /\ w.activity_ref \in Nat /\ w.activity_ref > 0
 BY CountIs DEF Finish, IInv, Edit
<1> DEFINE Ran(k) == Executed(disk, op.steps, k)
           s == StopActivity(w)
<1>2. PICK k \in 0..Len(op.steps) :
        /\ disk' = Ran(k).disk
        /\ \E x, y : e' = [e EXCEPT !.op = NoOp, !.updating = {}, !.unsaved = x, !.excuses = y]
        /\ w' = IF Ran(k).done < op.apart \/ s.activity_ref > 0 THEN s ELSE StartLoad(s)
 BY Zenon DEF Finish
<1>3. PICK x, y : e' = [e EXCEPT !.op = NoOp, !.updating = {}, !.unsaved = x, !.excuses = y] BY <1>2
<1>4. DOMAIN e = EditFields BY <1>1 DEF Edit
<1>5. /\ DOMAIN e' = EditFields /\ e'.op = NoOp /\ e'.copy_data = e.copy_data
      /\ e'.open_files = e.open_files /\ e'.drag = e.drag
 BY <1>3, <1>4 DEF EditFields
<1>6. Edit(e') /\ ~Runs(e')
 <2>1. IsFiniteSet(e'.open_files) /\ \A f \in e'.open_files : f.path.path \in Paths
  BY <1>1, <1>5 DEF Edit
 <2> QED BY <1>1, <1>5, <2>1, EndedIs
<1> DEFINE r == Ran(k)
<1>7. Entries(r.disk) /\ (r.done < op.apart => r.disk = disk)
 <2>1. op.apart \in Nat /\ op.steps \in Seq(Range(op.steps))
       /\ (\A i \in DOMAIN op.steps : StepOK(op.steps[i]))
       /\ (\A i \in DOMAIN op.steps : i < op.apart => op.steps[i].do \in {"folders", "extract"})
  BY <1>1, Zenon DEF OpOK
 <2> DEFINE steps == op.steps
            apart == op.apart
 <2>2. /\ apart \in Nat /\ steps \in Seq(Range(steps)) /\ k \in 0..Len(steps)
       /\ (\A i \in DOMAIN steps : StepOK(steps[i]))
       /\ (\A i \in DOMAIN steps : i < apart => steps[i].do \in {"folders", "extract"})
  BY <1>2, <2>1
 <2>3. r = Executed(disk, steps, k) /\ (r.done < op.apart <=> r.done < apart) OBVIOUS
 <2> HIDE DEF r, steps, apart, op
 <2>4. k \in Nat /\ 1..k \subseteq DOMAIN steps BY <2>2
 <2>5. /\ \A i \in 1..k : StepOK(steps[i])
       /\ \A i \in 1..k : i < apart => steps[i].do \in {"folders", "extract"}
  BY <2>2, <2>4
 <2>6. Entries(r.disk) /\ (r.done < apart => r.disk = disk)
  BY <1>1, <2>2, <2>3, <2>4, <2>5, ExecutedIs
 <2> QED BY <2>3, <2>6
<1>8. /\ disk' = r.disk
      /\ w' = IF r.done < op.apart \/ s.activity_ref > 0 THEN s ELSE StartLoad(s)
 BY <1>2
<1>9. Good(s) /\ Apart({"freed_read", "activity_ref"}, w, s)
      /\ s.activity_ref = w.activity_ref - 1
 BY <1>1, StopActivityIs
<1>10. s.refs = w.refs /\ s.selected = w.selected BY <1>9 DEF Apart, Fields
<1> DEFINE short == r.done < op.apart
<1>11. short => disk' = disk BY <1>7, <1>8
<1>12. w' = IF short \/ s.activity_ref > 0 THEN s ELSE StartLoad(s) BY <1>8
<1>13. Entries(disk') BY <1>7, <1>8
<1> HIDE DEF short, r, Ran
<1>14. /\ Good(w') /\ Busy' /\ Follows' /\ w'.refs = w.refs /\ w'.selected = w.selected
 <2>1. CASE short \/ s.activity_ref > 0
  <3>1. w' = StopActivity(w) BY <1>12, <2>1
  <3>2. disk' = disk \/ w'.activity_ref > 0 BY <1>11, <2>1, <3>1
  <3> QED BY <1>1, <1>6, <3>1, <3>2, StopKeeps
 <2>2. CASE ~(short \/ s.activity_ref > 0)
  <3>1. w' = StartLoad(s) BY <1>12, <2>2
  <3>2. s.activity_ref = 0 BY <1>1, <1>9, <2>2
  <3> HIDE DEF s
  <3> QED BY <1>6, <1>9, <1>10, <3>1, <3>2, LoadKeeps
 <2> QED BY <2>1, <2>2
<1>15. Dragging' BY <1>5, <1>14 DEF IInv, Dragging
<1> QED BY <1>6, <1>13, <1>14, <1>15, InvIs

LEMMA OpenFilesKeeps ==
    ASSUME IInv, OpenFiles PROVE IInv'
<1>1. ~w.loading /\ ~Runs(e) /\ e.drag = NoDrag /\ Good(w) /\ Edit(e) /\ Window(w)
 BY MayEditIs DEF OpenFiles
<1> DEFINE list == NamesOf(Listed(w, {row.entry : row \in w.selected}))
           step == Do("extract", list)
           steps == <<step>>
<1>2. Begin(e, "open", steps, 0, {}) BY Zenon DEF OpenFiles
<1>3. NameList(list) BY <1>1, NamesOfIs
<1> HIDE DEF list
<1>4. StepOK(step) /\ step.of = list BY PlainSteps DEF Do
<1> HIDE DEF step
<1>5. StepList(steps) BY <1>4, OneStep
<1>6. DOMAIN steps = {1} /\ steps[1] = step OBVIOUS
<1> HIDE DEF steps
<1>7. OpOK([kind |-> "open", steps |-> steps, apart |-> 0]) BY <1>3, <1>4, <1>5, <1>6, OpIs
<1> QED BY <1>1, <1>2, <1>7, BeginKeeps

\* The operation that ended did not change the archive.
LEMMA EndedKeeps ==
    ASSUME IInv, Runs(e), Edit(e'), ~Runs(e'), w' = StopActivity(w), disk' = disk,
           e'.drag = e.drag
    PROVE  IInv'
<1>1. /\ Good(w') /\ Busy' /\ Follows' /\ w'.refs = w.refs /\ w'.selected = w.selected BY StopKeeps
<1>2. Dragging' BY <1>1 DEF IInv, Dragging
<1>3. Entries(disk') BY DEF IInv
<1> QED BY <1>1, <1>2, <1>3, InvIs

LEMMA FilesOpenedKeeps ==
    ASSUME IInv, FilesOpened PROVE IInv'
<1>1. Runs(e) /\ Edit(e) /\ e.op.kind = "open" /\ w' = StopActivity(w) /\ disk' = disk
 BY DEF FilesOpened, IInv
<1>2. DOMAIN e = EditFields BY <1>1 DEF Edit
<1> DEFINE list == e.op.steps[1].of
           temp == Len(e.temps) + 1
           File(i) == [path |-> list[i], extracted |-> Extracted(list)[i], temp |-> temp]
           files == {File(i) : i \in DOMAIN list}
<1>3. \/ \E x : e' = [e EXCEPT !.op = NoOp, !.open_files = @ \cup files, !.temps = x]
      \/ e' = [e EXCEPT !.op = NoOp]
 BY Zenon DEF FilesOpened
<1>4. NameList(list) BY <1>1 DEF Edit, OpOK
<1> HIDE DEF list, temp
<1>5. /\ \A f \in files : f.path.path \in Paths BY <1>4 DEF NameList
<1>6. IsFiniteSet(files)
 <2> DEFINE g == [i \in DOMAIN list |-> File(i)]
 <2>1. g \in Surjection(DOMAIN list, files) BY DEF Surjection
 <2> HIDE DEF g
 <2>2. IsFiniteSet(DOMAIN list)
  <3> QED BY <1>4, FS_Interval DEF NameList
 <2> HIDE DEF files
 <2> QED BY <2>1, <2>2, FS_Surjection
<1> HIDE DEF files
<1>7. /\ DOMAIN e' = EditFields /\ e'.op = NoOp /\ e'.copy_data = e.copy_data
      /\ e'.open_files \in {e.open_files, e.open_files \cup files} /\ e'.drag = e.drag
 BY <1>2, <1>3 DEF EditFields
<1>8. IsFiniteSet(e.open_files) /\ \A f \in e.open_files : f.path.path \in Paths BY <1>1 DEF Edit
<1>9. IsFiniteSet(e.open_files \cup files) BY <1>6, <1>8, FS_Union
<1>10. IsFiniteSet(e'.open_files) /\ \A f \in e'.open_files : f.path.path \in Paths
 BY <1>5, <1>7, <1>8, <1>9
<1>11. Edit(e') /\ ~Runs(e') BY <1>1, <1>7, <1>10, EndedIs
<1> QED BY <1>1, <1>7, <1>11, EndedKeeps

LEMMA DraggedOutKeeps ==
    ASSUME IInv, DraggedOut PROVE IInv'
<1>1. /\ Runs(e) /\ Edit(e) /\ w' = StopActivity(w) /\ disk' = disk
      /\ e' = [e EXCEPT !.op = NoOp, !.dragged = None, !.dropped = 0]
 BY DEF DraggedOut, IInv
<1>2. DOMAIN e = EditFields BY <1>1 DEF Edit
<1>3. /\ DOMAIN e' = EditFields /\ e'.op = NoOp /\ e'.copy_data = e.copy_data
      /\ e'.open_files = e.open_files /\ e'.drag = e.drag
 BY <1>1, <1>2 DEF EditFields
<1>4. IsFiniteSet(e'.open_files) /\ \A f \in e'.open_files : f.path.path \in Paths
 BY <1>1, <1>3 DEF Edit
<1>5. Edit(e') /\ ~Runs(e') BY <1>1, <1>3, <1>4, EndedIs
<1> QED BY <1>1, <1>3, <1>5, EndedKeeps

\* Only what is asked of the user changes.
LEMMA AskedKeeps ==
    ASSUME IInv, Loosely(e, e'), e'.drag = e.drag, UNCHANGED <<disk, w>>
    PROVE  IInv'
<1> QED BY LooselyIs, LeftKeeps DEF IInv

LEMMA ModifiedKeeps ==
    ASSUME IInv, Modified \/ CancelUpdate PROVE IInv'
<1>1. DOMAIN e = EditFields /\ UNCHANGED <<disk, w>> BY DEF IInv, Edit, Modified, CancelUpdate
<1>2. (\E x, y : e' = [e EXCEPT !.temps = x, !.dialog = y]) \/ e' = [e EXCEPT !.dialog = {}]
 BY DEF Modified, CancelUpdate
<1>3. Loosely(e, e') /\ e'.drag = e.drag BY <1>1, <1>2 DEF Loosely, EditFields
<1> QED BY <1>1, <1>3, AskedKeeps

\* A finite set as a list.
LEMMA SetInOrder ==
    ASSUME NEW S, IsFiniteSet(S)
    PROVE  SetToSeq(S) \in Seq(S)
<1> DEFINE n == Cardinality(S)
<1>1. n \in Nat /\ ExistsBijection(1..n, S) BY FS_CardinalityType
<1>2. \E f \in [1..n -> S] : IsInjective(f)
 <2>1. PICK f : f \in Bijection(1..n, S) BY <1>1 DEF ExistsBijection
 <2> QED BY <2>1 DEF Bijection, Injection, IsInjective
<1>3. SetToSeq(S) \in [1..n -> S] BY <1>2 DEF SetToSeq
<1> QED BY <1>1, <1>3

LEMMA UpdateKeeps ==
    ASSUME IInv, Update PROVE IInv'
<1>1. ~w.loading /\ ~Runs(e) /\ e.drag = NoDrag /\ Good(w) /\ Edit(e) /\ Window(w)
 BY MayEditIs DEF Update
<1>2. DOMAIN e = EditFields BY <1>1 DEF Edit
<1>3. CASE e' = [e EXCEPT !.crashed = TRUE] /\ UNCHANGED <<disk, w>>
 <2>1. Loosely(e, e') /\ e'.drag = e.drag BY <1>2, <1>3 DEF Loosely, EditFields
 <2> QED BY <1>3, <2>1, AskedKeeps
<1> DEFINE Step(f) == Do("update", [path |-> f.path.path, rooted |-> f.path.rooted,
                                    data |-> e.temps[f.temp][f.path]])
<1>4. \A f \in e.open_files : StepOK(Step(f)) BY <1>1 DEF Edit, StepOK, Do
<1> HIDE DEF Step
<1> DEFINE c(files) == [e EXCEPT !.dialog = {}, !.updating = files]
           steps(files) == [i \in DOMAIN SetToSeq(files) |-> Step(SetToSeq(files)[i])]
           x(files) == IF \E f \in files : Displaced(f, files) THEN {"over"} ELSE {}
<1>5. \/ e' = [e EXCEPT !.crashed = TRUE] /\ UNCHANGED <<disk, w>>
      \/ \E files \in SUBSET e.open_files : Begin(c(files), "update", steps(files), 0, x(files))
 <2>1. PICK files \in (SUBSET e.dialog) \ {{}} :
         IF files \subseteq e.open_files
         THEN Begin(c(files), "update", steps(files), 0, x(files))
         ELSE e' = [e EXCEPT !.crashed = TRUE] /\ UNCHANGED <<disk, w>>
  BY Zenon DEF Update, Step
 <2> HIDE DEF c, steps, x
 <2> QED BY <2>1
<1> HIDE DEF x
<1>6. ASSUME NEW files \in SUBSET e.open_files, Begin(c(files), "update", steps(files), 0, x(files))
      PROVE  IInv'
 <2> DEFINE d == c(files)
            list == SetToSeq(files)
            g == [i \in DOMAIN list |-> Step(list[i])]
 <2>1. Loosely(e, d) /\ d.drag = e.drag BY <1>2 DEF Loosely, EditFields
 <2>2. Begin(d, "update", g, 0, x(files)) BY <1>6
 <2> HIDE DEF d
 <2>3. Edit(d) BY <1>1, <2>1, LooselyIs
 <2>4. list \in Seq(files)
  <3> QED BY <1>1, FS_Subset, SetInOrder DEF Edit
 <2> HIDE DEF list
 <2>5. /\ DOMAIN list = 1..Len(list) /\ Len(list) \in Nat
       /\ \A i \in 1..Len(list) : list[i] \in e.open_files
  BY <2>4
 <2>6. /\ DOMAIN g = 1..Len(list) /\ g = [i \in 1..Len(list) |-> g[i]]
       /\ \A i \in 1..Len(list) : StepOK(g[i])
  BY <1>4, <2>5
 <2> HIDE DEF g
 <2>7. StepList(g) BY <2>5, <2>6, SomeSteps
 <2>8. \A i \in DOMAIN g : ~(i < 0) BY <2>5, <2>6
 <2>9. OpOK([kind |-> "update", steps |-> g, apart |-> 0]) BY <2>7, <2>8, OpIs
 <2> QED BY <1>1, <2>1, <2>2, <2>3, <2>9, BeginKeeps
<1> HIDE DEF c, steps
<1> QED BY <1>3, <1>5, <1>6

\* A drag begun.
LEMMA DragBegunIs ==
    ASSUME Edit(e), NEW s, NEW from
    PROVE  /\ Edit(DragBegun(s, from)) /\ Runs(DragBegun(s, from)) = Runs(e)
           /\ DragBegun(s, from).drag.from = from /\ "from" \in DOMAIN DragBegun(s, from).drag
<1> DEFINE x == IF s.activity_ref > 0 THEN e.destination ELSE 0
           y == [number |-> s.acts, from |-> from, asked |-> FALSE, remade |-> FALSE,
                 busy |-> s.activity_ref > 0, folder |-> s.tree_selection,
                 meant |-> IF from = "tree" THEN FolderFiles(s) ELSE RowsFiles(s, s.selected)]
           d == [e EXCEPT !.destination = x, !.drag = y]
<1>1. DragBegun(s, from) = d BY DEF DragBegun
<1>2. y.from = from /\ "from" \in DOMAIN y OBVIOUS
<1>3. DOMAIN e = EditFields BY DEF Edit
<1> HIDE DEF x, y
<1>4. Loosely(e, d) /\ d.drag = y BY <1>3 DEF Loosely, EditFields
<1> HIDE DEF d
<1> QED BY <1>1, <1>2, <1>4, LooselyIs

LEMMA PressedIs ==
    ASSUME NEW s, Good(s), s.rows_live, NEW row \in s.rows
    PROVE  /\ Moved(s, Pressed(s, row))
           /\ Apart({"freed_read", "selected", "selected_then"}, s, Pressed(s, row))
<1>1. DOMAIN s = Fields BY Zenon DEF Good, Window
<1>2. CASE row \in s.selected
 <2>1. Pressed(s, row) = s BY <1>2 DEF Pressed
 <2> QED BY <1>1, <2>1, LaterSame DEF Apart, Moved
<1>3. CASE row \notin s.selected
 <2> DEFINE then == s.selected_then
            a == [s EXCEPT !.selected = {row}]
            b == [s EXCEPT !.selected = {row}, !.selected_then = then]
 <2>1. a = b BY <1>1
 <2>2. Pressed(s, row) = UpdateSensitivity(a) BY <1>3 DEF Pressed
 <2>3. then \in BOOLEAN /\ then = (s.selected_then \/ ~s.rows_live) BY DEF Good, Window
 <2>4. {row} \in SUBSET (s.rows \cup s.selected) OBVIOUS
 <2> HIDE DEF a, then
 <2>5. Moved(s, UpdateSensitivity(b)) /\ Apart({"freed_read", "selected", "selected_then"}, s, UpdateSensitivity(b))
  BY <2>3, <2>4, Selects
 <2> QED BY <2>1, <2>2, <2>5
<1> QED BY <1>2, <1>3

LEMMA DragRowsMoves ==
    ASSUME IInv, DragRows
    PROVE  /\ Moved(w, w') /\ w'.refs = w'.selected
           /\ Edit(e') /\ Runs(e') = Runs(e) /\ e'.drag.from = "list" /\ "from" \in DOMAIN e'.drag
<1>1. Good(w) /\ Edit(e) /\ w.rows_live /\ disk' = disk BY CountIs DEF DragRows, IInv
<1>2. PICK row \in w.rows : LET s == Pressed(Act(w), row)
                            IN w' = [s EXCEPT !.refs = s.selected] /\ e' = DragBegun(s, "list")
 BY DEF DragRows
<1> DEFINE a == Act(w)
<1>3. Good(a) /\ Apart({"acts"}, w, a) /\ Moved(w, a) BY <1>1, ActIs
<1> DEFINE s == Pressed(a, row)
           t == [s EXCEPT !.refs = s.selected]
<1>4. w' = t /\ e' = DragBegun(s, "list") BY <1>2
<1> HIDE DEF a
<1>5. a.rows_live /\ row \in a.rows BY <1>1, <1>3 DEF Apart, Fields
<1>6. Moved(a, s) /\ Apart({"freed_read", "selected", "selected_then"}, a, s)
 BY <1>3, <1>5, PressedIs
<1> HIDE DEF s
<1>7. Good(s) /\ DOMAIN s = Fields BY <1>6 DEF Moved, Apart
<1>8. Apart({"refs"}, s, t) /\ t.refs = t.selected BY <1>7 DEF Apart, Fields
<1> HIDE DEF t
<1>9. Good(t) BY <1>7, <1>8 DEF Good, Window, Read, Apart, Fields
<1>10. Apart(Quiet, s, t) /\ t.activity_ref = s.activity_ref BY <1>8 DEF Apart, Quiet, Fields
<1>14. Later(s, t) BY <1>7, <1>8, LaterSame DEF Apart, Fields
<1>11. Moved(s, t) BY <1>7, <1>9, <1>10, <1>14, QuietIs
<1>12. Moved(w, w') BY <1>3, <1>4, <1>6, <1>11, MovedOn
<1>13. /\ Edit(e') /\ Runs(e') = Runs(e) /\ e'.drag.from = "list" /\ "from" \in DOMAIN e'.drag
 BY <1>1, <1>4, DragBegunIs
<1> QED BY <1>4, <1>8, <1>12, <1>13

LEMMA DragRowsKeeps ==
    ASSUME IInv, DragRows PROVE IInv'
<1>1. /\ Moved(w, w') /\ w'.refs = w'.selected /\ disk' = disk
      /\ Edit(e') /\ Runs(e') = Runs(e) /\ e'.drag.from = "list" /\ "from" \in DOMAIN e'.drag
 BY DragRowsMoves DEF DragRows
<1>2. Entries(disk') /\ Good(w') /\ Busy' /\ Follows' BY <1>1, MovedKeeps
<1>3. Dragging' BY <1>1 DEF Dragging
<1> QED BY <1>1, <1>2, <1>3, InvIs

LEMMA DragFolderKeeps ==
    ASSUME IInv, DragFolder PROVE IInv'
<1>1. Good(w) /\ Edit(e) /\ disk' = disk /\ w' = Act(w) /\ e' = DragBegun(w', "tree")
 BY CountIs DEF DragFolder, IInv
<1>2. Moved(w, w') BY <1>1, ActIs
<1>3. /\ Edit(e') /\ Runs(e') = Runs(e) /\ e'.drag.from = "tree" /\ "from" \in DOMAIN e'.drag
 BY <1>1, DragBegunIs
<1>4. Entries(disk') /\ Good(w') /\ Busy' /\ Follows' BY <1>1, <1>2, <1>3, MovedKeeps
<1>5. Dragging' BY <1>3 DEF Dragging
<1> QED BY <1>3, <1>4, <1>5, InvIs

LEMMA AnsweredIs ==
    ASSUME Edit(e), "from" \in DOMAIN e.drag, NEW list, Answered(list)
    PROVE  /\ Edit(e') /\ Runs(e') = Runs(e)
           /\ e'.drag.from = e.drag.from /\ DOMAIN e'.drag = DOMAIN e.drag
<1>1. DOMAIN e = EditFields BY DEF Edit
<1>2. \/ e' = [e EXCEPT !.drag.asked = TRUE, !.drag_error = TRUE]
      \/ \E x, y, z : e' = [e EXCEPT !.drag.asked = TRUE, !.drag.remade = x,
                                     !.destination = y, !.drag_list = z]
 <2> DEFINE a == IF e.drag.from = "tree" THEN w.tree_selection # e.drag.folder ELSE w.refs = {}
            b == e.drag.number
            c == OrNull(NamesOf(Listed(w, list)))
 <2>1. \/ e' = [e EXCEPT !.drag.asked = TRUE, !.drag_error = TRUE]
       \/ e' = [e EXCEPT !.drag.asked = TRUE, !.drag.remade = a, !.destination = b, !.drag_list = c]
  BY Zenon DEF Answered
 <2> HIDE DEF a, b, c
 <2> QED BY <2>1
<1>3. CASE e' = [e EXCEPT !.drag.asked = TRUE, !.drag_error = TRUE]
 <2> QED BY <1>1, <1>3, LooselyIs DEF Loosely, EditFields
<1>4. ASSUME NEW x, NEW y, NEW z, e' = [e EXCEPT !.drag.asked = TRUE, !.drag.remade = x,
                                     !.destination = y, !.drag_list = z]
      PROVE  /\ Loosely(e, e') /\ e'.drag.from = e.drag.from /\ DOMAIN e'.drag = DOMAIN e.drag
 BY <1>1, <1>4 DEF Loosely, EditFields
<1>5. Loosely(e, e') => Edit(e') /\ Runs(e') = Runs(e) BY LooselyIs
<1> QED BY <1>2, <1>3, <1>4, <1>5

LEMMA ListDragDataGetKeeps ==
    ASSUME IInv, ListDragDataGet PROVE IInv'
<1>1. /\ Good(w) /\ Edit(e) /\ disk' = disk /\ e.drag # NoDrag /\ e.drag.from = "list"
      /\ "from" \in DOMAIN e.drag /\ Answered(RowsFiles(w, w.refs))
      /\ w.refs # {} => w.selected # {}
      /\ w' = [ReadRows(w, w.refs) EXCEPT !.refs = {}]
 BY CountIs DEF ListDragDataGet, MayAnswer, IInv, Dragging
<1>2. Edit(e') /\ Runs(e') = Runs(e) /\ DOMAIN e'.drag = DOMAIN e.drag BY <1>1, AnsweredIs
<1> DEFINE read == w.freed_read \/ (w.refs # {} /\ ~w.rows_live)
           t == [w EXCEPT !.freed_read = read, !.refs = {}]
<1>3. w' = t BY <1>1 DEF ReadRows
<1>4. read \in BOOLEAN /\ (read => w.freed_read \/ w.selected_then) BY <1>1 DEF Good, Window, Read
<1> HIDE DEF read
<1>5. Moved(w, t) /\ t.refs = {} BY <1>1, <1>4, RefsMove
<1> HIDE DEF t
<1>6. Entries(disk') /\ Good(w') /\ Busy' /\ Follows' BY <1>1, <1>2, <1>3, <1>5, MovedKeeps
<1>7. Dragging' BY <1>1, <1>2, <1>3, <1>5 DEF Dragging
<1> QED BY <1>2, <1>6, <1>7, InvIs

LEMMA TreeDragDataGetKeeps ==
    ASSUME IInv, TreeDragDataGet PROVE IInv'
<1>1. /\ Edit(e) /\ UNCHANGED <<disk, w>> /\ e.drag # NoDrag
      /\ "from" \in DOMAIN e.drag /\ Answered(FolderFiles(w))
 BY DEF TreeDragDataGet, MayAnswer, IInv, Dragging
<1>2. /\ Edit(e') /\ Runs(e') = Runs(e)
      /\ e'.drag.from = e.drag.from /\ DOMAIN e'.drag = DOMAIN e.drag
 BY <1>1, AnsweredIs
<1> QED BY <1>1, <1>2, LeftKeeps

LEMMA DragEndKeeps ==
    ASSUME IInv, DragEnd PROVE IInv'
<1>1. Good(w) /\ Edit(e) /\ DOMAIN e = EditFields BY CountIs DEF IInv, Edit
<1> DEFINE dropped == [e EXCEPT !.drag = NoDrag, !.drag_error = FALSE]
<1>2. \/ e' = dropped /\ w' = [w EXCEPT !.refs = {}] /\ UNCHANGED disk
      \/ e' = [dropped EXCEPT !.crashed = TRUE] /\ UNCHANGED <<disk, w>>
      \/ /\ ~Runs(e) /\ ~w.loading
         /\ Begin([dropped EXCEPT !.drag_list = None, !.dragged = e.drag, !.dropped = e.destination],
                  "drag", << Do("extract", e.drag_list) >>, 0, {})
 BY Zenon DEF DragEnd
<1>3. Loosely(e, dropped) /\ dropped.drag = NoDrag /\ DOMAIN dropped = EditFields
 BY <1>1 DEF Loosely, EditFields
<1>4. CASE e' = dropped /\ w' = [w EXCEPT !.refs = {}] /\ UNCHANGED disk
 <2> HIDE DEF dropped
 <2>1. Edit(e') /\ Runs(e') = Runs(e) /\ e'.drag = NoDrag BY <1>1, <1>3, <1>4, LooselyIs
 <2> DEFINE read == w.freed_read
            t == [w EXCEPT !.freed_read = read, !.refs = {}]
 <2>2. w' = t
  <3>1. DOMAIN w = Fields BY <1>1, Zenon DEF Good, Window
  <3> QED BY <1>4, <3>1
 <2>3. read \in BOOLEAN /\ (read => w.freed_read \/ w.selected_then) BY <1>1 DEF Good, Window
 <2> HIDE DEF read
 <2>4. Moved(w, t) BY <1>1, <2>3, RefsMove
 <2> HIDE DEF t
 <2>5. Entries(disk') /\ Good(w') /\ Busy' /\ Follows' BY <1>4, <2>1, <2>2, <2>4, MovedKeeps
 <2>6. Dragging' BY <2>1 DEF Dragging
 <2> QED BY <2>1, <2>5, <2>6, InvIs
<1>5. CASE e' = [dropped EXCEPT !.crashed = TRUE] /\ UNCHANGED <<disk, w>>
 <2> HIDE DEF dropped
 <2>1. Loosely(e, e') /\ e'.drag = NoDrag BY <1>3, <1>5 DEF Loosely, EditFields
 <2>2. Edit(e') /\ Runs(e') = Runs(e) BY <1>1, <2>1, LooselyIs
 <2> QED BY <1>5, <2>1, <2>2, LeftKeeps
<1>6. CASE /\ ~Runs(e) /\ ~w.loading
           /\ Begin([dropped EXCEPT !.drag_list = None, !.dragged = e.drag, !.dropped = e.destination],
                    "drag", << Do("extract", e.drag_list) >>, 0, {})
 <2> DEFINE c == [dropped EXCEPT !.drag_list = None, !.dragged = e.drag, !.dropped = e.destination]
            step == Do("extract", e.drag_list)
            steps == <<step>>
 <2>1. Begin(c, "drag", steps, 0, {}) BY <1>6
 <2>2. Loosely(e, c) /\ c.drag = NoDrag
  <3> HIDE DEF dropped
  <3> QED BY <1>3 DEF Loosely, EditFields
 <2> HIDE DEF c
 <2>3. Edit(c) BY <1>1, <2>2, LooselyIs
 <2>4. StepOK(step) BY PlainSteps
 <2> HIDE DEF step
 <2>5. StepList(steps) /\ \A i \in DOMAIN steps : ~(i < 0) BY <2>4, OneStep
 <2> HIDE DEF steps
 <2>6. OpOK([kind |-> "drag", steps |-> steps, apart |-> 0]) BY <2>5, OpIs
 <2> QED BY <1>6, <2>1, <2>2, <2>3, <2>6, BeginKeeps
<1> HIDE DEF dropped
<1> QED BY <1>2, <1>4, <1>5, <1>6

----
(* The invariant, and what follows from it. *)

\* The window before the archive is listed for the first time.
NewWindow ==
    [files |-> <<>>, names |-> {}, rows |-> {}, rows_live |-> TRUE, selected |-> {},
     refs |-> {},
     tree |-> {}, tree_selection |-> None,
     history |-> << <<>> >>, history_current |-> 1, last_location |-> None,
     list_mode |-> "AS_DIR", last_list_mode |-> "AS_DIR", filter_mode |-> FALSE,
     filter |-> None, view_folders |-> TRUE,
     archive_present |-> FALSE, activity_ref |-> 0, loading |-> FALSE, acts |-> 0,
     freed_read |-> FALSE, selected_then |-> FALSE, icons_changed |-> FALSE]

LEMMA NewWindowIs == Good(NewWindow) /\ NewWindow.activity_ref = 0
<1> DEFINE s == NewWindow
<1>1. DOMAIN s = Fields BY DEF NewWindow, Fields
<1>2. /\ s.files = <<>> /\ s.names = {} /\ s.rows = {} /\ s.rows_live = TRUE /\ s.selected = {}
      /\ s.refs = {} /\ s.acts = 0 /\ s.tree = {} /\ s.tree_selection = None /\ s.history = << <<>> >>
      /\ s.history_current = 1 /\ s.last_location = None
 BY DEF NewWindow
<1>3. /\ s.activity_ref = 0 /\ s.loading = FALSE /\ s.archive_present = FALSE
      /\ s.freed_read = FALSE /\ s.selected_then = FALSE /\ s.icons_changed = FALSE
 BY DEF NewWindow
<1> HIDE DEF s
<1>4. Range(<<>>) = {} /\ <<>> \in Seq({}) BY DEF Range
<1>5. << <<>> >> \in Seq(Seq(Names)) /\ 1 \in 0..Len(<< <<>> >>) OBVIOUS
<1>6. s.files \in Seq(Range(s.files)) /\ Entries(Range(s.files)) BY <1>2, <1>4 DEF Entries
<1>9. /\ s.tree \subseteq Seq(Names) /\ s.tree_selection \in Seq(Names) \cup {None}
      /\ s.last_location \in Seq(Names) \cup {None}
      /\ (\A m \in s.names : m.entry.path \in Paths /\ m.name \in Names)
      /\ (\A row \in s.rows \cup s.selected : row.entry.path \in Paths)
 BY <1>2
<1>10. s.history \in Seq(Seq(Names)) /\ s.history_current \in 0..Len(s.history) BY <1>2, <1>5
<1>12. /\ s.rows_live \in BOOLEAN /\ s.selected_then \in BOOLEAN /\ s.freed_read \in BOOLEAN
       /\ s.loading \in BOOLEAN /\ s.archive_present \in BOOLEAN /\ s.icons_changed \in BOOLEAN
 <2>1. TRUE \in BOOLEAN /\ FALSE \in BOOLEAN OBVIOUS
 <2> QED BY <1>2, <1>3, <2>1, Zenon
<1>11. s.activity_ref \in Nat BY <1>3
<1>7. Window(s) BY <1>1, <1>2, <1>6, <1>9, <1>10, <1>11, <1>12 DEF Window
<1>8. Read(s) BY <1>2, <1>3 DEF Read
<1> QED BY <1>3, <1>7, <1>8 DEF Good, s

LEMMA InitInv == Init => IInv
<1> SUFFICES ASSUME Init PROVE IInv OBVIOUS
<1>1. Entries(disk) BY EditAssumption DEF Init, Entries, Paths
<1>2. w = StartLoad(NewWindow) BY DEF Init, BrowseInit, NewWindow
<1> DEFINE t == StartLoad(NewWindow)
<1>3. /\ Good(t) /\ t.activity_ref = NewWindow.activity_ref + 1
      /\ t.files = <<>> /\ t.loading
 BY NewWindowIs, StartLoadIs
<1>4. w = t BY <1>2
<1> HIDE DEF t
<1>5. e.op = NoOp /\ DOMAIN e = EditFields BY DEF Init, EditInit, EditFields
<1>6. e.copy_data = None /\ e.open_files = {} /\ e.drag = NoDrag BY DEF Init, EditInit
<1>7. OpOK(NoOp) /\ NoOp.kind = "none" /\ IsFiniteSet({}) BY NoOpIs, FS_EmptySet
<1>8. Edit(e) /\ ~Runs(e) BY <1>5, <1>6, <1>7 DEF Edit, Runs
<1>9. w.activity_ref = 1 /\ w.loading \in BOOLEAN /\ w.loading /\ Good(w)
 <2>1. Good(w) /\ w.loading /\ w.activity_ref = 0 + 1 BY <1>3, <1>4, NewWindowIs
 <2> QED BY <2>1 DEF Good, Window
<1>10. Running = 1 BY <1>8, <1>9 DEF Running, Bit
<1>11. Busy BY <1>8, <1>9, <1>10 DEF Busy
<1>12. Range(t.files) = {} BY <1>3 DEF Range
<1>13. Follows BY <1>4, <1>9, <1>12 DEF Follows
<1>14. Dragging BY <1>6 DEF Dragging
<1> QED BY <1>1, <1>8, <1>9, <1>11, <1>13, <1>14 DEF IInv, Good

LEMMA NextInv == IInv /\ [Next]_vars => IInv'
<1> SUFFICES ASSUME IInv, [Next]_vars PROVE IInv' OBVIOUS
<1>1. CASE UNCHANGED vars
 <2> QED BY <1>1, LeftKeeps DEF vars, IInv
<1>2. CASE Next
 BY <1>2, BrowseStepKeeps, DeleteKeeps, RenameRowKeeps, RenameFolderKeeps, CopyOrCutKeeps,
    PasteKeeps, FinishKeeps, OpenFilesKeeps, FilesOpenedKeeps, ModifiedKeeps, UpdateKeeps,
    DragRowsKeeps, DragFolderKeeps, ListDragDataGetKeeps, TreeDragDataGetKeeps, DragEndKeeps,
    DraggedOutKeeps DEF Next
<1> QED BY <1>1, <1>2

\* Every state of a window is as IInv says: what it shows follows the archive, whatever is
\* asked of it and whatever fails (fr-window.c, fr-process.c).
THEOREM WindowFollowsArchive == Spec => []IInv
<1>1. Init => IInv BY InitInv
<1>2. IInv /\ [Next]_vars => IInv' BY NextInv
<1> QED BY <1>1, <1>2, PTL DEF Spec

LEMMA InvShows == IInv => ShowsLocationUnlessGone
<1> SUFFICES ASSUME IInv PROVE ShowsLocationUnlessGone OBVIOUS
<1> DEFINE here == Location(w)
           shows == { row.shown : row \in w.rows }
           inside == { m \in disk : IsPrefix(here, m.path) /\ Len(m.path) > Len(here) }
<1>1. w.freed_read => w.selected_then BY DEF IInv, Read
<1>2. ASSUME Idle, w.archive_present, w.list_mode = "AS_DIR", w.filter = None,
             DirExists(w.files, here)
      PROVE  w.rows_live /\ shows = { SubSeq(m.path, 1, Len(here) + 1) : m \in inside }
 <2>1. Range(w.files) = disk /\ Sees(w) BY <1>2, CountIs DEF IInv, Follows
 <2>2. w.rows_live /\ shows = Children(Range(w.files), here) BY <1>2, <2>1 DEF Sees, Shown
 <2>3. Children(disk, here) = { SubSeq(m.path, 1, Len(here) + 1) : m \in inside }
  BY Zenon DEF Children
 <2> QED BY <2>1, <2>2, <2>3
<1> QED BY <1>1, <1>2, Zenon DEF ShowsLocationUnlessGone

\* While nothing runs the rows are what the location holds, each file and folder once
\* (fr_window_compute_list_names, fr_window_populate_file_list); and an entry that was freed
\* is read only when rows were selected or gone into when the archive was listed.
THEOREM ShowsTheLocation == Spec => []ShowsLocationUnlessGone
BY WindowFollowsArchive, InvShows, PTL

LEMMA InvBusy == IInv => (w.activity_ref > 0 => (w.loading \/ Runs(e) \/ w.icons_changed))
BY CountIs

\* Nothing keeps a window busy (fr_window_start_activity_mode) but a listing or an operation
\* that goes on, or that the icons were changed; and then it is busy once more at most.
THEOREM BusyOnlyWhileSomethingRuns ==
    Spec => [](w.activity_ref > 0 => (w.loading \/ Runs(e) \/ w.icons_changed))
BY WindowFollowsArchive, InvBusy, PTL

\* A listing ends in no other way.
LEMMA OnlyEndLoadEnds ==
    ASSUME IInv, Next, ~EndLoad, w.loading
    PROVE  w'.loading
<1>1. /\ Good(w) /\ ~Runs(e) /\ ~Idle BY CountIs
<1>2. CASE BrowseStep
 <2>1. Browse \/ ReadMember \/ ThemeChanged \/ IconsChanged BY <1>2 DEF BrowseStep
 <2>2. CASE Moved(w, w') BY <2>2 DEF Moved, KeptFields
 <2>3. CASE ReadMember
  <3>1. w' = [w EXCEPT !.files = Append(@, CHOOSE entry \in disk \ Range(@) : TRUE)]
   BY <2>3 DEF ReadMember
  <3>2. DOMAIN w = Fields BY <1>1, Zenon DEF Good, Window
  <3> QED BY <3>1, <3>2 DEF Fields
 <2>4. CASE IconsChanged BY <1>1, <2>4, IconsChangedIs
 <2>5. ~Open /\ ~Reload BY <1>1 DEF Open, Reload
 <2>6. CASE ThemeChanged BY <1>1, <2>2, <2>6, ThemeChangedMoves
 <2> QED BY <1>1, <2>1, <2>2, <2>3, <2>4, <2>5, <2>6, BrowseMoves
<1>3. ~MayEdit BY <1>1 DEF MayEdit
<1>4. ~(Delete \/ RenameRow \/ RenameFolder \/ CopyOrCut \/ Paste \/ OpenFiles \/ Update)
 BY <1>3 DEF Delete, RenameRow, RenameFolder, CopyOrCut, Paste, OpenFiles, Update
<1>5. ~(Finish \/ FilesOpened \/ DraggedOut \/ ListDragDataGet \/ TreeDragDataGet)
 BY <1>1 DEF Finish, FilesOpened, DraggedOut, ListDragDataGet, TreeDragDataGet, MayAnswer
<1>6. CASE Modified \/ CancelUpdate BY <1>6 DEF Modified, CancelUpdate
<1>7. CASE DragRows BY <1>7, DragRowsMoves DEF Moved, KeptFields
<1>8. CASE DragFolder
 <2> QED BY <1>1, <1>8, ActIs DEF DragFolder, Moved, KeptFields
<1>9. CASE DragEnd
 <2>1. w' = [w EXCEPT !.refs = {}] \/ w' = w BY <1>9 DEF DragEnd
 <2>2. DOMAIN w = Fields BY <1>1, Zenon DEF Good, Window
 <2> QED BY <2>1, <2>2 DEF Fields
<1> QED BY <1>2, <1>4, <1>5, <1>6, <1>7, <1>8, <1>9 DEF Next

\* Where the window is when a listing ends.
Nearest ==
    (w.loading /\ w.archive_present /\ ~w'.loading /\ w'.archive_present
       /\ w'.list_mode = "AS_DIR")
      => LET was == Location(w)
             here == Location(w')
         IN /\ IsPrefix(here, was) /\ DirExists(w'.files, here)
            /\ \A i \in (Len(here) + 1)..Len(was) : ~DirExists(w'.files, SubSeq(was, 1, i))

LEMMA NearIs ==
    ASSUME NEW files, NEW was \in Seq(Names), NEW here, Near(files, was, here)
    PROVE  /\ IsPrefix(here, was) /\ DirExists(files, here)
           /\ \A i \in (Len(here) + 1)..Len(was) : ~DirExists(files, SubSeq(was, 1, i))
<1>1. PICK d \in 0..Len(was) :
       /\ here = SubSeq(was, 1, d) /\ DirExists(files, here)
       /\ \A i \in (d + 1)..Len(was) : ~DirExists(files, SubSeq(was, 1, i))
 BY DEF Near
<1>2. here \in Seq(Names) /\ Len(here) = d /\ \A i \in 1..d : here[i] = was[i] BY <1>1, FrontIs
<1>3. Agree(here, was, Len(here)) BY <1>1, <1>2 DEF Agree
<1>4. IsPrefix(here, was) BY <1>2, <1>3, PrefixIs
<1> QED BY <1>1, <1>2, <1>4

LEMMA NextNearest == IInv /\ [Next]_vars => Nearest
<1> SUFFICES ASSUME IInv, [Next]_vars,
                    w.loading, w.archive_present, ~w'.loading, w'.archive_present,
                    w'.list_mode = "AS_DIR"
             PROVE  /\ IsPrefix(Location(w'), Location(w)) /\ DirExists(w'.files, Location(w'))
                    /\ \A i \in (Len(Location(w')) + 1)..Len(Location(w)) :
                          ~DirExists(w'.files, SubSeq(Location(w), 1, i))
 BY Zenon DEF Nearest
<1>1. EndLoad BY OnlyEndLoadEnds DEF vars
<1>2. Good(w) /\ w.activity_ref \in Nat /\ w.activity_ref > 0 BY CountIs
<1>3. w' = ListingDone(w)
 <2>1. CASE w' = ListingFailed(w) BY <1>2, <2>1, ListingFailedIs
 <2> QED BY <1>1, <2>1 DEF EndLoad
<1> DEFINE t == ListingDone(w)
<1>4. /\ Apart(ViewFields \cup {"archive_present", "loading", "activity_ref", "files"}, w, t)
      /\ w.archive_present /\ w.list_mode # "FLAT" => Near(t.files, Location(w), Location(t))
 BY <1>2, ListingDoneIs
<1>5. w' = t BY <1>3
<1> HIDE DEF t
<1>6. w.list_mode = "AS_DIR" BY <1>4, <1>5 DEF Apart, Fields, ViewFields
<1>7. Near(t.files, Location(w), Location(t)) BY <1>4, <1>6
<1>8. Location(w) \in Seq(Names) BY <1>2, LocationTyped DEF Good
<1>9. /\ IsPrefix(Location(t), Location(w)) /\ DirExists(t.files, Location(t))
      /\ \A i \in (Len(Location(t)) + 1)..Len(Location(w)) :
            ~DirExists(t.files, SubSeq(Location(w), 1, i))
 BY <1>7, <1>8, NearIs
<1> QED BY <1>5, <1>9

\* When the archive has been listed again the window is where it was, or at the nearest folder
\* above it that there still is (fr_window_update_file_list, and all that moves after it).
THEOREM WindowStaysNear == Spec => StaysNear
<1>1. IInv /\ [Next]_vars => Nearest BY NextNearest
<1>2. StaysNear <=> [][Nearest]_<<disk, w>> BY DEF StaysNear, Nearest
<1>3. IInv /\ [Next]_vars => [Nearest]_<<disk, w>> BY <1>1
<1> QED BY <1>2, <1>3, WindowFollowsArchive, PTL DEF Spec

----
(* What is dragged out. DragInv is about a drag that goes on: what it was begun for is what its
   rows, or the folder of the tree, still stand for, until the file manager has asked for it; and
   then it is the list that was answered. *)

\* What Only gives is what of the list is in the set.
LEMMA OnlyRange ==
    ASSUME NEW S, NEW list \in Seq(S), NEW set
    PROVE  Range(Only(list, set)) = Range(list) \cap set
<1> DEFINE m == Len(list)
           f == CHOOSE g : KeptOf(g, list, set, m)
           Holds(n) == f[n] \in Seq(S) /\ \A x : x \in Range(f[n]) <=> \E i \in 1..n : list[i] = x /\ x \in set
           Fails == {n \in Nat : n <= m /\ ~Holds(n)}
<1>1. m \in Nat /\ (\A n \in 1..m : list[n] \in S) /\ DOMAIN list = 1..m OBVIOUS
<1>2. Only(list, set) = f[m] BY Zenon DEF Only, KeptOf
<1>3. KeptOf(f, list, set, m) BY <1>1, KeptExists
<1> HIDE DEF f, m
<1>4. \A n \in 0..m : f[n] = IF n = 0 THEN <<>>
                        ELSE IF list[n] \in set THEN Append(f[n - 1], list[n]) ELSE f[n - 1]
 BY <1>3 DEF KeptOf
<1>5. ASSUME Fails # {} PROVE FALSE
 <2>1. PICK n \in Fails : \A j \in Fails : ~(j < n) BY <1>5, SmallestOf
 <2>2. n \in 0..m BY <1>1, <2>1
 <2>3. CASE n = 0
  <3>1. f[n] = <<>> BY <1>4, <2>2, <2>3
  <3>2. <<>> \in Seq(S) /\ (\A x : x \notin Range(<<>>)) /\ ~\E i \in 1..0 : TRUE BY DEF Range
  <3>3. Holds(n) BY <2>3, <3>1, <3>2
  <3> QED BY <2>1, <3>3
 <2>4. CASE n # 0
  <3>1. n - 1 \in Nat /\ n - 1 <= m /\ n - 1 < n /\ n \in 1..m BY <1>1, <2>2, <2>4
  <3>2. Holds(n - 1) BY <2>1, <3>1
  <3> DEFINE g == f[n - 1]
             x == list[n]
  <3>3. g \in Seq(S) /\ x \in S BY <1>1, <3>1, <3>2
  <3>4. \A y : y \in Range(g) <=> \E i \in 1..(n - 1) : list[i] = y /\ y \in set BY <3>2
  <3>5. f[n] = IF x \in set THEN Append(g, x) ELSE g BY <1>4, <2>2, <2>4
  <3>6. \A y : (\E i \in 1..n : list[i] = y /\ y \in set)
                 <=> (y = x /\ x \in set) \/ \E i \in 1..(n - 1) : list[i] = y /\ y \in set
   <4> QED BY <3>1
  <3> HIDE DEF g, x, Fails, Holds
  <3>7. Append(g, x) \in Seq(S) /\ \A y : y \in Range(Append(g, x)) <=> y = x \/ y \in Range(g)
   <4> DEFINE a == Append(g, x)
              l == Len(g)
   <4>1. a \in Seq(S) /\ Len(a) = l + 1 /\ l \in Nat BY <3>3
   <4>2. DOMAIN a = 1..(l + 1) /\ DOMAIN g = 1..l BY <3>3, <4>1
   <4>3. (\A i \in 1..l : a[i] = g[i]) /\ a[l + 1] = x BY <3>3
   <4> HIDE DEF a, l
   <4>4. DOMAIN a = DOMAIN g \cup {l + 1} BY <4>1, <4>2
   <4>5. \A y : (\E i \in DOMAIN a : a[i] = y) <=> y = x \/ \E i \in DOMAIN g : g[i] = y
    BY <4>2, <4>3, <4>4
   <4> QED BY <4>1, <4>5, InRange DEF a
  <3>8. \A y : y \in Range(f[n]) <=> (y = x /\ x \in set) \/ y \in Range(g) BY <3>5, <3>7
  <3>9. f[n] \in Seq(S) BY <3>3, <3>5, <3>7
  <3>10. Holds(n) BY <3>4, <3>6, <3>8, <3>9 DEF Holds
  <3> QED BY <2>1, <3>10 DEF Fails
 <2> QED BY <2>3, <2>4
<1>6. Holds(m)
 <2> HIDE DEF Holds
 <2>1. m \notin Fails BY <1>5
 <2> QED BY <1>1, <2>1
<1>7. \A x : x \in Range(list) <=> \E i \in 1..m : list[i] = x BY <1>1, InRange
<1> QED BY <1>2, <1>6, <1>7

\* What is listed of some entries names them all.
LEMMA ListedNames ==
    ASSUME NEW s, Window(s), NEW set \in SUBSET Range(s.files)
    PROVE  /\ Range(NamesOf(Listed(s, set))) = {Name(m) : m \in set}
           /\ NamesOf(Listed(s, set)) = <<>> <=> set = {}
           /\ OrNull(NamesOf(Listed(s, set))) = None <=> set = {}
<1> DEFINE list == Listed(s, set)
           names == NamesOf(list)
<1>1. s.files \in Seq(Range(s.files)) /\ Entries(Range(s.files)) BY Zenon DEF Window
<1>2. Range(list) = set /\ list \in Seq(Range(s.files))
 <2>1. Range(list) = Range(s.files) \cap set BY <1>1, OnlyRange DEF Listed
 <2>2. list \in Seq(Range(s.files)) BY <1>1, OnlyIs DEF Listed
 <2> HIDE DEF list
 <2> QED BY <2>1, <2>2
<1> HIDE DEF list
<1>3. DOMAIN names = DOMAIN list /\ \A i \in DOMAIN list : names[i] = Name(list[i]) BY DEF NamesOf
<1>4. names \in Seq([path : Seq(Names), slash : BOOLEAN, rooted : BOOLEAN])
 <2>1. \A i \in DOMAIN list : list[i] \in Range(s.files) BY <1>2
 <2>2. \A m \in Range(s.files) : Name(m) \in [path : Seq(Names), slash : BOOLEAN, rooted : BOOLEAN]
  <3> TAKE m \in Range(s.files)
  <3>1. m.path \in Seq(Names) /\ m.rooted \in BOOLEAN BY <1>1 DEF Entries, Paths
  <3>2. Slash(m) \in BOOLEAN BY DEF Slash
  <3> QED BY <3>1, <3>2 DEF Name
 <2>3. DOMAIN list = 1..Len(list) /\ Len(list) \in Nat BY <1>2
 <2>4. names = [i \in 1..Len(list) |-> Name(list[i])] BY <2>3 DEF NamesOf
 <2>5. \A i \in 1..Len(list) : Name(list[i]) \in [path : Seq(Names), slash : BOOLEAN, rooted : BOOLEAN]
  BY <2>1, <2>2, <2>3
 <2> HIDE DEF names
 <2> QED BY <2>3, <2>4, <2>5
<1>5. Range(names) = {Name(m) : m \in set}
 <2>1. \A x : x \in Range(names) <=> \E i \in DOMAIN list : Name(list[i]) = x BY <1>3, InRange
 <2>2. \A m : m \in set <=> \E i \in DOMAIN list : list[i] = m BY <1>2, InRange
 <2> QED BY <2>1, <2>2
<1>6. names = <<>> <=> set = {}
 <2>1. names = <<>> <=> DOMAIN list = {}
  <3>1. DOMAIN names = DOMAIN list /\ names \in Seq([path : Seq(Names), slash : BOOLEAN, rooted : BOOLEAN])
   BY <1>3, <1>4
  <3>2. DOMAIN <<>> = {} OBVIOUS
  <3>3. ASSUME DOMAIN names = {} PROVE names = <<>>
   <4> HIDE DEF names
   <4>1. Len(names) \in Nat /\ DOMAIN names = 1..Len(names) BY <3>1
   <4>2. Len(names) = 0 BY <3>3, <4>1
   <4> QED BY <3>1, <4>2, EmptySeq
  <3> QED BY <3>1, <3>2, <3>3
 <2>2. DOMAIN list = {} <=> set = {} BY <1>2, InRange
 <2> QED BY <2>1, <2>2
<1>7. names # None BY <1>4, EditAssumption
<1>8. OrNull(names) = None <=> names = <<>> BY <1>7 DEF OrNull
<1> QED BY <1>5, <1>6, <1>8 DEF list

LEMMA RowFilesInside ==
    ASSUME NEW s, NEW row, row.entry \in Range(s.files)
    PROVE  RowFiles(s, row) \subseteq Range(s.files)
<1> DEFINE m == ListName(s, row.entry)
           name == IF m.name = None THEN <<>> ELSE <<m.name>>
           place == Location(s) \o name
<1>1. RowFiles(s, row) = IF IsDir(row.entry) \/ m.list_dir THEN DirList(s, place) ELSE {row.entry}
 BY Zenon DEF RowFiles
<1>2. DirList(s, place) \subseteq Range(s.files) BY DEF DirList
<1> HIDE DEF m, place
<1> QED BY <1>1, <1>2

LEMMA RowFilesAlike ==
    ASSUME NEW s, NEW t, t.files = s.files, t.names = s.names, Location(t) = Location(s)
    PROVE  /\ \A row : RowFiles(t, row) = RowFiles(s, row)
           /\ \A rows : RowsFiles(t, rows) = RowsFiles(s, rows)
           /\ \A folder : DirList(t, folder) = DirList(s, folder)
<1>1. \A folder : DirList(t, folder) = DirList(s, folder) BY Zenon DEF DirList
<1>2. ASSUME NEW entry PROVE ListName(t, entry) = ListName(s, entry)
 <2> DEFINE here == {m \in s.names : m.entry = entry}
            there == {m \in t.names : m.entry = entry}
            of(named) == IF named = {} THEN [entry |-> entry, name |-> None, list_dir |-> FALSE]
                         ELSE CHOOSE m \in named : TRUE
 <2>1. there = here OBVIOUS
 <2>2. ListName(s, entry) = of(here) /\ ListName(t, entry) = of(there) BY Zenon DEF ListName
 <2> HIDE DEF here, there, of
 <2> QED BY <2>1, <2>2
<1>3. ASSUME NEW row PROVE RowFiles(t, row) = RowFiles(s, row)
 <2> DEFINE m == ListName(s, row.entry)
            name == IF m.name = None THEN <<>> ELSE <<m.name>>
            place == Location(s) \o name
 <2>1. RowFiles(s, row) = IF IsDir(row.entry) \/ m.list_dir THEN DirList(s, place) ELSE {row.entry}
  BY Zenon DEF RowFiles
 <2>2. RowFiles(t, row) = IF IsDir(row.entry) \/ m.list_dir THEN DirList(t, place) ELSE {row.entry}
  <3>1. ListName(t, row.entry) = m BY <1>2
  <3> HIDE DEF m
  <3> QED BY <3>1, Zenon DEF RowFiles
 <2> HIDE DEF m, place
 <2> QED BY <1>1, <2>1, <2>2
<1>4. ASSUME NEW rows PROVE RowsFiles(t, rows) = RowsFiles(s, rows)
 <2> QED BY <1>3 DEF RowsFiles
<1> QED BY <1>1, <1>3, <1>4

----
\* The list that a drag was answered with.
RightList(drag, list) ==
    /\ list = None \/ (drag.from = "tree" /\ drag.remade) \/ Range(list) = {Name(m) : m \in drag.meant}
    /\ list = None => drag.meant = {} \/ (drag.from = "list" /\ drag.remade)

\* A drag that goes on, begun in a busy window or in one where nothing ran.
OfDrag(drag) ==
    /\ DOMAIN drag = {"number", "from", "asked", "remade", "busy", "folder", "meant"}
    /\ drag.from \in {"list", "tree"} /\ drag.number \in 1..w.acts
    /\ ~drag.asked => e.drag_list = None /\ ~e.drag_error
    /\ e.drag_error => e.drag_list = None
    /\ drag.busy => ~drag.asked /\ e.destination < drag.number
    /\ ~drag.busy =>
          /\ ~Runs(e) /\ ~w.loading /\ w.archive_present
          /\ ~drag.asked => e.destination = 0
          /\ drag.asked /\ ~e.drag_error => e.destination = drag.number /\ RightList(drag, e.drag_list)
          /\ (drag.from = "list" /\ ~drag.asked /\ w.refs # {} /\ Idle)
               => drag.meant = RowsFiles(w, w.refs)
          /\ drag.from = "tree"
               => drag.meant = IF drag.folder = None THEN {} ELSE DirList(w, drag.folder)

DragInv ==
    /\ e.destination \in 0..w.acts
    /\ e.drag = NoDrag /\ ~e.crashed => e.drag_list = None /\ ~e.drag_error
    /\ e.drag # NoDrag => OfDrag(e.drag)
    /\ DragsOutWhatWasDragged

\* What is dragged is left as it is, but for a drag of rows that are there no longer.
Aside(c, d) ==
    \A f \in {"drag", "destination", "drag_list", "drag_error", "dragged", "dropped", "crashed"} :
        d[f] = c[f]

Undragged(c, d) ==
    /\ d.drag = c.drag /\ d.destination = c.destination /\ d.drag_list = c.drag_list
    /\ d.drag_error = c.drag_error /\ (~d.crashed => ~c.crashed)
    /\ d.op.kind = "drag" => d.op = c.op /\ d.dragged = c.dragged /\ d.dropped = c.dropped

LEMMA DragLeft ==
    ASSUME IInv, DragInv, Undragged(e, e'), Later(w, w'),
           e.drag # NoDrag /\ ~e.drag.busy =>
              /\ ~Runs(e') /\ ~w'.loading /\ w'.archive_present /\ w'.files = w.files
              /\ w'.refs = {} \/ w'.activity_ref > 0
    PROVE  DragInv'
<1>1. e'.destination \in 0..w'.acts BY DEF DragInv, Undragged, Later
<1>2. e'.drag = NoDrag /\ ~e'.crashed => e'.drag_list = None /\ ~e'.drag_error
 BY DEF DragInv, Undragged
<1>3. DragsOutWhatWasDragged'
 <2> SUFFICES ASSUME Runs(e'), e'.op.kind = "drag" PROVE DragsOutWhatWasDragged'
  BY DEF DragsOutWhatWasDragged
 <2>1. e'.op = e.op /\ e'.dragged = e.dragged /\ e'.dropped = e.dropped BY DEF Undragged
 <2>2. Runs(e) BY <2>1 DEF Runs
 <2> QED BY <2>1, <2>2 DEF DragInv, DragsOutWhatWasDragged
<1>4. ASSUME e'.drag # NoDrag PROVE OfDrag(e.drag)'
 <2> DEFINE drag == e.drag
 <2>1. OfDrag(drag) /\ drag # NoDrag /\ e'.drag = drag BY <1>4 DEF DragInv, Undragged
 <2>2. /\ e'.destination = e.destination /\ e'.drag_list = e.drag_list
       /\ e'.drag_error = e.drag_error
  BY DEF Undragged
 <2>3. drag.number \in 1..w'.acts BY <2>1 DEF OfDrag, Later
 <2>4. ASSUME ~drag.busy
       PROVE  /\ ~Runs(e') /\ ~w'.loading /\ w'.archive_present
              /\ w'.refs = {} \/ w'.activity_ref > 0
              /\ DirList(w', drag.folder) = DirList(w, drag.folder)
  BY <2>1, <2>4 DEF DirList
 <2>5. drag.from \in {"list", "tree"} BY <2>1 DEF OfDrag
 <2> HIDE DEF drag
 <2> QED BY <2>1, <2>2, <2>3, <2>4, <2>5 DEF OfDrag, Idle
<1> QED BY <1>1, <1>2, <1>3, <1>4 DEF DragInv

LEMMA BegunDrag ==
    ASSUME IInv, DragInv, e.drag = NoDrag, NEW c, DOMAIN c = EditFields, Aside(e, c),
           NEW kind, kind # "drag", NEW steps, NEW apart, NEW excuses,
           Begin(c, kind, steps, apart, excuses)
    PROVE  DragInv'
<1> DEFINE op == [kind |-> kind, steps |-> steps, apart |-> apart]
<1>1. op.kind = kind OBVIOUS
<1>2. PICK x, y : e' = [c EXCEPT !.edits = x, !.op = op, !.excuses = y] BY DEF Begin
<1> HIDE DEF op
<1>3. Undragged(e, e')
 <2>1. e'.op = op /\ \A f \in EditFields \ {"edits", "op", "excuses"} : e'[f] = c[f]
  BY <1>2 DEF EditFields
 <2> QED BY <1>1, <2>1 DEF Undragged, Aside, EditFields
<1> DEFINE s == IF kind \in Reading THEN w ELSE Act(w)
<1>4. Good(s) /\ Later(w, s) BY CountIs, ActIs, LaterSame
<1>5. w' = StartActivity(s) BY DEF Begin
<1> HIDE DEF s
<1>6. w'.acts = s.acts BY <1>4, <1>5, StartActivityIs DEF Apart, Fields
<1>7. Later(w, w') BY <1>4, <1>6 DEF Later
<1> QED BY <1>3, <1>7, DragLeft

LEMMA ClipboardAside ==
    ASSUME NEW c, Edit(c), NEW names
    PROVE  Aside(c, ClipboardRemove(c, names))
<1>1. CASE c.copy_data = None BY <1>1 DEF ClipboardRemove, Aside
<1>2. CASE c.copy_data # None
 <2>1. PICK data : ClipboardRemove(c, names) = [c EXCEPT !.copy_data = data]
  BY <1>2 DEF ClipboardRemove
 <2> QED BY <2>1 DEF Edit, Aside, EditFields
<1> QED BY <1>1, <1>2

LEMMA DeleteDrags ==
    ASSUME IInv, DragInv, Delete PROVE DragInv'
<1>1. e.drag = NoDrag /\ Edit(e) BY MayEditIs DEF Delete
<1>2. PICK names, asked, excuses :
        Begin([ClipboardRemove(e, names) EXCEPT !.asked = asked],
                "delete", << Do("remove", OrNull(names)) >>, 0, excuses)
 BY DEF Delete
<1> DEFINE r == ClipboardRemove(e, names)
           c == [r EXCEPT !.asked = asked]
<1>3. DOMAIN r = EditFields /\ Aside(e, r) BY <1>1, ClipboardRemoveIs, ClipboardAside DEF Edit
<1>4. Begin(c, "delete", << Do("remove", OrNull(names)) >>, 0, excuses) BY <1>2
<1> HIDE DEF r
<1>5. DOMAIN c = EditFields /\ Aside(e, c) BY <1>3 DEF Aside, EditFields
<1> HIDE DEF c
<1> QED BY <1>1, <1>4, <1>5, BegunDrag

LEMMA RenameDrags ==
    ASSUME IInv, DragInv, RenameRow \/ RenameFolder PROVE DragInv'
<1>1. e.drag = NoDrag /\ Edit(e) BY MayEditIs DEF RenameRow, RenameFolder
<1>2. PICK names, steps, excuses : Begin(ClipboardRemove(e, names), "rename", steps, 0, excuses)
 <2>1. PICK path, trailing, entries, folder, is_dir, excuses :
          RenameTo(path, trailing, entries, folder, is_dir, excuses)
  <3>1. CASE RenameRow BY <3>1, Zenon DEF RenameRow
  <3>2. CASE RenameFolder BY <3>2, Zenon DEF RenameFolder
  <3> QED BY <3>1, <3>2
 <2> QED BY <2>1 DEF RenameTo
<1> DEFINE c == ClipboardRemove(e, names)
<1>3. DOMAIN c = EditFields /\ Aside(e, c) BY <1>1, ClipboardRemoveIs, ClipboardAside DEF Edit
<1> HIDE DEF c
<1> QED BY <1>1, <1>2, <1>3, BegunDrag DEF c

\* The edits that leave the window, or only its sensitivity.
LEMMA CopyOrCutDrags ==
    ASSUME IInv, DragInv, CopyOrCut PROVE DragInv'
<1>1. e.drag = NoDrag /\ Edit(e) /\ Good(w) BY MayEditIs DEF CopyOrCut
<1>2. PICK data : e' = [e EXCEPT !.clipboard = TRUE, !.copy_data = data] BY Zenon DEF CopyOrCut
<1>3. Undragged(e, e') BY <1>1, <1>2 DEF Undragged, Edit, EditFields
<1>4. Later(w, w') BY <1>1, SensitivityMoves DEF CopyOrCut, Moved
<1> QED BY <1>1, <1>3, <1>4, DragLeft

LEMMA CrashDrags ==
    ASSUME IInv, DragInv, e' = [e EXCEPT !.crashed = TRUE], w' = w, e.drag = NoDrag
    PROVE  DragInv'
<1> QED BY CountIs, LaterSame, DragLeft DEF Undragged, IInv, Edit, EditFields

LEMMA PasteDrags ==
    ASSUME IInv, DragInv, Paste PROVE DragInv'
<1>1. e.drag = NoDrag /\ Edit(e) BY MayEditIs DEF Paste
<1>2. CASE e' = [e EXCEPT !.crashed = TRUE] /\ UNCHANGED <<disk, w>> BY <1>1, <1>2, CrashDrags
<1>3. CASE \E steps, apart, excuses, pasted :
             Begin([e EXCEPT !.copy_data.pasted = pasted], "paste", steps, apart, excuses)
 <2>1. PICK steps, apart, excuses, pasted :
            Begin([e EXCEPT !.copy_data.pasted = pasted], "paste", steps, apart, excuses)
  BY <1>3
 <2> DEFINE c == [e EXCEPT !.copy_data.pasted = pasted]
 <2>2. DOMAIN c = EditFields /\ Aside(e, c) BY <1>1 DEF Edit, Aside, EditFields
 <2> HIDE DEF c
 <2> QED BY <1>1, <2>1, <2>2, BegunDrag DEF c
<1> QED BY <1>2, <1>3, Zenon DEF Paste

LEMMA OpenFilesDrags ==
    ASSUME IInv, DragInv, OpenFiles PROVE DragInv'
<1>1. e.drag = NoDrag /\ Edit(e) BY MayEditIs DEF OpenFiles
<1>2. \E steps : Begin(e, "open", steps, 0, {}) BY Zenon DEF OpenFiles
<1>3. DOMAIN e = EditFields /\ Aside(e, e) BY <1>1 DEF Edit, Aside
<1> QED BY <1>1, <1>2, <1>3, BegunDrag

LEMMA ModifiedDrags ==
    ASSUME IInv, DragInv, Modified \/ CancelUpdate PROVE DragInv'
<1>1. e.drag = NoDrag /\ Edit(e) /\ w' = w BY DEF Modified, CancelUpdate, Going, IInv
<1>2. Later(w, w') BY <1>1, CountIs, LaterSame
<1>3. CASE CancelUpdate
 <2>1. Undragged(e, e') BY <1>1, <1>3 DEF Undragged, Edit, EditFields, CancelUpdate
 <2> QED BY <1>1, <1>2, <2>1, DragLeft
<1>4. CASE Modified
 <2>1. PICK temps, dialog : e' = [e EXCEPT !.temps = temps, !.dialog = dialog] BY <1>4 DEF Modified
 <2>2. Undragged(e, e') BY <1>1, <2>1 DEF Undragged, Edit, EditFields
 <2> QED BY <1>1, <1>2, <2>2, DragLeft
<1> QED BY <1>3, <1>4

LEMMA UpdateDrags ==
    ASSUME IInv, DragInv, Update PROVE DragInv'
<1>1. e.drag = NoDrag /\ Edit(e) BY MayEditIs DEF Update
<1>2. CASE e' = [e EXCEPT !.crashed = TRUE] /\ UNCHANGED <<disk, w>> BY <1>1, <1>2, CrashDrags
<1>3. CASE \E files, steps, excuses :
             Begin([e EXCEPT !.dialog = {}, !.updating = files], "update", steps, 0, excuses)
 <2>1. PICK files, steps, excuses :
            Begin([e EXCEPT !.dialog = {}, !.updating = files], "update", steps, 0, excuses)
  BY <1>3
 <2> DEFINE c == [e EXCEPT !.dialog = {}, !.updating = files]
 <2>2. DOMAIN c = EditFields /\ Aside(e, c) BY <1>1 DEF Edit, Aside, EditFields
 <2> HIDE DEF c
 <2> QED BY <1>1, <2>1, <2>2, BegunDrag DEF c
<1> QED BY <1>2, <1>3, Zenon DEF Update

\* What ends, and the window then, in which no drag was begun that is not for all there is.
LEMMA EndedDrags ==
    ASSUME IInv, DragInv, Finish \/ FilesOpened \/ DraggedOut PROVE DragInv'
<1>1. Runs(e) /\ Edit(e) /\ Good(w) /\ w.activity_ref > 0
 <2>1. Runs(e) BY Zenon DEF Finish, FilesOpened, DraggedOut
 <2> QED BY <2>1, CountIs DEF IInv
<1>2. e.drag = NoDrag \/ e.drag.busy BY <1>1 DEF DragInv, OfDrag
<1> DEFINE s == StopActivity(w)
<1>3. Good(s) /\ s.acts = w.acts BY <1>1, StopActivityIs DEF Apart, Fields
<1>4. w' \in {s, StartLoad(s)} BY Zenon DEF Finish, FilesOpened, DraggedOut
<1> HIDE DEF s
<1>5. w'.acts = w.acts BY <1>3, <1>4, StartLoadIs DEF Apart, Fields
<1>6. Later(w, w') BY <1>1, <1>5, LaterSame
<1>7. NoOp.kind # "drag" BY DEF NoOp
<1>8. Undragged(e, e')
 <2>1. CASE Finish
  <3>1. PICK unsaved, excuses : e' = [e EXCEPT !.op = NoOp, !.updating = {},
                             !.unsaved = unsaved, !.excuses = excuses]
   BY <2>1, Zenon DEF Finish
  <3> QED BY <1>1, <1>7, <3>1 DEF Undragged, Edit, EditFields
 <2>2. CASE FilesOpened
  <3>1. PICK files, temps : \/ e' = [e EXCEPT !.op = NoOp, !.open_files = files, !.temps = temps]
                            \/ e' = [e EXCEPT !.op = NoOp]
   BY <2>2 DEF FilesOpened
  <3> QED BY <1>1, <1>7, <3>1 DEF Undragged, Edit, EditFields
 <2>3. CASE DraggedOut
  <3>1. e' = [e EXCEPT !.op = NoOp, !.dragged = None, !.dropped = 0] BY <2>3 DEF DraggedOut
  <3> QED BY <1>1, <1>7, <3>1 DEF Undragged, Edit, EditFields
 <2> QED BY <2>1, <2>2, <2>3
<1> QED BY <1>2, <1>6, <1>8, DragLeft

LEMMA BrowseDrags ==
    ASSUME IInv, DragInv, BrowseStep PROVE DragInv'
<1>1. Good(w) /\ Edit(e) /\ (w.loading => ~Runs(e)) BY CountIs DEF IInv
<1>2. e' = e \/ (e' = Closed(e) /\ w.archive_present /\ ~w'.archive_present) BY DEF BrowseStep
<1>3. Undragged(e, e') BY <1>1, <1>2 DEF Closed, Undragged, Edit, EditFields
<1>4. Runs(e') = Runs(e) BY <1>1, <1>2 DEF Closed, Runs, Edit, EditFields
<1>5. \/ e.drag = NoDrag /\ Browse
      \/ ReadMember \/ EndLoad \/ ThemeChanged \/ IconsChanged
 BY DEF BrowseStep, Going
<1>6. CASE ReadMember \/ EndLoad
 <2>1. w.loading BY <1>6, Zenon DEF ReadMember, EndLoad
 <2>2. e.drag = NoDrag \/ e.drag.busy BY <2>1 DEF DragInv, OfDrag
 <2>3. w'.acts = w.acts
  <3>1. CASE ReadMember
   <4>1. PICK files : w' = [w EXCEPT !.files = files] BY <3>1 DEF ReadMember
   <4>2. DOMAIN w = Fields BY <1>1, Zenon DEF Good, Window
   <4> QED BY <4>1, <4>2 DEF Fields
  <3>2. CASE EndLoad
   <4>1. w.activity_ref > 0 BY <2>1, CountIs
   <4>2. w' \in {ListingDone(w), ListingFailed(w)} BY <3>2, Zenon DEF EndLoad
   <4> QED BY <1>1, <4>1, <4>2, ListingDoneIs, ListingFailedIs DEF Apart, Fields, ViewFields
  <3> QED BY <1>6, <3>1, <3>2
 <2>4. Later(w, w') BY <1>1, <2>3, LaterSame
 <2> QED BY <1>3, <2>2, <2>4, DragLeft
<1>7. CASE ThemeChanged
 <2>1. Moved(w, w') BY <1>1, <1>7, ThemeChangedMoves
 <2>2. ASSUME w.archive_present PROVE w'.refs = {}
  <3> DEFINE a == UpdateFileList(w, TRUE)
  <3>1. Good(a) /\ a.refs = {} BY <1>1, <2>2, UpdateFileListShows
  <3>2. w' = UpdateDirTree(a) BY <1>7 DEF ThemeChanged
  <3> HIDE DEF a
  <3>3. Held(a, w') BY <3>1, <3>2, UpdateDirTreeIs DEF Browsed
  <3> QED BY <3>1, <3>3 DEF Held
 <2>3. /\ Later(w, w') /\ w'.files = w.files /\ w'.loading = w.loading
       /\ w'.archive_present = w.archive_present
  BY <2>1 DEF Moved, KeptFields
 <2>4. e.drag # NoDrag /\ ~e.drag.busy => ~Runs(e) /\ ~w.loading /\ w.archive_present
  BY DEF DragInv, OfDrag
 <2> QED BY <1>3, <1>4, <2>2, <2>3, <2>4, DragLeft
<1>8. CASE IconsChanged
 <2>1. e.drag # NoDrag /\ ~e.drag.busy => ~Runs(e) /\ ~w.loading /\ w.archive_present
  BY DEF DragInv, OfDrag
 <2>2. /\ Later(w, w') /\ w'.files = w.files /\ w'.loading = w.loading
       /\ w'.archive_present = w.archive_present
       /\ w.archive_present => w'.activity_ref = w.activity_ref + 1
  BY <1>1, <1>8, IconsChangedIs
 <2>3. w.activity_ref \in Nat BY CountIs
 <2> QED BY <1>3, <1>4, <2>1, <2>2, <2>3, DragLeft
<1>9. CASE e.drag = NoDrag /\ (Open \/ Reload)
 <2> DEFINE a == Act(w)
 <2>1. Good(a) /\ Later(w, a) BY <1>1, ActIs
 <2>2. w' = StartLoad(a) BY <1>9, Zenon DEF Open, Reload
 <2> HIDE DEF a
 <2>3. w'.acts = a.acts BY <2>1, <2>2, StartLoadIs DEF Apart, Fields
 <2>4. Later(w, w') BY <2>1, <2>3 DEF Later
 <2> QED BY <1>3, <1>9, <2>4, DragLeft
<1>10. CASE e.drag = NoDrag /\ Moved(w, w')
 <2>1. Later(w, w') BY <1>10 DEF Moved
 <2> QED BY <1>3, <1>10, <2>1, DragLeft
<1> QED BY <1>1, <1>5, <1>6, <1>7, <1>8, <1>9, <1>10, BrowseMoves

\* A drag begun, in a window that is s then but for what it keeps for the drag.
LEMMA BegunDrags ==
    ASSUME IInv, DragInv, e.drag = NoDrag, ~e.crashed, NEW s, s.acts = w.acts + 1, s.activity_ref \in Nat,
           NEW from \in {"list", "tree"}, e' = DragBegun(s, from), w'.acts = s.acts,
           s.activity_ref = 0 => ~Runs(e) /\ ~w'.loading /\ w'.archive_present,
           from = "list" => RowsFiles(s, s.selected) = RowsFiles(w', w'.refs),
           from = "tree" => FolderFiles(s) = IF s.tree_selection = None THEN {}
                                             ELSE DirList(w', s.tree_selection)
    PROVE  DragInv'
<1> DEFINE x == IF s.activity_ref > 0 THEN e.destination ELSE 0
           meant == IF from = "tree" THEN FolderFiles(s) ELSE RowsFiles(s, s.selected)
           busy == s.activity_ref > 0
           y == [number |-> s.acts, from |-> from, asked |-> FALSE, remade |-> FALSE,
                 busy |-> busy, folder |-> s.tree_selection, meant |-> meant]
<1>1. e' = [e EXCEPT !.destination = x, !.drag = y] BY DEF DragBegun
<1>2. busy \in BOOLEAN /\ (busy <=> s.activity_ref > 0) /\ x = IF busy THEN e.destination ELSE 0
 OBVIOUS
<1>3. meant = IF from = "tree" THEN FolderFiles(s) ELSE RowsFiles(s, s.selected) OBVIOUS
<1> HIDE DEF meant, busy, x
<1>4. /\ DOMAIN y = {"number", "from", "asked", "remade", "busy", "folder", "meant"}
      /\ y.number = s.acts /\ y.from = from /\ y.folder = s.tree_selection /\ y.meant = meant
      /\ y.busy = busy /\ y.asked = FALSE
 OBVIOUS
<1> HIDE DEF y
<1>5. /\ e'.destination = x /\ e'.drag = y /\ e'.drag_list = e.drag_list
      /\ e'.drag_error = e.drag_error /\ e'.crashed = e.crashed
      /\ e'.op = e.op /\ e'.dragged = e.dragged /\ e'.dropped = e.dropped
 BY <1>1 DEF IInv, Edit, EditFields
<1>6. w.acts \in Nat /\ e.destination \in 0..w.acts BY DEF IInv, Window, DragInv
<1>7. e.drag_list = None /\ ~e.drag_error BY DEF DragInv
<1>8. x \in 0..w.acts /\ (busy => x = e.destination) /\ (~busy => x = 0) BY <1>2, <1>6
<1>9. ~busy => s.activity_ref = 0 BY <1>2
<1>10. Runs(e') = Runs(e) BY <1>5 DEF Runs
<1>11. DragsOutWhatWasDragged' BY <1>5, <1>10 DEF DragInv, DragsOutWhatWasDragged
<1>12. OfDrag(y)'
 <2>1. y.number \in 1..w'.acts /\ x < y.number BY <1>4, <1>6, <1>8
 <2>2. ASSUME ~busy
       PROVE  /\ ~Runs(e') /\ ~w'.loading /\ w'.archive_present /\ x = 0
              /\ from = "list" => meant = RowsFiles(w', w'.refs)
              /\ from = "tree" => meant = IF s.tree_selection = None THEN {}
                                          ELSE DirList(w', s.tree_selection)
  BY <1>3, <1>8, <1>9, <1>10, <2>2
 <2> QED BY <1>4, <1>5, <1>7, <2>1, <2>2 DEF OfDrag
<1>13. e'.destination \in 0..w'.acts BY <1>5, <1>6, <1>8
<1> QED BY <1>5, <1>7, <1>11, <1>12, <1>13 DEF DragInv

LEMMA ADrag ==
    ASSUME NEW drag, DOMAIN drag = {"number", "from", "asked", "remade", "busy", "folder", "meant"}
    PROVE  drag # NoDrag
<1> QED BY DEF NoDrag

LEMMA DragRowsDrags ==
    ASSUME IInv, DragInv, DragRows PROVE DragInv'
<1>1. /\ Good(w) /\ w.rows_live /\ w.archive_present /\ e.drag = NoDrag /\ ~e.crashed
 BY CountIs DEF DragRows, Going
<1>2. PICK row \in w.rows : LET s == Pressed(Act(w), row)
                            IN w' = [s EXCEPT !.refs = s.selected] /\ e' = DragBegun(s, "list")
 BY DEF DragRows
<1> DEFINE a == Act(w)
           s == Pressed(a, row)
           t == [s EXCEPT !.refs = s.selected]
<1>3. w' = t /\ e' = DragBegun(s, "list") BY <1>2
<1>4. Good(a) /\ Apart({"acts"}, w, a) /\ w.acts \in Nat BY <1>1, ActIs DEF Good, Window
<1>5. a.acts = w.acts + 1 BY <1>1, <1>4, Zenon DEF Good, Window, Act, Fields
<1> HIDE DEF a
<1>6. a.rows_live /\ row \in a.rows BY <1>1, <1>4 DEF Apart, Fields
<1>7. Good(s) /\ Apart({"freed_read", "selected", "selected_then"}, a, s)
 BY <1>4, <1>6, PressedIs DEF Moved
<1> HIDE DEF s
<1>8. DOMAIN s = Fields /\ s.activity_ref \in Nat BY <1>7 DEF Good, Window
<1>9. Apart({"refs"}, s, t) /\ t.refs = s.selected BY <1>8 DEF Apart, Fields
<1> HIDE DEF t
<1>10. /\ t.acts = s.acts /\ s.acts = a.acts /\ t.loading = s.loading /\ s.loading = a.loading
       /\ a.loading = w.loading /\ t.archive_present = s.archive_present
       /\ s.archive_present = a.archive_present /\ a.archive_present = w.archive_present
       /\ s.activity_ref = a.activity_ref /\ a.activity_ref = w.activity_ref
       /\ t.files = s.files /\ t.names = s.names
 BY <1>4, <1>7, <1>9 DEF Apart, Fields
<1>11. Location(t) = Location(s) BY <1>9 DEF Location, Apart, Fields
<1>12. RowsFiles(t, s.selected) = RowsFiles(s, s.selected) BY <1>10, <1>11, RowFilesAlike
<1>13. s.activity_ref = 0 => ~Runs(e) /\ ~w'.loading /\ w'.archive_present
 BY <1>1, <1>3, <1>10, CountIs DEF Idle
<1>14. s.acts = w.acts + 1 /\ w'.acts = s.acts BY <1>3, <1>5, <1>10
<1> QED BY <1>1, <1>3, <1>8, <1>9, <1>12, <1>13, <1>14, BegunDrags

LEMMA DragFolderDrags ==
    ASSUME IInv, DragInv, DragFolder PROVE DragInv'
<1>1. /\ Good(w) /\ w.archive_present /\ e.drag = NoDrag /\ ~e.crashed /\ w' = Act(w)
      /\ e' = DragBegun(w', "tree")
 BY CountIs DEF DragFolder, Going
<1> DEFINE a == Act(w)
<1>2. Good(a) /\ Apart({"acts"}, w, a) BY <1>1, ActIs
<1>3. a.acts = w.acts + 1 BY <1>1, Zenon DEF Good, Window, Act, Fields
<1>4. w' = a /\ e' = DragBegun(a, "tree") BY <1>1
<1> HIDE DEF a
<1>5. a.activity_ref \in Nat BY <1>2 DEF Good, Window
<1>6. a.loading = w.loading /\ a.archive_present = w.archive_present /\ a.activity_ref = w.activity_ref
 BY <1>2 DEF Apart, Fields
<1>7. a.activity_ref = 0 => ~Runs(e) /\ ~w'.loading /\ w'.archive_present
 BY <1>1, <1>4, <1>6, CountIs DEF Idle
<1>8. FolderFiles(a) = IF a.tree_selection = None THEN {} ELSE DirList(w', a.tree_selection)
 BY <1>4 DEF FolderFiles
<1> QED BY <1>1, <1>3, <1>4, <1>5, <1>7, <1>8, BegunDrags

\* A drop answered: an error, or a list that is right for what the drag was begun for.
LEMMA AnsweredDrags ==
    ASSUME IInv, DragInv, e.drag # NoDrag, ~e.drag.asked, ~e.drag.busy,
           w'.acts = w.acts, w'.loading = w.loading, w'.archive_present = w.archive_present,
           w'.files = w.files, NEW list \in SUBSET Range(w.files), Answered(list),
           e.drag.from = "list" => list = IF w.refs = {} THEN {} ELSE e.drag.meant,
           e.drag.from = "tree" => list # {} /\ (w.tree_selection = e.drag.folder => list = e.drag.meant)
    PROVE  DragInv'
<1> DEFINE d == e.drag
           remade == IF e.drag.from = "tree" THEN w.tree_selection # e.drag.folder ELSE w.refs = {}
           names == OrNull(NamesOf(Listed(w, list)))
           x == [d EXCEPT !.asked = TRUE]
           y == [d EXCEPT !.asked = TRUE, !.remade = remade]
<1>1. OfDrag(d) BY DEF DragInv
<1>2. DOMAIN e = EditFields /\ w.acts \in Nat BY DEF IInv, Edit, Window
<1>3. \/ e' = [e EXCEPT !.drag = x, !.drag_error = TRUE]
      \/ e' = [e EXCEPT !.drag = y, !.destination = d.number, !.drag_list = names]
 <2>1. \/ e' = [e EXCEPT !.drag.asked = TRUE, !.drag_error = TRUE]
       \/ e' = [e EXCEPT !.drag.asked = TRUE, !.drag.remade = remade,
                         !.destination = d.number, !.drag_list = names]
  BY Zenon DEF Answered
 <2> HIDE DEF remade, names
 <2> QED BY <1>2, <2>1 DEF EditFields
<1>4. names = None <=> list = {} BY ListedNames DEF IInv
<1>5. list # {} => Range(names) = {Name(m) : m \in list}
 <2> QED BY ListedNames DEF IInv, OrNull
<1>6. remade \in BOOLEAN OBVIOUS
<1>7. d.from = "list" => (remade <=> w.refs = {}) OBVIOUS
<1>8. d.from = "tree" => (~remade => list = d.meant) /\ list # {} OBVIOUS
<1> HIDE DEF remade, names
<1>9. /\ DOMAIN d = {"number", "from", "asked", "remade", "busy", "folder", "meant"}
      /\ d.from \in {"list", "tree"} /\ d.number \in 1..w.acts /\ ~d.busy /\ ~d.asked
      /\ ~Runs(e) /\ ~w.loading /\ w.archive_present
      /\ e.drag_list = None /\ ~e.drag_error /\ e.destination = 0
      /\ d.from = "tree" => d.meant = IF d.folder = None THEN {} ELSE DirList(w, d.folder)
 BY <1>1 DEF OfDrag
<1>10. \A folder : DirList(w', folder) = DirList(w, folder) BY DEF DirList
<1>11. /\ d.from = "tree" => d.meant = IF d.folder = None THEN {} ELSE DirList(w', d.folder)
 BY <1>9, <1>10
<1>12. CASE e' = [e EXCEPT !.drag = x, !.drag_error = TRUE]
 <2>0. PICK z : z = x OBVIOUS
 <2>1. /\ DOMAIN z = DOMAIN d /\ z.asked = TRUE /\ z.number = d.number /\ z.from = d.from
       /\ z.busy = d.busy /\ z.meant = d.meant /\ z.folder = d.folder
  BY <1>9, <2>0
 <2> HIDE DEF x, d
 <2>2. /\ e'.drag = z /\ e'.drag_error = TRUE /\ e'.destination = e.destination
       /\ e'.drag_list = e.drag_list /\ e'.op = e.op /\ e'.dragged = e.dragged
       /\ e'.dropped = e.dropped
  BY <1>2, <1>12, <2>0 DEF EditFields
 <2>3. Runs(e') = Runs(e) BY <2>2 DEF Runs
 <2>4. OfDrag(z)'
  <3>1. z.number \in 1..w'.acts /\ z.from \in {"list", "tree"} /\ z.asked /\ (~z.busy)
   BY <1>9, <2>1
  <3>2. e'.drag_list = None /\ e'.drag_error /\ ~Runs(e') /\ ~w'.loading /\ w'.archive_present
   BY <1>9, <2>2, <2>3
  <3>3. DOMAIN z = {"number", "from", "asked", "remade", "busy", "folder", "meant"} BY <1>9, <2>1
  <3>4. z.from = "tree" => z.meant = IF z.folder = None THEN {} ELSE DirList(w', z.folder)
   BY <1>11, <2>1
  <3> QED BY <3>1, <3>2, <3>3, <3>4, Zenon DEF OfDrag
 <2>5. DragsOutWhatWasDragged' BY <2>2, <2>3 DEF DragInv, DragsOutWhatWasDragged
 <2>6. e'.drag # NoDrag BY <2>1, <2>2, <1>9, ADrag
 <2>7. e'.destination \in 0..w'.acts BY <1>2, <1>9, <2>2
 <2>8. OfDrag(e.drag)' BY <2>2, <2>4, Zenon
 <2> QED BY <2>5, <2>6, <2>7, <2>8, Zenon DEF DragInv
<1>13. CASE e' = [e EXCEPT !.drag = y, !.destination = d.number, !.drag_list = names]
 <2>0. PICK z : z = y OBVIOUS
 <2>1. /\ DOMAIN z = DOMAIN d /\ z.asked = TRUE /\ z.number = d.number /\ z.from = d.from
       /\ z.busy = d.busy /\ z.meant = d.meant /\ z.folder = d.folder /\ z.remade = remade
  BY <1>9, <2>0
 <2> HIDE DEF y, d
 <2>2. /\ e'.drag = z /\ e'.drag_error = e.drag_error /\ e'.destination = d.number
       /\ e'.drag_list = names /\ e'.op = e.op /\ e'.dragged = e.dragged
       /\ e'.dropped = e.dropped
  BY <1>2, <1>13, <2>0 DEF EditFields
 <2>3. Runs(e') = Runs(e) BY <2>2 DEF Runs
 <2>4. RightList(z, names) BY <1>4, <1>5, <1>7, <1>8, <1>9, <2>1 DEF RightList, d
 <2>5. OfDrag(z)'
  <3>1. z.number \in 1..w'.acts /\ z.from \in {"list", "tree"} /\ z.asked /\ (~z.busy)
   BY <1>9, <2>1
  <3>2. (~e'.drag_error) /\ ~Runs(e') /\ ~w'.loading /\ w'.archive_present BY <1>9, <2>2, <2>3
  <3>3. DOMAIN z = {"number", "from", "asked", "remade", "busy", "folder", "meant"} BY <1>9, <2>1
  <3>4. z.from = "tree" => z.meant = IF z.folder = None THEN {} ELSE DirList(w', z.folder)
   BY <1>11, <2>1
  <3>5. e'.destination = z.number /\ RightList(z, e'.drag_list) BY <2>1, <2>2, <2>4
  <3> QED BY <3>1, <3>2, <3>3, <3>4, <3>5, Zenon DEF OfDrag
 <2>6. DragsOutWhatWasDragged' BY <2>2, <2>3 DEF DragInv, DragsOutWhatWasDragged
 <2>7. e'.drag # NoDrag BY <2>1, <2>2, <1>9, ADrag
 <2>8. e'.destination \in 0..w'.acts BY <1>2, <1>9, <2>2
 <2>9. OfDrag(e.drag)' BY <2>2, <2>5, Zenon
 <2> QED BY <2>6, <2>7, <2>8, <2>9, Zenon DEF DragInv
<1> QED BY <1>3, <1>12, <1>13

LEMMA ListDragDataGetDrags ==
    ASSUME IInv, DragInv, ListDragDataGet PROVE DragInv'
<1> DEFINE list == RowsFiles(w, w.refs)
<1>1. /\ e.drag # NoDrag /\ e.drag.from = "list" /\ ~e.drag.asked /\ ~e.drag.busy /\ Idle
      /\ Answered(list)
 BY DEF ListDragDataGet, MayAnswer
<1>2. OfDrag(e.drag) BY <1>1 DEF DragInv
<1>3. /\ ~Runs(e) /\ ~w.loading /\ w.archive_present
      /\ w.refs # {} => list = e.drag.meant
 BY <1>1, <1>2 DEF OfDrag
<1>4. ~Stuck BY <1>1, <1>3, CountIs DEF Idle
<1>5. w.rows_live BY <1>3, <1>4 DEF IInv, Follows, Sees
<1>6. \A row \in w.refs : RowFiles(w, row) \subseteq Range(w.files)
 <2> TAKE row \in w.refs
 <2> QED BY <1>5, RowFilesInside DEF IInv, Read
<1>7. list \in SUBSET Range(w.files) BY <1>6 DEF RowsFiles
<1>8. w.refs = {} => list = {} BY DEF RowsFiles
<1> HIDE DEF list
<1>9. /\ w'.acts = w.acts /\ w'.loading = w.loading /\ w'.archive_present = w.archive_present
      /\ w'.files = w.files
 <2>1. w' = [ReadRows(w, w.refs) EXCEPT !.refs = {}] BY DEF ListDragDataGet
 <2> DEFINE x == w.freed_read \/ (w.refs # {} /\ ~w.rows_live)
 <2>2. w' = [[w EXCEPT !.freed_read = x] EXCEPT !.refs = {}] BY <2>1 DEF ReadRows
 <2> HIDE DEF x
 <2>3. DOMAIN w = Fields BY Zenon DEF IInv, Window
 <2> QED BY <2>2, <2>3 DEF Fields
<1>10. e.drag.from = "list" => list = IF w.refs = {} THEN {} ELSE e.drag.meant BY <1>3, <1>8
<1>11. e.drag.from # "tree" BY <1>1
<1> QED BY <1>1, <1>7, <1>9, <1>10, <1>11, AnsweredDrags

LEMMA TreeDragDataGetDrags ==
    ASSUME IInv, DragInv, TreeDragDataGet PROVE DragInv'
<1> DEFINE list == FolderFiles(w)
<1>1. /\ e.drag # NoDrag /\ e.drag.from = "tree" /\ ~e.drag.asked /\ ~e.drag.busy
      /\ Answered(list) /\ list # {} /\ w' = w
 BY DEF TreeDragDataGet, MayAnswer
<1>2. OfDrag(e.drag) BY <1>1 DEF DragInv
<1>3. e.drag.meant = IF e.drag.folder = None THEN {} ELSE DirList(w, e.drag.folder)
 BY <1>1, <1>2 DEF OfDrag
<1>4. list = IF w.tree_selection = None THEN {} ELSE DirList(w, w.tree_selection) BY DEF FolderFiles
<1>5. list \in SUBSET Range(w.files) BY <1>4 DEF DirList
<1> HIDE DEF list
<1>6. w.tree_selection = e.drag.folder => list = e.drag.meant BY <1>3, <1>4
<1>7. e.drag.from # "list" BY <1>1
<1> QED BY <1>1, <1>5, <1>6, <1>7, AnsweredDrags

\* The window is left when it was not answered, or with an error, and the rows are forgotten.
LEMMA DragEndDrags ==
    ASSUME IInv, DragInv, DragEnd PROVE DragInv'
<1> DEFINE drag == e.drag
           dropped == [e EXCEPT !.drag = NoDrag, !.drag_error = FALSE]
           next == [dropped EXCEPT !.drag_list = None, !.dragged = e.drag, !.dropped = e.destination]
<1>1. /\ ~e.crashed /\ drag # NoDrag
      /\ \/ (e.drag_error \/ e.destination = 0) /\ e' = dropped /\ w' = [w EXCEPT !.refs = {}]
         \/ /\ ~e.drag_error /\ e.destination # 0
            /\ Runs(e) \/ w.loading \/ ~w.archive_present
            /\ e' = [dropped EXCEPT !.crashed = TRUE] /\ w' = w
         \/ /\ ~e.drag_error /\ e.destination # 0 /\ ~Runs(e) /\ ~w.loading /\ w.archive_present
            /\ Begin(next, "drag", << Do("extract", e.drag_list) >>, 0, {})
 BY DEF DragEnd
<1>2. OfDrag(drag) /\ DOMAIN e = EditFields /\ Good(w) /\ DOMAIN w = Fields /\ w.acts \in Nat
 BY <1>1, CountIs DEF DragInv, IInv, Edit, Good, Window
<1>3. /\ dropped.drag = NoDrag /\ dropped.drag_error = FALSE /\ DOMAIN dropped = EditFields
      /\ \A f \in EditFields \ {"drag", "drag_error"} : dropped[f] = e[f]
 BY <1>2 DEF EditFields
<1>4. /\ DOMAIN next = EditFields /\ next.drag_list = None /\ next.dragged = drag
      /\ next.dropped = e.destination
      /\ \A f \in EditFields \ {"drag_list", "dragged", "dropped"} : next[f] = dropped[f]
 BY <1>3 DEF EditFields
<1> HIDE DEF drag, dropped, next
<1>5. e.destination \in 0..w.acts BY DEF DragInv
<1>6. DragsOutWhatWasDragged BY DEF DragInv
<1>7. CASE (e.drag_error \/ e.destination = 0) /\ e' = dropped /\ w' = [w EXCEPT !.refs = {}]
 <2>1. e.drag_list = None
  <3>1. drag.number # 0 /\ (e.drag_error => e.drag_list = None) /\ (~drag.asked => e.drag_list = None)
        /\ (drag.busy => ~drag.asked)
        /\ (~drag.busy /\ drag.asked /\ ~e.drag_error => e.destination = drag.number)
   BY <1>2 DEF OfDrag
  <3> QED BY <1>7, <3>1
 <2>2. /\ e'.drag = NoDrag /\ e'.drag_error = FALSE /\ e'.drag_list = None
       /\ e'.destination = e.destination /\ e'.op = e.op /\ e'.dragged = e.dragged
       /\ e'.dropped = e.dropped
  BY <1>3, <1>7, <2>1 DEF EditFields
 <2>3. w'.acts = w.acts BY <1>2, <1>7 DEF Fields
 <2>4. DragsOutWhatWasDragged' BY <1>6, <2>2 DEF DragsOutWhatWasDragged, Runs
 <2> QED BY <1>5, <2>2, <2>3, <2>4 DEF DragInv
<1>8. CASE e' = [dropped EXCEPT !.crashed = TRUE] /\ w' = w
 <2>1. /\ e'.drag = NoDrag /\ e'.crashed = TRUE /\ e'.destination = e.destination
       /\ e'.op = e.op /\ e'.dragged = e.dragged /\ e'.dropped = e.dropped
  BY <1>3, <1>8 DEF EditFields
 <2>2. DragsOutWhatWasDragged' BY <1>6, <2>1 DEF DragsOutWhatWasDragged, Runs
 <2>3. e'.destination \in 0..w'.acts BY <1>5, <1>8, <2>1
 <2> QED BY <2>1, <2>2, <2>3 DEF DragInv
<1>9. CASE /\ ~e.drag_error /\ e.destination # 0 /\ ~Runs(e) /\ ~w.loading /\ w.archive_present
           /\ Begin(next, "drag", << Do("extract", e.drag_list) >>, 0, {})
 <2> DEFINE steps == << Do("extract", e.drag_list) >>
            op == [kind |-> "drag", steps |-> steps, apart |-> 0]
 <2>1. steps[1].of = e.drag_list BY DEF Do
 <2>2. PICK x, y : e' = [next EXCEPT !.edits = x, !.op = op, !.excuses = y] BY <1>9 DEF Begin
 <2>3. op.steps[1].of = e.drag_list BY <2>1
 <2> HIDE DEF steps, op
 <2>4. /\ e'.op = op /\ e'.drag = NoDrag /\ e'.drag_error = FALSE /\ e'.drag_list = None
       /\ e'.dragged = drag /\ e'.dropped = e.destination /\ e'.destination = e.destination
  BY <1>3, <1>4, <2>2 DEF EditFields
 <2>5. w' = StartActivity(w) BY <1>9 DEF Begin, Reading
 <2>6. w'.acts = w.acts BY <1>2, <2>5, StartActivityIs DEF Apart, Fields
 <2>7. /\ \/ e.drag_list = None \/ (drag.from = "tree" /\ drag.remade)
          \/ Range(e.drag_list) = { Name(m) : m \in drag.meant }
       /\ drag.busy => e.drag_list = None /\ e.destination < drag.number
       /\ ~drag.busy => e.destination = drag.number
       /\ ~drag.busy => (e.drag_list = None => drag.meant = {} \/ (drag.from = "list" /\ drag.remade))
  <3>1. CASE drag.busy
   <4>1. e.drag_list = None /\ e.destination < drag.number BY <1>2, <3>1 DEF OfDrag
   <4> QED BY <3>1, <4>1
  <3>2. CASE ~drag.busy
   <4>1. drag.asked BY <1>2, <1>9, <3>2 DEF OfDrag
   <4>2. e.destination = drag.number /\ RightList(drag, e.drag_list)
    BY <1>2, <1>9, <3>2, <4>1 DEF OfDrag
   <4> QED BY <3>2, <4>2 DEF RightList
  <3> QED BY <3>1, <3>2
 <2>8. DragsOutWhatWasDragged'
  <3>1. PICK list : list = e.drag_list /\ e'.op.steps[1].of = list BY <2>3, <2>4
  <3>2. PICK d : d = drag /\ e'.dragged = d BY <2>4
  <3>3. PICK n : n = e.destination /\ e'.dropped = n BY <2>4
  <3>4. /\ \/ list = None \/ (d.from = "tree" /\ d.remade)
           \/ Range(list) = { Name(m) : m \in d.meant }
        /\ IF d.busy THEN list = None /\ n < d.number
           ELSE /\ n = d.number
                /\ list = None => d.meant = {} \/ (d.from = "list" /\ d.remade)
   BY <2>7, <3>1, <3>2, <3>3
  <3> QED BY <3>1, <3>2, <3>3, <3>4 DEF DragsOutWhatWasDragged
 <2> QED BY <1>5, <2>4, <2>6, <2>8 DEF DragInv
<1> QED BY <1>1, <1>7, <1>8, <1>9

LEMMA InitDrags ==
    ASSUME Init PROVE DragInv
<1>1. /\ e.drag = NoDrag /\ e.destination = 0 /\ e.drag_list = None /\ e.drag_error = FALSE
      /\ e.op.kind = "none"
 BY DEF Init, EditInit, NoOp
<1>2. w.acts \in Nat BY InitInv, Zenon DEF IInv, Window
<1> QED BY <1>1, <1>2 DEF DragInv, DragsOutWhatWasDragged, Runs

LEMMA NextDrags ==
    ASSUME IInv, DragInv, [Next]_vars PROVE DragInv'
<1>1. CASE UNCHANGED vars BY <1>1 DEF vars, DragInv, OfDrag, DragsOutWhatWasDragged, Idle
<1>2. CASE Next
 <2>1. Delete \/ RenameRow \/ RenameFolder \/ CopyOrCut \/ Paste => DragInv'
  BY DeleteDrags, RenameDrags, CopyOrCutDrags, PasteDrags
 <2>2. Finish \/ FilesOpened \/ DraggedOut \/ OpenFiles \/ Modified \/ CancelUpdate \/ Update => DragInv'
  BY EndedDrags, OpenFilesDrags, ModifiedDrags, UpdateDrags
 <2>3. DragRows \/ DragFolder \/ ListDragDataGet \/ TreeDragDataGet \/ DragEnd => DragInv'
  BY DragRowsDrags, DragFolderDrags, ListDragDataGetDrags, TreeDragDataGetDrags, DragEndDrags
 <2>4. BrowseStep => DragInv' BY BrowseDrags
 <2> QED BY <1>2, <2>1, <2>2, <2>3, <2>4, Zenon DEF Next
<1> QED BY <1>1, <1>2

\* What is dragged out of the window is what was dragged, and where it was dropped, with the
\* exceptions that DragsOutWhatWasDragged names (file_list_drag_begin to file_list_drag_end).
THEOREM DragsOutRight == Spec => []DragsOutWhatWasDragged
<1>1. Init => DragInv BY InitDrags
<1>2. IInv /\ DragInv /\ [Next]_vars => DragInv' BY NextDrags
<1>3. DragInv => DragsOutWhatWasDragged BY DEF DragInv
<1> QED BY <1>1, <1>2, <1>3, WindowFollowsArchive, PTL DEF Spec

----
(* What a script leaves is an archive: below a file there is nothing, and folders are stored in
   one way.  Paths first. *)

LEMMA PrefixOn ==
    ASSUME NEW p \in Seq(Names), NEW q \in Seq(Names), NEW r \in Seq(Names), IsPrefix(q, r)
    PROVE  /\ IsPrefix(p, q) => IsPrefix(p, r)
           /\ IsPrefix(p, r) /\ Len(p) <= Len(q) => IsPrefix(p, q)
           /\ Len(q) = Len(r) => q = r
<1>1. Len(p) \in Nat /\ Len(q) \in Nat /\ Len(r) \in Nat OBVIOUS
<1>2. Agree(q, r, Len(q)) BY PrefixIs
<1>3. (IsPrefix(p, q) <=> Agree(p, q, Len(p))) /\ (IsPrefix(p, r) <=> Agree(p, r, Len(p)))
 BY PrefixIs
<1>4. Len(q) = Len(r) => q = r BY <1>1, <1>2, SeqEqual DEF Agree
<1> QED BY <1>1, <1>2, <1>3, <1>4 DEF Agree

LEMMA FrontOf ==
    ASSUME NEW p \in Paths
    PROVE  /\ Front(p) \in Seq(Names) /\ Len(Front(p)) = Len(p) - 1 /\ Len(p) \in Nat \ {0}
           /\ IsPrefix(Front(p), p) /\ IsPrefix(p, p)
           /\ \A q \in Seq(Names) : IsPrefix(q, p) => q = p \/ IsPrefix(q, Front(p))
<1> DEFINE n == Len(p) - 1
<1>1. p \in Seq(Names) /\ Len(p) \in Nat \ {0} /\ n \in 0..Len(p) /\ Len(p) = n + 1
 BY EmptySeq, LenProperties DEF Paths
<1>2. Front(p) = SubSeq(p, 1, n) BY DEF Front
<1> HIDE DEF n
<1>3. /\ Front(p) \in Seq(Names) /\ Len(Front(p)) = n
      /\ \A i \in 1..n : Front(p)[i] = p[i]
 BY <1>1, <1>2, FrontIs
<1>4. IsPrefix(Front(p), p) /\ IsPrefix(p, p) BY <1>1, <1>3, PrefixIs DEF Agree
<1>5. ASSUME NEW q \in Seq(Names), IsPrefix(q, p), q # p PROVE IsPrefix(q, Front(p))
 <2>1. Len(q) \in Nat /\ Len(q) <= Len(p) /\ Len(q) # Len(p)
  BY <1>1, <1>5, PrefixIs, PrefixOn DEF Agree
 <2> QED BY <1>1, <1>3, <1>4, <1>5, <2>1, PrefixOn
<1> QED BY <1>1, <1>3, <1>4, <1>5

\* What is below a place, put below another.
Relocated(into, from, path) == into \o SubSeq(path, Len(from) + 1, Len(path))

LEMMA MovedIs ==
    ASSUME NEW into \in Seq(Names), NEW from \in Seq(Names), NEW p \in Seq(Names), IsPrefix(from, p)
    PROVE  /\ Relocated(into, from, p) \in Seq(Names) /\ IsPrefix(into, Relocated(into, from, p))
           /\ Len(Relocated(into, from, p)) = Len(into) + Len(p) - Len(from)
           /\ \A i \in 1..(Len(p) - Len(from)) : Relocated(into, from, p)[Len(into) + i] = p[Len(from) + i]
<1> DEFINE rest == SubSeq(p, Len(from) + 1, Len(p))
<1>1. Len(p) \in Nat /\ Len(from) \in Nat /\ Len(into) \in Nat /\ Len(from) <= Len(p)
 BY PrefixIs DEF Agree
<1>2. /\ rest \in Seq(Names) /\ Len(rest) = Len(p) - Len(from)
      /\ \A i \in 1..(Len(p) - Len(from)) : rest[i] = p[Len(from) + i]
 BY <1>1
<1> HIDE DEF rest
<1>3. Relocated(into, from, p) = into \o rest BY DEF Relocated, rest
<1> DEFINE z == into \o rest
<1>4. /\ z \in Seq(Names) /\ Len(z) = Len(into) + Len(rest)
      /\ \A i \in 1..Len(into) : z[i] = into[i]
      /\ \A i \in 1..Len(rest) : z[Len(into) + i] = rest[i]
 <2>1. /\ z \in Seq(Names) /\ Len(z) = Len(into) + Len(rest)
       /\ \A i \in 1..Len(into) + Len(rest) :
            z[i] = IF i <= Len(into) THEN into[i] ELSE rest[i - Len(into)]
  BY <1>2, ConcatProperties
 <2> HIDE DEF z
 <2>2. ASSUME NEW i \in 1..Len(rest) PROVE z[Len(into) + i] = rest[i]
  <3>1. Len(into) + i \in 1..Len(into) + Len(rest) /\ ~(Len(into) + i <= Len(into))
        /\ Len(into) + i - Len(into) = i
   BY <1>1, <1>2
  <3> QED BY <2>1, <3>1
 <2>3. ASSUME NEW i \in 1..Len(into) PROVE z[i] = into[i]
  <3>1. i \in 1..Len(into) + Len(rest) /\ i <= Len(into) BY <1>1, <1>2
  <3> QED BY <2>1, <3>1
 <2> QED BY <2>1, <2>2, <2>3
<1> HIDE DEF z
<1>5. IsPrefix(into, z) BY <1>1, <1>2, <1>4, PrefixIs DEF Agree
<1> QED BY <1>1, <1>2, <1>3, <1>4, <1>5 DEF z

LEMMA MovedAlike ==
    ASSUME NEW into \in Seq(Names), NEW from \in Seq(Names), NEW p \in Seq(Names), NEW q \in Seq(Names),
           IsPrefix(from, p), IsPrefix(from, q), IsPrefix(Relocated(into, from, p), Relocated(into, from, q))
    PROVE  IsPrefix(p, q)
<1>1. Len(p) \in Nat /\ Len(q) \in Nat /\ Len(from) \in Nat /\ Len(into) \in Nat OBVIOUS
<1>2. Agree(from, p, Len(from)) /\ Agree(from, q, Len(from)) BY PrefixIs
<1> DEFINE x == Relocated(into, from, p)
           y == Relocated(into, from, q)
<1>3. /\ x \in Seq(Names) /\ Len(x) = Len(into) + Len(p) - Len(from)
      /\ \A i \in 1..(Len(p) - Len(from)) : x[Len(into) + i] = p[Len(from) + i]
 BY MovedIs
<1>4. /\ y \in Seq(Names) /\ Len(y) = Len(into) + Len(q) - Len(from)
      /\ \A i \in 1..(Len(q) - Len(from)) : y[Len(into) + i] = q[Len(from) + i]
 BY MovedIs
<1> HIDE DEF x, y
<1>5. Agree(x, y, Len(x)) BY <1>3, <1>4, PrefixIs DEF x, y
<1>6. Len(p) <= Len(q) BY <1>1, <1>3, <1>4, <1>5 DEF Agree
<1>7. ASSUME NEW i \in 1..Len(p) PROVE p[i] = q[i]
 <2>1. CASE i <= Len(from) BY <1>1, <1>2, <2>1 DEF Agree
 <2>2. CASE ~(i <= Len(from))
  <3> DEFINE j == i - Len(from)
  <3>1. j \in 1..(Len(p) - Len(from)) /\ j \in 1..(Len(q) - Len(from)) /\ i = Len(from) + j
   BY <1>1, <1>6, <2>2
  <3>2. Len(into) + j \in 1..Len(x) BY <1>1, <1>2, <1>3, <3>1 DEF Agree
  <3> HIDE DEF j
  <3>3. x[Len(into) + j] = y[Len(into) + j] BY <1>5, <3>2 DEF Agree
  <3> QED BY <1>3, <1>4, <3>1, <3>3
 <2> QED BY <2>1, <2>2
<1> QED BY <1>6, <1>7, PrefixIs DEF Agree

\* Where a command moves to.
Into(tmp, from, to) == IF IsFolderIn(tmp, to) THEN Append(to, Last(from)) ELSE to

Carried(a, into, from) == [a EXCEPT !.path = Relocated(into, from, a.path)]

LEMMA MoveDoes ==
    ASSUME NEW r, Script(r), NEW from \in Paths, NEW to \in Seq(Names), Move(r, from, to).ok
    PROVE  LET into == Into(r.tmp, from, to)
               left == Move(r, from, to).tmp
           IN /\ into \in Paths /\ IsFolderIn(r.tmp, Front(into)) /\ ~IsPrefix(from, into)
              /\ \E a \in r.tmp : IsPrefix(from, a.path)
              /\ \A t \in r.tmp : IsPrefix(into, t.path) =>
                    /\ t.path = into
                    /\ t.kind = "file" <=> \E a \in r.tmp : a.path = from /\ a.kind = "file"
              /\ \A t \in left :
                    \/ t \in r.tmp /\ ~IsPrefix(from, t.path) /\ t.path # into
                    \/ \E a \in r.tmp : IsPrefix(from, a.path) /\ t = Carried(a, into, from)
              /\ \A t \in r.tmp : ~IsPrefix(from, t.path) /\ t.path # into => t \in left
              /\ \A a \in r.tmp : IsPrefix(from, a.path) => Carried(a, into, from) \in left
<1> DEFINE moved == {t \in r.tmp : IsPrefix(from, t.path)}
           into == Into(r.tmp, from, to)
           file == \E t \in moved : t.path = from /\ t.kind = "file"
           ok == /\ moved # {} /\ IsFolderIn(r.tmp, Front(to)) /\ ~IsPrefix(from, into)
                 /\ \A t \in r.tmp : IsPrefix(into, t.path) =>
                                       t.path = into /\ (t.kind = "file") = file
           tmp == {t \in r.tmp : ~IsPrefix(from, t.path) /\ t.path # into}
                    \cup {Carried(t, into, from) : t \in moved}
           u == [r EXCEPT !.ok = ok, !.tmp = tmp]
<1>1. Move(r, from, to) = u BY Zenon DEF Move, Into, Carried, Relocated
<1>2. from \in Seq(Names) /\ IsPrefix(from, from) /\ Last(from) \in Names
 <2> QED BY EmptySeq, LenProperties, FrontOf DEF Paths, Last
<1>3. u.ok = ok /\ u.tmp = tmp BY DEF Script
<1> HIDE DEF u
<1>4. ok BY <1>1, <1>3
<1>5. file <=> \E a \in r.tmp : a.path = from /\ a.kind = "file" BY <1>2
<1>6. into \in Paths /\ IsFolderIn(r.tmp, Front(into))
 <2>1. CASE IsFolderIn(r.tmp, to)
  <3> DEFINE x == Append(to, Last(from))
  <3>1. x \in Seq(Names) /\ x # <<>> /\ Front(x) = to BY <1>2 DEF Front
  <3>2. into = x BY <2>1 DEF Into
  <3> HIDE DEF x, into
  <3> QED BY <2>1, <3>1, <3>2 DEF Paths
 <2>2. CASE ~IsFolderIn(r.tmp, to)
  <3>1. into = to BY <2>2 DEF Into
  <3>2. to # <<>> BY <2>2 DEF IsFolderIn
  <3> QED BY <1>4, <3>1, <3>2 DEF Paths
 <2> QED BY <2>1, <2>2
<1> HIDE DEF into
<1>7. \A t \in r.tmp : IsPrefix(into, t.path) => t.path = into /\ (t.kind = "file" <=> file) BY <1>4
<1> HIDE DEF ok, file
<1>8. /\ \A t \in tmp :
            \/ t \in r.tmp /\ ~IsPrefix(from, t.path) /\ t.path # into
            \/ \E a \in r.tmp : IsPrefix(from, a.path) /\ t = Carried(a, into, from)
      /\ \A t \in r.tmp : ~IsPrefix(from, t.path) /\ t.path # into => t \in tmp
      /\ \A a \in r.tmp : IsPrefix(from, a.path) => Carried(a, into, from) \in tmp
 OBVIOUS
<1> QED BY <1>1, <1>3, <1>4, <1>5, <1>6, <1>7, <1>8 DEF into, ok

KindsIn(set, kind) == \A m \in set : m.kind \in {"file", kind}

\* What is below a folder that there is, is not below a file.
LEMMA NoFileAbove ==
    ASSUME NEW tmp, Nodes(tmp), Sound(tmp), NEW t \in tmp, t.kind = "file",
           NEW path \in Seq(Names), IsFolderIn(tmp, path), IsPrefix(t.path, path)
    PROVE  FALSE
<1>1. \A u \in tmp : u.path \in Paths /\ u.path \in Seq(Names) BY DEF Nodes, Paths
<1>2. CASE path = <<>>
 <2>1. Len(t.path) <= Len(path) BY <1>1, PrefixIs DEF Agree
 <2>2. Len(t.path) \in Nat \ {0} BY <1>1, FrontOf
 <2> QED BY <1>2, <2>1, <2>2
<1>3. CASE \E u \in tmp : IsPrefix(path, u.path) /\ (u.path = path => u.kind # "file")
 <2>1. PICK u \in tmp : IsPrefix(path, u.path) /\ (u.path = path => u.kind # "file") BY <1>3
 <2>2. IsPrefix(t.path, u.path) BY <1>1, <2>1, PrefixOn
 <2>3. u = t BY <2>2 DEF Sound
 <2>4. Len(t.path) = Len(path) BY <1>1, <2>1, <2>3, PrefixIs DEF Agree
 <2> QED BY <1>1, <2>1, <2>3, <2>4, PrefixOn
<1> QED BY <1>2, <1>3 DEF IsFolderIn

LEMMA MoveSound ==
    ASSUME NEW r, Script(r), NEW from \in Paths, NEW to \in Seq(Names), Move(r, from, to).ok,
           Sound(r.tmp), NEW kind, KindsIn(r.tmp, kind)
    PROVE  Sound(Move(r, from, to).tmp) /\ KindsIn(Move(r, from, to).tmp, kind)
<1> DEFINE into == Into(r.tmp, from, to)
           left == Move(r, from, to).tmp
           Left(t) == t \in r.tmp /\ ~IsPrefix(from, t.path) /\ t.path # into
           Is(t, a) == a \in r.tmp /\ IsPrefix(from, a.path) /\ t = Carried(a, into, from)
<1>1. /\ into \in Paths /\ IsFolderIn(r.tmp, Front(into))
      /\ \A t \in r.tmp : IsPrefix(into, t.path) => t.path = into
      /\ \A t \in left : Left(t) \/ \E a \in r.tmp : Is(t, a)
 BY MoveDoes
<1> HIDE DEF into, left
<1>2. /\ \A u \in r.tmp : u.path \in Paths /\ u.path \in Seq(Names) /\ "path" \in DOMAIN u
      /\ from \in Seq(Names) /\ into \in Seq(Names)
 BY <1>1 DEF Script, Nodes, Paths
<1>3. ASSUME NEW t, NEW a, Is(t, a)
      PROVE  /\ t.kind = a.kind /\ t.path = Relocated(into, from, a.path)
             /\ t.path \in Seq(Names) /\ IsPrefix(into, t.path)
 <2>1. t.kind = a.kind /\ t.path = Relocated(into, from, a.path) BY <1>2, <1>3 DEF Carried
 <2> QED BY <1>2, <1>3, <2>1, MovedIs
<1>4. ASSUME NEW m \in left, NEW n \in left, m.kind = "file", IsPrefix(m.path, n.path)
      PROVE  n = m
 <2>1. CASE Left(m) /\ Left(n) BY <1>4, <2>1 DEF Sound
 <2>2. CASE Left(m) /\ \E b \in r.tmp : Is(n, b)
  <3>1. PICK b \in r.tmp : Is(n, b) BY <2>2
  <3>2. n.path \in Seq(Names) /\ IsPrefix(into, n.path) /\ m.path \in Seq(Names)
   BY <1>2, <1>3, <2>2, <3>1
  <3>3. ~IsPrefix(into, m.path) BY <1>1, <2>2
  <3>4. IsPrefix(m.path, into) BY <1>2, <1>4, <3>2, <3>3, PrefixOn
  <3>5. IsPrefix(m.path, Front(into)) /\ Front(into) \in Seq(Names)
   BY <1>1, <2>2, <3>2, <3>4, FrontOf
  <3> QED BY <1>1, <1>4, <2>2, <3>5, NoFileAbove DEF Script
 <2>3. CASE (\E a \in r.tmp : Is(m, a)) /\ Left(n)
  <3>1. PICK a \in r.tmp : Is(m, a) BY <2>3
  <3>2. IsPrefix(into, n.path) BY <1>2, <1>3, <1>4, <2>3, <3>1, PrefixOn
  <3> QED BY <1>1, <2>3, <3>2
 <2>4. CASE (\E a \in r.tmp : Is(m, a)) /\ (\E b \in r.tmp : Is(n, b))
  <3>1. PICK a \in r.tmp : Is(m, a) BY <2>4
  <3>2. PICK b \in r.tmp : Is(n, b) BY <2>4
  <3>3. IsPrefix(a.path, b.path) BY <1>2, <1>3, <1>4, <3>1, <3>2, MovedAlike
  <3>4. b = a BY <1>3, <1>4, <3>1, <3>3 DEF Sound
  <3> QED BY <3>1, <3>2, <3>4
 <2> QED BY <1>1, <2>1, <2>2, <2>3, <2>4
<1>5. ASSUME NEW t \in left PROVE t.kind \in {"file", kind} BY <1>1, <1>3, <1>5 DEF KindsIn
<1> QED BY <1>4, <1>5 DEF Sound, KindsIn, left

\* A place that a file is moved from: it is there, or nothing is any more.
FileOrNone(tmp, path) ==
    \/ \E t \in tmp : t.path = path /\ t.kind = "file"
    \/ ~\E t \in tmp : IsPrefix(path, t.path)

LEMMA MoveFiles ==
    ASSUME NEW r, Script(r), NEW from \in Paths, NEW to \in Seq(Names), Move(r, from, to).ok,
           Sound(r.tmp), FileOrNone(r.tmp, from)
    PROVE  /\ \A t \in r.tmp : t.kind # "file" => t \in Move(r, from, to).tmp
           /\ \A f \in Paths : FileOrNone(r.tmp, f) /\ (f = from \/ ~IsPrefix(from, f))
                                 => FileOrNone(Move(r, from, to).tmp, f)
<1> DEFINE into == Into(r.tmp, from, to)
           left == Move(r, from, to).tmp
<1>1. /\ into \in Paths /\ IsFolderIn(r.tmp, Front(into)) /\ ~IsPrefix(from, into)
      /\ \E a \in r.tmp : IsPrefix(from, a.path)
      /\ \A t \in r.tmp : IsPrefix(into, t.path) =>
            /\ t.path = into
            /\ t.kind = "file" <=> \E a \in r.tmp : a.path = from /\ a.kind = "file"
      /\ \A t \in left :
            \/ t \in r.tmp /\ ~IsPrefix(from, t.path) /\ t.path # into
            \/ \E a \in r.tmp : IsPrefix(from, a.path) /\ t = Carried(a, into, from)
      /\ \A t \in r.tmp : ~IsPrefix(from, t.path) /\ t.path # into => t \in left
      /\ \A a \in r.tmp : IsPrefix(from, a.path) => Carried(a, into, from) \in left
 BY MoveDoes
<1> HIDE DEF into, left
<1>2. /\ \A u \in r.tmp : u.path \in Paths /\ u.path \in Seq(Names) /\ "path" \in DOMAIN u
      /\ from \in Seq(Names) /\ into \in Seq(Names)
 BY <1>1 DEF Script, Nodes, Paths
<1>3. PICK a \in r.tmp : a.path = from /\ a.kind = "file" BY <1>1 DEF FileOrNone
<1>4. \A t \in r.tmp : IsPrefix(from, t.path) => t = a BY <1>3 DEF Sound
<1> DEFINE b == Carried(a, into, from)
<1>5. b.path = into /\ b.kind = "file" /\ b \in left
 <2>1. IsPrefix(from, a.path) BY <1>3, FrontOf
 <2>2. b.kind = "file" /\ b.path = Relocated(into, from, from) BY <1>2, <1>3 DEF Carried
 <2> DEFINE z == Relocated(into, from, from)
 <2>3. /\ z \in Seq(Names) /\ Len(z) = Len(into) + Len(from) - Len(from) /\ IsPrefix(into, z)
  BY <1>2, <1>3, <2>1, MovedIs
 <2> HIDE DEF z
 <2>5. Len(z) = Len(into) BY <1>2, <2>3, LenProperties
 <2>4. into = Relocated(into, from, from) BY <1>2, <2>3, <2>5, PrefixOn DEF z
 <2> QED BY <1>1, <1>3, <2>1, <2>2, <2>4
<1>6. \A t \in left : t = b \/ (t \in r.tmp /\ ~IsPrefix(from, t.path) /\ t.path # into)
 BY <1>1, <1>4
<1> HIDE DEF b
<1>7. ASSUME NEW t \in r.tmp, t.kind # "file" PROVE t \in left
 <2>1. t.path # into BY <1>1, <1>2, <1>3, <1>7, FrontOf
 <2> QED BY <1>1, <1>3, <1>4, <1>7, <2>1
<1>8. ASSUME NEW f \in Paths, FileOrNone(r.tmp, f), f = from \/ ~IsPrefix(from, f)
      PROVE  FileOrNone(left, f)
 <2>1. CASE f = from BY <1>1, <1>5, <1>6, <2>1 DEF FileOrNone
 <2>2. CASE f # from /\ \E t \in r.tmp : t.path = f /\ t.kind = "file"
  BY <1>1, <1>5, <1>8, <2>2 DEF FileOrNone
 <2>3. CASE ~\E t \in r.tmp : IsPrefix(f, t.path)
  <3>1. CASE f = into BY <1>5, <3>1 DEF FileOrNone
  <3>2. CASE f # into
   <4>1. f \in Seq(Names) /\ Front(into) \in Seq(Names) /\ Len(f) \in Nat \ {0}
    BY <1>1, FrontOf DEF Paths
   <4>2. ASSUME IsPrefix(f, into) PROVE FALSE
    <5>1. IsPrefix(f, Front(into)) BY <1>1, <3>2, <4>1, <4>2, FrontOf
    <5>2. Front(into) # <<>> BY <4>1, <5>1, PrefixIs DEF Agree
    <5>3. PICK t \in r.tmp : IsPrefix(Front(into), t.path) BY <1>1, <5>2 DEF IsFolderIn
    <5> QED BY <1>2, <2>3, <4>1, <5>1, <5>3, PrefixOn
   <4> QED BY <1>5, <1>6, <2>3, <4>2 DEF FileOrNone
  <3> QED BY <3>1, <3>2
 <2> QED BY <1>8, <2>1, <2>2, <2>3 DEF FileOrNone
<1> QED BY <1>7, <1>8 DEF left

Sane(members) == Sound(members) /\ Uniform(members)

\* How folders are stored in an archive that stores them in one way.
LEMMA KindIs ==
    ASSUME NEW members
    PROVE  /\ FolderKind(members) \in {"folder", "folder/"}
           /\ Uniform(members) <=> KindsIn(members, FolderKind(members))
BY DEF Uniform, KindsIn, FolderKind

LEMMA SaneLess ==
    ASSUME NEW members, NEW less \in SUBSET members
    PROVE  /\ Sane(members) => Sane(less)
           /\ \A kind : KindsIn(members, kind) => KindsIn(less, kind)
BY DEF Sane, Sound, Uniform, KindsIn

NoFiles(tmp) == \A t \in tmp : t.kind # "file"
FolderAt(tmp, path) == \E t \in tmp : t.path = path /\ t.kind # "file"

LEMMA NodeIs ==
    ASSUME NEW path, NEW kind, NEW data
    PROVE  Node(path, kind, data).path = path /\ Node(path, kind, data).kind = kind
BY DEF Node

LEMMA MakeFoldersFine ==
    ASSUME NEW r, Script(r), NEW paths \in SUBSET Seq(Names), NoFiles(r.tmp),
           KindsIn(r.tmp, FolderKind(r.disk))
    PROVE  LET tmp == MakeFolders(r, paths).tmp
           IN /\ NoFiles(tmp) /\ KindsIn(tmp, FolderKind(r.disk)) /\ Sound(tmp)
              /\ \A path \in paths \ {<<>>} : FolderAt(tmp, path)
<1> DEFINE made == (UNION {Ancestors(p) : p \in paths}) \ {<<>>}
           kind == FolderKind(r.disk)
           tmp == r.tmp \cup {Node(path, kind, None) : path \in made}
<1>1. MakeFolders(r, paths).tmp = tmp BY DEF MakeFolders, Script
<1>2. kind # "file" BY KindIs
<1>3. \A path \in paths \ {<<>>} : path \in made
 <2> SUFFICES ASSUME NEW path \in paths \ {<<>>} PROVE path \in Ancestors(path) OBVIOUS
 <2> QED BY DEF Ancestors
<1> HIDE DEF made, kind
<1>4. /\ NoFiles(tmp) /\ KindsIn(tmp, kind)
      /\ \A path \in made : FolderAt(tmp, path)
 BY <1>2, NodeIs DEF NoFiles, KindsIn, FolderAt, kind
<1> HIDE DEF tmp
<1>5. Sound(tmp) BY <1>4 DEF Sound, NoFiles
<1> QED BY <1>1, <1>3, <1>4, <1>5 DEF kind

LEMMA ExtractFine ==
    ASSUME NEW r, Script(r), NEW names, NoFiles(r.tmp), Sound(r.disk), NEW kind,
           KindsIn(r.tmp, kind), KindsIn(r.disk, kind), Extract(r, names).ok
    PROVE  LET tmp == Extract(r, names).tmp
           IN /\ Sound(tmp) /\ KindsIn(tmp, kind) /\ r.tmp \subseteq tmp
              /\ \A m \in r.disk : names = None \/ Name(m) \in Range(names) =>
                    \E t \in tmp : t.path = m.path /\ t.kind = m.kind
              /\ names # None => Range(names) \subseteq {Name(m) : m \in r.disk}
<1> DEFINE found == {m \in r.disk : names = None \/ Name(m) \in Range(names)}
           At(m) == Node(m.path, m.kind, m.data)
           tmp == r.tmp \cup {At(m) : m \in found}
<1>1. Extract(r, names).tmp = tmp BY DEF Extract, Script
<1>2. /\ ~\E m \in found : m.kind = "file" /\ IsFolderIn(r.tmp, m.path)
      /\ names # None => Range(names) \subseteq {Name(m) : m \in r.disk}
 BY DEF Extract, Script
<1>3. \A m : At(m).path = m.path /\ At(m).kind = m.kind BY NodeIs
<1> HIDE DEF At
<1>4. found \subseteq r.disk OBVIOUS
<1>5. \A m \in r.disk : names = None \/ Name(m) \in Range(names) => m \in found OBVIOUS
<1> HIDE DEF found
<1>6. ASSUME NEW a \in tmp, NEW b \in tmp, a.kind = "file", IsPrefix(a.path, b.path)
      PROVE  b = a
 <2>1. PICK m \in found : a = At(m) BY <1>6 DEF NoFiles
 <2>2. CASE b \in r.tmp
  <3>1. IsFolderIn(r.tmp, m.path) BY <1>3, <1>6, <2>1, <2>2 DEF IsFolderIn, NoFiles
  <3> QED BY <1>2, <1>3, <1>6, <2>1, <3>1
 <2>3. CASE \E n \in found : b = At(n) BY <1>3, <1>4, <1>6, <2>1, <2>3 DEF Sound
 <2> QED BY <2>2, <2>3
<1>7. KindsIn(tmp, kind) /\ r.tmp \subseteq tmp BY <1>3, <1>4 DEF KindsIn
<1>8. \A m \in found : \E t \in tmp : t.path = m.path /\ t.kind = m.kind BY <1>3
<1> HIDE DEF tmp
<1>9. Sound(tmp) BY <1>6 DEF Sound
<1> QED BY <1>1, <1>2, <1>5, <1>7, <1>8, <1>9

\* A place is free for a file to be put at, or for a folder.
FreeAt(members, path, folder) ==
    /\ \A m \in members : m.kind = "file" => ~IsPrefix(m.path, path)
    /\ ~folder => \A m \in members : ~IsPrefix(path, m.path)

LEMMA AddFine ==
    ASSUME NEW r, Script(r), NEW paths, Sane(r.disk), Sound(r.tmp), NEW kind \in {"folder", "folder/"},
           KindsIn(r.tmp, kind), KindsIn(r.disk, kind), NEW M, r.disk \subseteq M, NEW D,
           \A p \in Range(paths) : p \in Seq(Names) /\ FreeAt(M, p, p \in D),
           \A p \in D : p # <<>> => FolderAt(r.tmp, p)
    PROVE  Sane(Add(r, paths).disk)
<1> DEFINE here == {t \in r.tmp : t.path \in Range(paths)}
           At(t) == [path |-> t.path, kind |-> t.kind, rooted |-> FALSE, data |-> t.data]
           kept == {m \in r.disk : m.path \notin {t.path : t \in here}}
           left == kept \cup {At(t) : t \in here}
<1>1. Add(r, paths).disk = left BY DEF Add, Script
<1>2. \A t : At(t).path = t.path /\ At(t).kind = t.kind OBVIOUS
<1> HIDE DEF At
<1>3. kept \subseteq r.disk /\ here \subseteq r.tmp /\ \A t \in here : t.path \in Range(paths)
 OBVIOUS
<1> HIDE DEF kept, here
<1>4. \A t \in here : t.path # <<>> /\ t.path \in Seq(Names) /\ IsPrefix(t.path, t.path)
 BY <1>3, FrontOf DEF Script, Nodes, Paths
<1>5. ASSUME NEW a \in left, NEW b \in left, a.kind = "file", IsPrefix(a.path, b.path)
      PROVE  b = a
 <2>1. CASE a \in kept /\ b \in kept BY <1>3, <1>5, <2>1 DEF Sane, Sound
 <2>2. CASE a \in kept /\ \E t \in here : b = At(t) BY <1>2, <1>3, <1>5, <2>2 DEF FreeAt
 <2>3. CASE (\E t \in here : a = At(t)) /\ b \in kept
  <3>1. PICK t \in here : a = At(t) BY <2>3
  <3>2. t.path \notin D BY <1>2, <1>3, <1>4, <1>5, <3>1 DEF FolderAt, Sound
  <3> QED BY <1>2, <1>3, <1>5, <2>3, <3>1, <3>2 DEF FreeAt
 <2>4. CASE (\E t \in here : a = At(t)) /\ \E t \in here : b = At(t)
  BY <1>2, <1>3, <1>5, <2>4 DEF Sound
 <2> QED BY <2>1, <2>2, <2>3, <2>4
<1>6. KindsIn(left, kind) BY <1>2, <1>3 DEF KindsIn
<1> HIDE DEF left
<1> QED BY <1>1, <1>5, <1>6 DEF Sane, Sound, Uniform, KindsIn

\* A script makes folders, extracts, and then removes, moves and at last adds: step x is the
\* extraction; D are folders it makes, F files it moves when there are folders to be added.
Mixed(names, F) ==
    /\ names # None /\ \E name \in Range(names) : name.slash
    /\ \A f \in F : \E name \in Range(names) : name.path = f /\ ~name.slash

Phase(M, step, i, n, x, D, F) ==
    /\ i < x => step.do = "folders" /\ D \subseteq step.of
    /\ i = x => step.do = "extract" /\ (F # {} => Mixed(step.of, F))
    /\ i > x => \/ step.do = "remove"
                \/ step.do = "move" /\ (D = {} \/ step.of[1] \in F)
                \/ /\ step.do = "add" /\ i = n
                   /\ \A p \in Range(step.of) : p \in Seq(Names) /\ FreeAt(M, p, p \in D)

Work(r, M, i, x, D, F) ==
    /\ Sound(r.tmp) /\ KindsIn(r.tmp, FolderKind(M)) /\ r.disk \subseteq M
    /\ i < x => r.disk = M /\ NoFiles(r.tmp)
    /\ i + 1 >= x => \A p \in D : p # <<>> => FolderAt(r.tmp, p)
    /\ i >= x => \A f \in F : FileOrNone(r.tmp, f) /\ \A g \in F : IsPrefix(f, g) => g = f

Stage(r, M, i, n, x, D, F) ==
    Script(r) /\ Sane(r.disk) /\ (r.ok /\ i < n => Work(r, M, i, x, D, F))

Plan(M, n, x, D, F) ==
    /\ Entries(M) /\ Sane(M) /\ n \in Nat /\ x \in 0..2 /\ D \subseteq Seq(Names) /\ F \subseteq Paths
    /\ D # {} => x = 2
    /\ D = {} => F = {}

LEMMA StepKeeps ==
    ASSUME NEW M, NEW n, NEW x, NEW D, NEW F, Plan(M, n, x, D, F), NEW i \in 1..n,
           NEW r, Stage(r, M, i - 1, n, x, D, F),
           NEW step, StepOK(step), Phase(M, step, i, n, x, D, F)
    PROVE  Stage(Perform(r, step), M, i, n, x, D, F)
<1> DEFINE u == Perform(r, step)
           t == StepDone(r, step)
           kind == FolderKind(M)
<1>1. /\ Script(r) /\ Sane(r.disk) /\ n \in Nat /\ x \in 0..2 /\ i \in Nat /\ i >= 1 /\ i <= n
      /\ D \subseteq Seq(Names) /\ F \subseteq Paths /\ (D # {} => x = 2) /\ (D = {} => F = {})
      /\ Entries(M) /\ Sane(M)
 BY DEF Stage, Plan
<1>2. /\ Script(u) /\ (~r.ok => u = r) /\ (~u.ok => u.disk = r.disk)
      /\ r.ok /\ u.ok => t.ok /\ u.disk = t.disk /\ u.tmp = t.tmp
 BY <1>1, PerformIs
<1> SUFFICES Stage(u, M, i, n, x, D, F) OBVIOUS
<1> HIDE DEF u
<1>3. CASE ~u.ok BY <1>1, <1>2, <1>3, Zenon DEF Stage
<1>5. CASE ~r.ok
 <2>1. ~u.ok BY <1>2, <1>5, Zenon
 <2> QED BY <1>3, <2>1
<1>4. CASE r.ok /\ u.ok
 <2>0. i - 1 < n BY <1>1
 <2>10. Work(r, M, i - 1, x, D, F) BY <1>4, <2>0, Zenon DEF Stage
 <2>1. /\ Sound(r.tmp) /\ KindsIn(r.tmp, kind) /\ r.disk \subseteq M
       /\ i - 1 < x => r.disk = M /\ NoFiles(r.tmp)
       /\ i >= x => \A p \in D : p # <<>> => FolderAt(r.tmp, p)
       /\ i - 1 >= x => \A f \in F : FileOrNone(r.tmp, f) /\ \A g \in F : IsPrefix(f, g) => g = f
  BY <1>1, <2>10 DEF Work
 <2>2. kind \in {"folder", "folder/"} /\ KindsIn(M, kind) /\ KindsIn(r.disk, kind)
  BY <1>1, <2>1, KindIs, SaneLess DEF Sane
 <2>3. t.ok /\ u.disk = t.disk /\ u.tmp = t.tmp BY <1>2, <1>4
 <2> HIDE DEF t
 <2>9. Sane(t.disk) /\ (i < n => Work(t, M, i, x, D, F)) => Stage(u, M, i, n, x, D, F)
  <3>1. Work(u, M, i, x, D, F) <=> Work(t, M, i, x, D, F) BY <2>3 DEF Work
  <3> QED BY <1>2, <2>3, <3>1, Zenon DEF Stage
 <2> HIDE DEF kind
 <2>4. CASE i < x
  <3>1. t = MakeFolders(r, step.of) /\ step.of \in SUBSET Seq(Names) /\ D \subseteq step.of
   BY <2>4 DEF t, Phase, StepDone, StepOK
  <3>2. r.disk = M /\ NoFiles(r.tmp) BY <1>1, <2>1, <2>4
  <3>3. /\ NoFiles(t.tmp) /\ KindsIn(t.tmp, kind) /\ Sound(t.tmp)
        /\ \A p \in D : p # <<>> => FolderAt(t.tmp, p)
   BY <1>1, <2>1, <3>1, <3>2, MakeFoldersFine DEF kind
  <3>4. t.disk = M BY <1>1, <3>1, <3>2, MakeFoldersIs
  <3> QED BY <1>1, <2>4, <2>9, <3>3, <3>4 DEF Work, kind
 <2>5. CASE i = x
  <3> DEFINE names == step.of
  <3>1. t = Extract(r, names) /\ (F # {} => Mixed(names, F)) BY <2>5 DEF t, Phase, StepDone
  <3> HIDE DEF names
  <3>2. r.disk = M /\ NoFiles(r.tmp) BY <1>1, <2>1, <2>5
  <3>3. /\ Sound(t.tmp) /\ KindsIn(t.tmp, kind) /\ r.tmp \subseteq t.tmp
        /\ \A m \in M : names = None \/ Name(m) \in Range(names) =>
              \E a \in t.tmp : a.path = m.path /\ a.kind = m.kind
        /\ names # None => Range(names) \subseteq {Name(m) : m \in M}
   <4>1. Extract(r, names).ok /\ Sound(r.disk) BY <2>3, <3>1, <3>2, <1>1 DEF Sane
   <4>2. LET tmp == Extract(r, names).tmp
         IN /\ Sound(tmp) /\ KindsIn(tmp, kind) /\ r.tmp \subseteq tmp
            /\ \A m \in r.disk : names = None \/ Name(m) \in Range(names) =>
                  \E a \in tmp : a.path = m.path /\ a.kind = m.kind
            /\ names # None => Range(names) \subseteq {Name(m) : m \in r.disk}
    BY <1>1, <2>1, <2>2, <3>2, <4>1, ExtractFine
   <4> QED BY <3>1, <3>2, <4>2
  <3>4. t.disk = M BY <1>1, <3>1, <3>2, ExtractIs
  <3>5. \A f \in F : FileOrNone(t.tmp, f) /\ \A g \in F : IsPrefix(f, g) => g = f
   <4> SUFFICES ASSUME F # {} PROVE \A f \in F : \E m \in M : /\ m.path = f /\ m.kind = "file"
                                                               /\ Name(m) \in Range(names)
    BY <1>1, <3>3 DEF FileOrNone, Sane, Sound
   <4>1. Mixed(names, F) /\ Range(names) \subseteq {Name(m) : m \in M} BY <3>1, <3>3 DEF Mixed
   <4>2. \A m : Name(m).path = m.path /\ Name(m).slash = Slash(m) BY DEF Name
   <4>3. \E m \in M : m.kind = "folder/" BY <4>1, <4>2 DEF Mixed, Slash
   <4>4. kind = "folder/" BY <2>2, <4>3 DEF KindsIn
   <4>5. \A m \in M : ~Slash(m) => m.kind = "file" BY <2>2, <4>4 DEF KindsIn, Slash
   <4> QED BY <4>1, <4>2, <4>5 DEF Mixed
  <3>6. \A p \in D : p # <<>> => FolderAt(t.tmp, p) BY <1>1, <2>1, <2>5, <3>3 DEF FolderAt
  <3> QED BY <1>1, <2>5, <2>9, <3>3, <3>4, <3>5, <3>6 DEF Work, kind
 <2>6. CASE i > x /\ step.do = "remove"
  <3>1. t.tmp = r.tmp /\ t.disk \subseteq r.disk BY <1>1, <2>6 DEF t, StepDone, TakeOut, Script
  <3> QED BY <1>1, <2>1, <2>6, <2>9, <3>1, SaneLess DEF Work, kind
 <2>7. CASE i > x /\ step.do = "move" /\ (D = {} \/ step.of[1] \in F)
  <3> DEFINE from == step.of[1]
             to == step.of[2]
  <3>1. t = Move(r, from, to) /\ from \in Paths /\ to \in Seq(Names)
   BY <2>7 DEF t, StepDone, StepOK
  <3> HIDE DEF from, to
  <3>2. t.disk = r.disk BY <1>1, <3>1 DEF Move, Script
  <3>3. Sound(t.tmp) /\ KindsIn(t.tmp, kind) BY <1>1, <2>1, <2>3, <3>1, MoveSound
  <3>4. i - 1 >= x BY <1>1, <2>7
  <3>5. CASE D = {} BY <1>1, <2>1, <2>7, <2>9, <3>2, <3>3, <3>5 DEF Work, kind
  <3>6. CASE from \in F
   <4>1. FileOrNone(r.tmp, from) BY <2>1, <3>4, <3>6
   <4>2. /\ \A a \in r.tmp : a.kind # "file" => a \in t.tmp
         /\ \A f \in Paths : FileOrNone(r.tmp, f) /\ (f = from \/ ~IsPrefix(from, f))
                               => FileOrNone(t.tmp, f)
    BY <1>1, <2>1, <2>3, <3>1, <4>1, MoveFiles
   <4>3. \A f \in F : f = from \/ ~IsPrefix(from, f) BY <2>1, <3>4, <3>6
   <4>4. \A f \in F : FileOrNone(t.tmp, f) /\ \A g \in F : IsPrefix(f, g) => g = f
    BY <1>1, <2>1, <3>4, <4>2, <4>3
   <4>5. \A p \in D : p # <<>> => FolderAt(t.tmp, p) BY <1>1, <2>1, <2>7, <4>2 DEF FolderAt
   <4> QED BY <1>1, <2>1, <2>7, <2>9, <3>2, <3>3, <4>4, <4>5 DEF Work, kind
  <3> QED BY <2>7, <3>5, <3>6 DEF from
 <2>8. CASE i > x /\ step.do = "add" /\ i = n
            /\ \A p \in Range(step.of) : p \in Seq(Names) /\ FreeAt(M, p, p \in D)
  <3>1. t = Add(r, step.of) BY <2>8 DEF t, StepDone
  <3>2. \A p \in D : p # <<>> => FolderAt(r.tmp, p) BY <1>1, <2>1, <2>8
  <3>3. Sane(t.disk) BY <1>1, <2>1, <2>2, <2>8, <3>1, <3>2, AddFine
  <3> QED BY <1>1, <2>8, <2>9, <3>3
 <2> QED BY <1>1, <2>4, <2>5, <2>6, <2>7, <2>8 DEF Phase
<1> QED BY <1>3, <1>4, <1>5

\* Such a script leaves an archive, whatever it comes to.
LEMMA ScriptSane ==
    ASSUME NEW M, NEW n, NEW x, NEW D, NEW F, Plan(M, n, x, D, F), NEW steps,
           \A i \in 1..n : StepOK(steps[i]) /\ Phase(M, steps[i], i, n, x, D, F), NEW k \in 0..n
    PROVE  Sane(Executed(M, steps, k).disk)
<1> DEFINE t == [disk |-> M, tmp |-> {}, ok |-> TRUE, removed |-> FALSE, done |-> 0]
           f == CHOOSE g : ExecutedBy(g, M, steps, k)
           Holds(i) == Stage(f[i], M, i, n, x, D, F)
           Fails == {i \in Nat : i <= k /\ ~Holds(i)}
<1>0. n \in Nat /\ k \in Nat /\ k <= n BY DEF Plan
<1>1. Executed(M, steps, k) = f[k] BY Zenon DEF Executed, ExecutedBy
<1>2. ExecutedBy(f, M, steps, k) BY <1>0, ExecutedExists
<1> HIDE DEF f
<1>3. \A i \in 0..k : f[i] = IF i = 0 THEN t ELSE Perform(f[i - 1], steps[i]) BY <1>2 DEF ExecutedBy
<1>4. Stage(t, M, 0, n, x, D, F)
 <2>1. DOMAIN t = {"disk", "tmp", "ok", "removed", "done"} /\ t.disk = M /\ t.tmp = {} /\ t.done = 0
  OBVIOUS
 <2> HIDE DEF t
 <2> QED BY <2>1 DEF Stage, Script, Nodes, Work, Plan, Sound, KindsIn, NoFiles, FileOrNone
<1> HIDE DEF t
<1>5. ASSUME Fails # {} PROVE FALSE
 <2>1. PICK i \in Fails : \A j \in Fails : ~(j < i) BY <1>5, SmallestOf
 <2>2. i \in 0..k BY <2>1
 <2>3. CASE i = 0 BY <1>3, <1>4, <2>1, <2>2, <2>3
 <2>4. CASE i # 0
  <3>1. i - 1 \in Nat /\ i - 1 <= k /\ i - 1 < i /\ i \in 1..n BY <1>0, <2>2, <2>4
  <3>2. Holds(i - 1) BY <2>1, <3>1
  <3>3. f[i] = Perform(f[i - 1], steps[i]) BY <1>3, <2>2, <2>4
  <3>4. Holds(i) BY <3>1, <3>2, <3>3, StepKeeps
  <3> QED BY <2>1, <3>4
 <2> QED BY <2>3, <2>4
<1>6. Holds(k) BY <1>0, <1>5
<1> QED BY <1>1, <1>6 DEF Stage

\* Where nothing is below a place, nor a file above it, a file may be put.
Apt(M, places, path) ==
    /\ \A q \in places : IsPrefix(q, path) \/ IsPrefix(path, q) => q = path
    /\ \A m \in M : (m.kind = "file" /\ IsPrefix(m.path, path)) \/ IsPrefix(path, m.path)
                      => m.path = path

PutIn(members, M, places) ==
    Sane(members) /\ \A m \in members : m \in M \/ (m.kind = "file" /\ m.path \in places)

LEMMA PutFine ==
    ASSUME NEW M, NEW places, NEW members, PutIn(members, M, places), NEW path \in places,
           Apt(M, places, path), NEW data
    PROVE  PutIn(Put(members, path, "file", data), M, places)
<1> DEFINE it == [path |-> path, kind |-> "file", rooted |-> FALSE, data |-> data]
           left == {m \in members : m.path # path} \cup {it}
<1>1. Put(members, path, "file", data) = left BY DEF Put
<1>2. it.path = path /\ it.kind = "file" OBVIOUS
<1> HIDE DEF it
<1>3. \A m \in left : m \in M \/ (m.kind = "file" /\ m.path \in places) BY <1>2 DEF PutIn
<1>4. ASSUME NEW a \in left, NEW b \in left, a.kind = "file", IsPrefix(a.path, b.path) PROVE b = a
 BY <1>2, <1>4 DEF PutIn, Apt, Sane, Sound
<1>5. \A kind : KindsIn(members, kind) => KindsIn(left, kind) BY <1>2 DEF KindsIn
<1>6. Sane(left) BY <1>4, <1>5 DEF PutIn, Sane, Sound, Uniform, KindsIn
<1> QED BY <1>1, <1>3, <1>6 DEF PutIn

\* Files that are saved in the archive, each where it was opened.
LEMMA UpdateSane ==
    ASSUME NEW M, Entries(M), Sane(M), NEW n \in Nat, NEW steps, NEW places,
           \A i \in 1..n : /\ StepOK(steps[i]) /\ steps[i].do = "update"
                           /\ steps[i].of.path \in places /\ Apt(M, places, steps[i].of.path),
           NEW k \in 0..n
    PROVE  Sane(Executed(M, steps, k).disk)
<1> DEFINE t == [disk |-> M, tmp |-> {}, ok |-> TRUE, removed |-> FALSE, done |-> 0]
           f == CHOOSE g : ExecutedBy(g, M, steps, k)
           Holds(i) == Script(f[i]) /\ PutIn(f[i].disk, M, places)
           Fails == {i \in Nat : i <= k /\ ~Holds(i)}
<1>1. Executed(M, steps, k) = f[k] BY Zenon DEF Executed, ExecutedBy
<1>2. ExecutedBy(f, M, steps, k) BY ExecutedExists
<1> HIDE DEF f
<1>3. \A i \in 0..k : f[i] = IF i = 0 THEN t ELSE Perform(f[i - 1], steps[i]) BY <1>2 DEF ExecutedBy
<1>4. Script(t) /\ PutIn(t.disk, M, places) BY DEF Script, Nodes, PutIn
<1> HIDE DEF t
<1>5. ASSUME Fails # {} PROVE FALSE
 <2>1. PICK i \in Fails : \A j \in Fails : ~(j < i) BY <1>5, SmallestOf
 <2>2. i \in 0..k BY <2>1
 <2>3. CASE i = 0 BY <1>3, <1>4, <2>1, <2>2, <2>3
 <2>4. CASE i # 0
  <3>1. i - 1 \in Nat /\ i - 1 <= k /\ i - 1 < i /\ i \in 1..n BY <2>2, <2>4
  <3> DEFINE r == f[i - 1]
             u == f[i]
             step == steps[i]
             v == StepDone(r, step)
  <3>2. Script(r) /\ PutIn(r.disk, M, places) BY <2>1, <3>1
  <3>3. u = Perform(r, step) BY <1>3, <2>2, <2>4
  <3>4. /\ StepOK(step) /\ step.do = "update"
        /\ step.of.path \in places /\ Apt(M, places, step.of.path)
   BY <3>1
  <3> HIDE DEF r, u, step
  <3>5. v.disk = Put(r.disk, step.of.path, "file", step.of.data)
   BY <3>2, <3>4 DEF StepDone, Script
  <3>6. PutIn(v.disk, M, places) BY <3>2, <3>4, <3>5, PutFine
  <3> HIDE DEF v
  <3>7. Script(u) /\ (~r.ok => u = r) /\ (~u.ok => u.disk = r.disk) /\ (r.ok /\ u.ok => u.disk = v.disk)
   BY <3>2, <3>3, <3>4, PerformIs DEF v
  <3>8. PutIn(u.disk, M, places) BY <3>2, <3>6, <3>7, Zenon
  <3> QED BY <2>1, <3>7, <3>8 DEF u
 <2> QED BY <2>3, <2>4
<1>6. Holds(k) BY <1>5
<1> QED BY <1>1, <1>6 DEF PutIn

IsList(list) == \E S : list \in Seq(S)

LEMMA TwoParts ==
    ASSUME NEW a, NEW b, IsList(a), IsList(b)
    PROVE  /\ IsList(a \o b) /\ Len(a \o b) = Len(a) + Len(b) /\ Len(a) \in Nat /\ Len(b) \in Nat
           /\ \A i \in 1..Len(a \o b) :
                 \/ i <= Len(a) /\ (a \o b)[i] = a[i]
                 \/ \E j \in 1..Len(b) : i = Len(a) + j /\ (a \o b)[i] = b[j]
<1>1. PICK U : a \in Seq(U) /\ b \in Seq(U)
 <2>1. PICK S : a \in Seq(S) BY DEF IsList
 <2>2. PICK T : b \in Seq(T) BY DEF IsList
 <2>3. a \in Seq(S \cup T) /\ b \in Seq(S \cup T) BY <2>1, <2>2
 <2> QED BY <2>3
<1> DEFINE s == a \o b
<1>2. /\ Len(s) = Len(a) + Len(b) /\ Len(a) \in Nat /\ Len(b) \in Nat /\ s \in Seq(U)
      /\ \A i \in 1..(Len(a) + Len(b)) : s[i] = IF i <= Len(a) THEN a[i] ELSE b[i - Len(a)]
 BY <1>1, ConcatProperties
<1> HIDE DEF s
<1>3. ASSUME NEW i \in 1..Len(s), ~(i <= Len(a)) PROVE \E j \in 1..Len(b) : i = Len(a) + j /\ s[i] = b[j]
 <2> QED BY <1>2, <1>3
<1>4. \A i \in 1..Len(s) : i <= Len(a) => s[i] = a[i] BY <1>2
<1> QED BY <1>2, <1>3, <1>4 DEF s, IsList

InParts(s, a, b, c) ==
    /\ Len(s) = Len(a) + Len(b) + Len(c) /\ Len(a) \in Nat /\ Len(b) \in Nat /\ Len(c) \in Nat
    /\ \A i \in 1..Len(s) :
          \/ i <= Len(a) /\ s[i] = a[i]
          \/ \E j \in 1..Len(b) : i = Len(a) + j /\ s[i] = b[j]
          \/ \E j \in 1..Len(c) : i = Len(a) + Len(b) + j /\ s[i] = c[j]

LEMMA ThreeParts ==
    ASSUME NEW a, NEW b, NEW c, IsList(a), IsList(b), IsList(c)
    PROVE  InParts(a \o b \o c, a, b, c)
<1> DEFINE d == a \o b
           z == d \o c
<1>1. IsList(d) /\ Len(d) = Len(a) + Len(b) /\ Len(a) \in Nat /\ Len(b) \in Nat BY TwoParts
<1>2. \A i \in 1..Len(d) : \/ i <= Len(a) /\ d[i] = a[i]
                          \/ \E j \in 1..Len(b) : i = Len(a) + j /\ d[i] = b[j]
 BY TwoParts
<1> HIDE DEF d
<1>3. IsList(z) /\ Len(z) = Len(d) + Len(c) /\ Len(c) \in Nat BY <1>1, TwoParts
<1>4. \A i \in 1..Len(z) : \/ i <= Len(d) /\ z[i] = d[i]
                          \/ \E j \in 1..Len(c) : i = Len(d) + j /\ z[i] = c[j]
 <2>1. IsList(d) BY <1>1
 <2> QED BY <2>1, TwoParts
<1> HIDE DEF z
<1>5. a \o b \o c = z BY DEF d, z
<1>6. ASSUME NEW i \in 1..Len(z), i <= Len(d), z[i] = d[i]
      PROVE  \/ i <= Len(a) /\ z[i] = a[i]
             \/ \E j \in 1..Len(b) : i = Len(a) + j /\ z[i] = b[j]
 <2>1. i \in 1..Len(d) BY <1>1, <1>6
 <2> QED BY <1>2, <1>6, <2>1
<1> QED BY <1>1, <1>3, <1>4, <1>5, <1>6 DEF InParts

LEMMA BeginsBoth ==
    ASSUME NEW p \in Seq(Names), NEW q \in Seq(Names)
    PROVE  p \o q \in Seq(Names) /\ IsPrefix(p, p \o q)
<1> DEFINE z == p \o q
<1>1. /\ z \in Seq(Names) /\ Len(z) = Len(p) + Len(q) /\ Len(p) \in Nat /\ Len(q) \in Nat
      /\ \A i \in 1..Len(z) : i <= Len(p) => z[i] = p[i]
 <2> QED BY TwoParts DEF IsList
<1> HIDE DEF z
<1>2. Agree(p, z, Len(p)) BY <1>1 DEF Agree
<1> QED BY <1>1, <1>2, PrefixIs DEF z

\* Below a new name in a folder that there is, everything is free.
LEMMA NewIsFree ==
    ASSUME NEW M, Entries(M), Sound(M), NEW parent \in Seq(Names), NEW name \in Names,
           \A m \in M : ~IsPrefix(Append(parent, name), m.path),
           NEW a \in M, IsPrefix(parent, a.path), Len(a.path) > Len(parent),
           NEW z \in Seq(Names), IsPrefix(Append(parent, name), z)
    PROVE  FreeAt(M, z, FALSE)
<1> DEFINE x == Append(parent, name)
<1>1. x \in Paths /\ x \in Seq(Names) /\ Front(x) = parent
 <2>1. x \in Seq(Names) /\ Len(x) = Len(parent) + 1 /\ Len(parent) \in Nat /\ SubSeq(x, 1, Len(x) - 1) = parent
  OBVIOUS
 <2> HIDE DEF x
 <2> QED BY <2>1 DEF Paths, Front
<1> HIDE DEF x
<1>2. (\A m \in M : ~IsPrefix(x, m.path)) /\ IsPrefix(x, z) BY DEF x
<1>3. \A m \in M : m.path \in Seq(Names) /\ Len(m.path) \in Nat BY DEF Entries, Paths
<1>4. \A m \in M : ~IsPrefix(z, m.path) BY <1>1, <1>2, <1>3, PrefixOn
<1>5. ASSUME NEW m \in M, m.kind = "file", IsPrefix(m.path, z) PROVE FALSE
 <2>1. IsPrefix(m.path, x)
  <3>1. Len(m.path) <= Len(x) \/ Len(x) <= Len(m.path) BY <1>1, <1>3
  <3> QED BY <1>1, <1>2, <1>3, <1>5, <3>1, PrefixOn
 <2>2. IsPrefix(m.path, parent) BY <1>1, <1>2, <1>3, <2>1, FrontOf
 <2>3. IsPrefix(m.path, a.path) /\ Len(m.path) <= Len(parent)
  BY <1>3, <2>2, PrefixOn, PrefixIs DEF Agree
 <2>4. a = m BY <1>5, <2>3 DEF Sound
 <2> QED BY <1>3, <2>3, <2>4
<1> QED BY <1>4, <1>5 DEF FreeAt

LEMMA StepListIs ==
    ASSUME NEW steps, StepList(steps)
    PROVE  Len(steps) \in Nat /\ \A i \in 1..Len(steps) : StepOK(steps[i])
BY DEF StepList

LEMMA RenameSane ==
    ASSUME NEW M, Entries(M), Sane(M), NEW parent \in Seq(Names), NEW old_name \in Names,
           NEW new_name \in Names, NEW trailing, NEW entries, NameList(NamesOf(entries)),
           NEW folder, NEW is_dir,
           \A m \in M : ~IsPrefix(Append(parent, new_name), m.path),
           NamesOf(entries) # <<>> => \E a \in M : IsPrefix(parent, a.path) /\ Len(a.path) > Len(parent)
    PROVE  LET steps == RenameSteps(parent, old_name, new_name, trailing, entries, folder, is_dir)
           IN \A k \in 0..Len(steps) : Sane(Executed(M, steps, k).disk)
<1> DEFINE list == NamesOf(entries)
           n == Len(parent) + 1
           Off(name) == name.rooted /\ parent # <<>> /\ ~trailing
           Renamed(name) ==
              (IF Off(name) THEN parent \o <<new_name, Garbled>> ELSE Append(parent, new_name))
                \o SubSeq(name.path, n + 1, Len(name.path))
           added == IF folder = None \/ folder \in Range(list) THEN <<>> ELSE <<folder>>
           moves == IF is_dir THEN << <<Append(parent, old_name), Append(parent, new_name)>> >>
                    ELSE [i \in DOMAIN list |-> <<list[i].path, Renamed(list[i])>>]
           a == << Do("extract", OrNull(list)), Do("remove", OrNull(added \o list)) >>
           b == [i \in DOMAIN moves |-> Do("move", moves[i])]
           c == IF list = <<>> THEN <<>> ELSE << Do("add", [i \in DOMAIN list |-> Renamed(list[i])]) >>
           steps == RenameSteps(parent, old_name, new_name, trailing, entries, folder, is_dir)
<1>1. steps = a \o b \o c BY Zenon DEF RenameSteps
<1>2. Len(steps) \in Nat /\ \A i \in 1..Len(steps) : StepOK(steps[i]) BY RenameStepsAre, StepListIs
<1>3. DOMAIN list = 1..Len(list) /\ Len(list) \in Nat /\ \A i \in 1..Len(list) : list[i].path \in Paths
 <2>1. list \in Seq(Range(list)) /\ \A i \in DOMAIN list : list[i].path \in Paths
  BY Zenon DEF NameList
 <2> HIDE DEF list
 <2> QED BY <2>1
<1> HIDE DEF steps
<1>4. ASSUME NEW name, name.path \in Paths, list # <<>>
      PROVE  Renamed(name) \in Seq(Names) /\ FreeAt(M, Renamed(name), FALSE)
 <2> DEFINE x == Append(parent, new_name)
            y == SubSeq(name.path, n + 1, Len(name.path))
            g == <<Garbled>>
 <2>1. x \in Seq(Names) /\ g \in Seq(Names) /\ y \in Seq(Names) BY <1>4, EditAssumption DEF Paths
 <2>2. parent \o <<new_name, Garbled>> = x \o g BY EditAssumption
 <2> HIDE DEF x, y, g
 <2>3. /\ x \o g \in Seq(Names) /\ IsPrefix(x, x \o g) /\ x \o y \in Seq(Names) /\ IsPrefix(x, x \o y)
  BY <2>1, BeginsBoth
 <2> DEFINE h == x \o g
 <2>4. h \o y \in Seq(Names) /\ IsPrefix(h, h \o y) BY <2>1, <2>3, BeginsBoth
 <2> HIDE DEF h
 <2>5. h \in Seq(Names) /\ IsPrefix(x, h) BY <2>3 DEF h
 <2>6. IsPrefix(x, h \o y) BY <2>1, <2>4, <2>5, PrefixOn
 <2>7. Renamed(name) = x \o y \/ Renamed(name) = h \o y BY <2>2 DEF x, y, h
 <2> HIDE DEF Renamed
 <2>8. Renamed(name) \in Seq(Names) /\ IsPrefix(x, Renamed(name)) BY <2>3, <2>4, <2>6, <2>7
 <2> QED BY <1>4, <2>8, NewIsFree DEF x, Sane
<1> HIDE DEF Renamed, list, added, moves
<1>5. a \in Seq(Range(a)) /\ Len(a) = 2 /\ a[1].do = "extract" /\ a[2].do = "remove"
 BY DEF Do, Range
<1>6. b \in Seq(Range(b)) /\ \A j \in 1..Len(b) : b[j].do = "move"
 <2>1. DOMAIN moves = 1..Len(moves) /\ Len(moves) \in Nat
  <3>1. CASE is_dir BY <3>1 DEF moves
  <3>2. CASE ~is_dir
   <4> DEFINE g == [i \in 1..Len(list) |-> <<list[i].path, Renamed(list[i])>>]
   <4>1. moves = g BY <1>3, <3>2 DEF moves
   <4>2. DOMAIN g = 1..Len(g) /\ Len(g) \in Nat BY <1>3
   <4> QED BY <4>1, <4>2
  <3> QED BY <3>1, <3>2
 <2>2. \A j \in 1..Len(moves) : b[j].do = "move" BY <2>1 DEF Do
 <2>3. b \in Seq(Range(b)) /\ Len(b) = Len(moves) BY <2>1 DEF Range
 <2> QED BY <2>2, <2>3
<1>7. /\ c \in Seq(Range(c)) /\ Len(c) \in 0..1
      /\ \A j \in 1..Len(c) : c[j].do = "add" /\ \A p \in Range(c[j].of) : p \in Seq(Names) /\ FreeAt(M, p, FALSE)
 <2>1. CASE list = <<>> BY <2>1
 <2>2. CASE list # <<>>
  <3> DEFINE d == [i \in DOMAIN list |-> Renamed(list[i])]
             x == Do("add", d)
  <3>1. \A p \in Range(d) : p \in Seq(Names) /\ FreeAt(M, p, FALSE) BY <1>3, <1>4, <2>2 DEF Range
  <3> HIDE DEF d
  <3>2. x.do = "add" /\ x.of = d BY DEF Do
  <3>3. c = <<x>> BY <2>2 DEF d
  <3> HIDE DEF x, c
  <3>4. c \in Seq(Range(c)) /\ Len(c) \in 0..1 /\ \A j \in 1..Len(c) : c[j] = x BY <3>3 DEF Range
  <3> QED BY <3>1, <3>2, <3>4, Zenon
 <2> QED BY <2>1, <2>2
<1> HIDE DEF a, b, c
<1>8. /\ Len(steps) = 2 + Len(b) + Len(c) /\ Len(b) \in Nat
      /\ \A i \in 1..Len(steps) :
            \/ i <= 2 /\ steps[i] = a[i]
            \/ \E j \in 1..Len(b) : i = 2 + j /\ steps[i] = b[j]
            \/ \E j \in 1..Len(c) : i = 2 + Len(b) + j /\ steps[i] = c[j]
 <2>1. IsList(a) /\ IsList(b) /\ IsList(c) BY <1>5, <1>6, <1>7 DEF IsList
 <2>2. InParts(steps, a, b, c) BY <1>1, <2>1, ThreeParts
 <2> QED BY <1>5, <2>2 DEF InParts
<1>11. ASSUME NEW i \in 1..Len(steps) PROVE Phase(M, steps[i], i, Len(steps), 1, {}, {})
 <2>1. CASE i <= 2 /\ steps[i] = a[i] BY <1>5, <2>1 DEF Phase
 <2>2. CASE \E j \in 1..Len(b) : i = 2 + j /\ steps[i] = b[j] BY <1>6, <2>2 DEF Phase
 <2>3. CASE \E j \in 1..Len(c) : i = 2 + Len(b) + j /\ steps[i] = c[j]
  <3>1. PICK j \in 1..Len(c) : i = 2 + Len(b) + j /\ steps[i] = c[j] BY <2>3
  <3>2. Len(c) = 1 /\ j = 1 BY <1>7, <3>1
  <3>3. i > 1 /\ i = Len(steps) BY <1>8, <3>1, <3>2
  <3>4. steps[i].do = "add" /\ \A p \in Range(steps[i].of) : p \in Seq(Names) /\ FreeAt(M, p, FALSE)
   BY <1>7, <3>1
  <3>5. \A p \in Range(steps[i].of) : FreeAt(M, p, p \in {}) BY <3>4 DEF FreeAt
  <3>6. ~(i < 1) /\ i # 1 /\ i > 1 BY <3>3
  <3> QED BY <3>3, <3>4, <3>5, <3>6, Zenon DEF Phase
 <2> QED BY <1>8, <2>1, <2>2, <2>3
<1>12. Plan(M, Len(steps), 1, {}, {}) BY <1>2 DEF Plan
<1> QED BY <1>2, <1>11, <1>12, ScriptSane DEF steps

NameRecords == [path : Seq(Names), slash : BOOLEAN, rooted : BOOLEAN]

LEMMA PasteSane ==
    ASSUME NEW M, Entries(M), Sane(M), NEW data, DataOK(data), data.files \in Seq(NameRecords),
           NEW current_dir \in Seq(Names),
           \A name \in Range(data.files) :
              FreeAt(M, current_dir \o SubSeq(name.path, Len(data.base_dir) + 1, Len(name.path)), name.slash)
    PROVE  LET steps == PasteSteps(data, current_dir)
           IN \A k \in 0..Len(steps) : Sane(Executed(M, steps, k).disk)
<1> DEFINE n == Len(data.base_dir)
           New(name) == current_dir \o SubSeq(name.path, n + 1, Len(name.path))
           Same(name) == New(name) = name.path /\ ~name.rooted
           those == {name \in Range(data.files) : ~Same(name) /\ ~name.slash}
           moved == Only(data.files, those)
           dirs == {IF name.slash THEN New(name) ELSE Front(New(name)) : name \in Range(data.files)}
           x == Do("folders", dirs)
           y == Do("extract", OrNull(data.files))
           z == Do("remove", data.files)
           a == << x, y >> \o (IF data.op = "CUT" THEN << z >> ELSE <<>>)
           b == [i \in DOMAIN moved |-> Do("move", <<moved[i].path, New(moved[i])>>)]
           c == IF data.files = <<>> THEN <<>>
                ELSE << Do("add", [i \in DOMAIN data.files |-> New(data.files[i])]) >>
           D == {New(name) : name \in {name \in Range(data.files) : name.slash}}
           F == IF D = {} THEN {} ELSE {name.path : name \in {name \in Range(data.files) : ~name.slash}}
           steps == PasteSteps(data, current_dir)
<1>1. steps = a \o b \o c BY Zenon DEF PasteSteps
<1>2. Len(steps) \in Nat /\ \A i \in 1..Len(steps) : StepOK(steps[i])
 <2> QED BY PasteStepsAre, StepListIs
<1> HIDE DEF steps
<1>3. /\ \A name \in Range(data.files) : name.path \in Paths /\ name.slash \in BOOLEAN
      /\ n \in Nat /\ (OrNull(data.files) = data.files \/ data.files = <<>>)
      /\ data.files # None
      /\ DOMAIN data.files = 1..Len(data.files) /\ Len(data.files) \in Nat
 <2>1. NameList(data.files) /\ data.base_dir \in Seq(Names) BY Zenon DEF DataOK
 <2>2. \A name \in Range(data.files) : name.path \in Paths BY <2>1, NameListRange
 <2>3. \A name \in Range(data.files) : name.slash \in BOOLEAN
  <3>1. Range(data.files) \subseteq NameRecords BY DEF Range
  <3> QED BY <3>1 DEF NameRecords
 <2>4. data.files # None BY EditAssumption DEF NameRecords
 <2> QED BY <2>1, <2>2, <2>3, <2>4 DEF OrNull
<1>4. \A name \in Range(data.files) : New(name) \in Seq(Names) /\ FreeAt(M, New(name), name.slash)
 <2> SUFFICES ASSUME NEW name \in Range(data.files) PROVE New(name) \in Seq(Names) OBVIOUS
 <2> DEFINE rest == SubSeq(name.path, n + 1, Len(name.path))
 <2>1. rest \in Seq(Names) BY <1>3 DEF Paths
 <2> HIDE DEF rest
 <2> QED BY <2>1 DEF rest
<1> HIDE DEF New, n
<1>5. D \subseteq dirs /\ D \subseteq Seq(Names) /\ (D = {} => F = {}) /\ F \subseteq Paths
 BY <1>3, <1>4
<1>6. \A name \in Range(data.files) : FreeAt(M, New(name), New(name) \in D) BY <1>3, <1>4 DEF FreeAt
<1>7. F # {} => Mixed(OrNull(data.files), F)
 <2> SUFFICES ASSUME F # {} PROVE Mixed(OrNull(data.files), F) OBVIOUS
 <2>1. \E name \in Range(data.files) : name.slash BY <1>5
 <2>2. OrNull(data.files) = data.files BY <1>3, <2>1 DEF Range
 <2>3. \A f \in F : \E name \in Range(data.files) : name.path = f /\ ~name.slash OBVIOUS
 <2> HIDE DEF F
 <2> QED BY <1>3, <2>1, <2>2, <2>3 DEF Mixed
<1>8. \A name \in those : D = {} \/ name.path \in F OBVIOUS
<1>9. Range(moved) \subseteq those /\ moved \in Seq(Range(data.files)) /\ those \subseteq Range(data.files)
 <2>1. data.files \in Seq(Range(data.files)) BY Zenon, NameListRange DEF DataOK
 <2>2. those \subseteq Range(data.files) OBVIOUS
 <2> HIDE DEF those
 <2>3. moved \in Seq(Range(data.files)) BY <2>1, OnlyIs
 <2>4. Range(moved) = Range(data.files) \cap those BY <2>1, OnlyRange
 <2> QED BY <2>2, <2>3, <2>4
<1> HIDE DEF D, F, those, moved
<1>10. /\ a \in Seq(Range(a)) /\ Len(a) \in 2..3 /\ a[1] = x /\ a[2] = y
       /\ \A i \in 1..Len(a) : i <= 2 \/ a[i] = z
 <2>1. x.do = "folders" /\ y.do = "extract" /\ z.do = "remove" BY DEF Do
 <2> HIDE DEF x, y, z
 <2>2. CASE data.op = "CUT"
  <3>2. a = <<x, y>> \o <<z>> BY <2>2
  <3>3. <<x, y>> \o <<z>> = Append(<<x, y>>, z) /\ <<x, y, z>> = Append(<<x, y>>, z) OBVIOUS
  <3>1. a = <<x, y, z>> BY <3>2, <3>3
  <3> HIDE DEF a
  <3> QED BY <3>1 DEF Range
 <2>3. CASE data.op # "CUT"
  <3>1. a = <<x, y>> BY <2>3
  <3> HIDE DEF a
  <3> QED BY <3>1 DEF Range
 <2> QED BY <2>2, <2>3
<1>11. /\ b \in Seq(Range(b))
       /\ \A j \in 1..Len(b) : b[j].do = "move" /\ (D = {} \/ b[j].of[1] \in F)
 <2>1. DOMAIN moved = 1..Len(moved) /\ Len(moved) \in Nat /\ \A j \in 1..Len(moved) : moved[j] \in Range(moved)
  BY <1>9 DEF Range
 <2>4. DOMAIN b = 1..Len(moved) BY <2>1
 <2>5. b = [j \in 1..Len(moved) |-> b[j]] BY <2>1
 <2>3. \A j \in 1..Len(moved) : b[j].do = "move" /\ b[j].of[1] = moved[j].path BY <2>1 DEF Do
 <2> HIDE DEF b
 <2>2. b \in Seq(Range(b)) /\ Len(b) = Len(moved) BY <2>1, <2>4, <2>5 DEF Range
 <2> QED BY <1>8, <1>9, <2>1, <2>2, <2>3
<1>12. /\ c \in Seq(Range(c)) /\ Len(c) \in 0..1
       /\ \A j \in 1..Len(c) : c[j].do = "add"
                            /\ \A p \in Range(c[j].of) : p \in Seq(Names) /\ FreeAt(M, p, p \in D)
 <2>1. CASE data.files = <<>> BY <2>1
 <2>2. CASE data.files # <<>>
  <3> DEFINE d == [i \in DOMAIN data.files |-> New(data.files[i])]
             q == Do("add", d)
  <3>1. \A p \in Range(d) : p \in Seq(Names) /\ FreeAt(M, p, p \in D) BY <1>4, <1>6 DEF Range
  <3> HIDE DEF d
  <3>2. q.do = "add" /\ q.of = d BY DEF Do
  <3>3. c = <<q>> BY <2>2 DEF d
  <3> HIDE DEF q, c
  <3>4. c \in Seq(Range(c)) /\ Len(c) \in 0..1 /\ \A j \in 1..Len(c) : c[j] = q BY <3>3 DEF Range
  <3> QED BY <3>1, <3>2, <3>4, Zenon
 <2> QED BY <2>1, <2>2
<1> HIDE DEF a, b, c
<1>13. /\ Len(steps) = Len(a) + Len(b) + Len(c) /\ Len(b) \in Nat
       /\ \A i \in 1..Len(steps) :
             \/ i <= Len(a) /\ steps[i] = a[i]
             \/ \E j \in 1..Len(b) : i = Len(a) + j /\ steps[i] = b[j]
             \/ \E j \in 1..Len(c) : i = Len(a) + Len(b) + j /\ steps[i] = c[j]
 <2>1. IsList(a) /\ IsList(b) /\ IsList(c) BY <1>10, <1>11, <1>12 DEF IsList
 <2>2. InParts(steps, a, b, c) BY <1>1, <2>1, ThreeParts
 <2> QED BY <2>2 DEF InParts
<1>14. ASSUME NEW i \in 1..Len(steps) PROVE Phase(M, steps[i], i, Len(steps), 2, D, F)
 <2>1. CASE i <= Len(a) /\ steps[i] = a[i]
  <3>1. CASE i = 1
   <4>1. steps[i].do = "folders" /\ D \subseteq steps[i].of BY <1>5, <1>10, <2>1, <3>1 DEF Do
   <4> QED BY <3>1, <4>1 DEF Phase
  <3>2. CASE i = 2
   <4>1. steps[i].do = "extract" /\ steps[i].of = OrNull(data.files) BY <1>10, <2>1, <3>2 DEF Do
   <4> QED BY <1>7, <3>2, <4>1 DEF Phase
  <3>3. CASE i > 2
   <4>1. steps[i].do = "remove" BY <1>10, <2>1, <3>3 DEF Do
   <4> QED BY <3>3, <4>1 DEF Phase
  <3> QED BY <3>1, <3>2, <3>3
 <2>2. CASE \E j \in 1..Len(b) : i = Len(a) + j /\ steps[i] = b[j]
  <3>1. PICK j \in 1..Len(b) : i = Len(a) + j /\ steps[i] = b[j] BY <2>2
  <3>2. i > 2 /\ ~(i < 2) /\ i # 2 BY <1>10, <3>1
  <3> QED BY <1>11, <3>1, <3>2, Zenon DEF Phase
 <2>3. CASE \E j \in 1..Len(c) : i = Len(a) + Len(b) + j /\ steps[i] = c[j]
  <3>1. PICK j \in 1..Len(c) : i = Len(a) + Len(b) + j /\ steps[i] = c[j] BY <2>3
  <3>2. Len(c) = 1 /\ j = 1 BY <1>12, <3>1
  <3>3. i = Len(steps) /\ i > 2 /\ ~(i < 2) /\ i # 2 BY <1>10, <1>13, <3>1, <3>2
  <3> QED BY <1>12, <3>1, <3>3, Zenon DEF Phase
 <2> QED BY <1>13, <2>1, <2>2, <2>3
<1>15. Plan(M, Len(steps), 2, D, F) BY <1>2, <1>5 DEF Plan
<1> QED BY <1>2, <1>14, <1>15, ScriptSane DEF steps

----
(* The archive stays one until something is pasted, or saved, over what is there; and what the
   script that runs leaves of it is one, wherever it stops. *)

CopyOK(c) == c.copy_data # None => c.copy_data.files \in Seq(NameRecords)
KeepsSane(members, steps) == \A k \in 0..Len(steps) : Sane(Executed(members, steps, k).disk)

SaneInv ==
    /\ CopyOK(e)
    /\ "over" \notin e.excuses =>
          Sane(disk) /\ (Runs(e) /\ e.op.kind \notin Reading => KeepsSane(disk, e.op.steps))

\* The archive is left as it is, and no script begun that changes it.
LEMMA SaneLeft ==
    ASSUME SaneInv, disk' = disk, CopyOK(e'), "over" \in e.excuses => "over" \in e'.excuses,
           e'.op = e.op \/ ~Runs(e') \/ e'.op.kind \in Reading
    PROVE  SaneInv'
<1>1. CASE e'.op = e.op
 <2>1. Runs(e') = Runs(e) BY <1>1 DEF Runs
 <2> QED BY <1>1, <2>1 DEF SaneInv
<1>2. CASE ~Runs(e') \/ e'.op.kind \in Reading BY <1>2 DEF SaneInv
<1> QED BY <1>1, <1>2

LEMMA BegunSane ==
    ASSUME SaneInv, NEW c, DOMAIN c = EditFields, CopyOK(c), c.excuses = e.excuses, e.excuses = {},
           NEW kind, NEW steps, NEW apart, NEW excuses, Begin(c, kind, steps, apart, excuses),
           kind \notin Reading => ("over" \notin excuses => KeepsSane(disk, steps))
    PROVE  SaneInv'
<1> DEFINE op == [kind |-> kind, steps |-> steps, apart |-> apart]
           y == c.excuses \cup excuses
<1>1. op.kind = kind /\ op.steps = steps OBVIOUS
<1>2. PICK x : e' = [c EXCEPT !.edits = x, !.op = op, !.excuses = y] BY DEF Begin
<1> HIDE DEF op, y
<1>3. e'.op = op /\ e'.excuses = y /\ e'.copy_data = c.copy_data BY <1>2 DEF EditFields
<1>4. "over" \in y <=> "over" \in excuses BY DEF y
<1>5. CopyOK(e') BY <1>3 DEF CopyOK
<1>6. Sane(disk) /\ disk' = disk BY DEF SaneInv, Begin
<1>7. "over" \notin e'.excuses /\ e'.op.kind \notin Reading => KeepsSane(disk, e'.op.steps)
 BY <1>1, <1>3, <1>4
<1> QED BY <1>5, <1>6, <1>7 DEF SaneInv

\* What the window shows when something may be asked of it.
LEMMA SeenIs ==
    ASSUME IInv, MayEdit
    PROVE  /\ Range(w.files) = disk /\ Sees(w) /\ w.rows_live /\ w.archive_present
           /\ e.excuses = {} /\ Window(w) /\ Read(w) /\ Edit(e) /\ DOMAIN e = EditFields /\ Entries(disk)
<1>1. ~w.loading /\ ~Stuck /\ w.archive_present /\ e.excuses = {} BY CountIs DEF MayEdit, Going
<1>2. Range(w.files) = disk /\ Sees(w) BY <1>1 DEF IInv, Follows
<1> QED BY <1>1, <1>2 DEF IInv, Sees, Edit

LEMMA ClipboardRemoveSane ==
    ASSUME NEW c, Edit(c), CopyOK(c), NEW names
    PROVE  LET d == ClipboardRemove(c, names)
           IN CopyOK(d) /\ d.excuses = c.excuses /\ DOMAIN d = EditFields
<1>1. DOMAIN c = EditFields BY DEF Edit
<1>2. CASE c.copy_data = None BY <1>1, <1>2 DEF ClipboardRemove
<1>3. CASE c.copy_data # None
 <2> DEFINE left == Only(c.copy_data.files, Range(c.copy_data.files) \ Range(names))
            fewer == [c.copy_data EXCEPT !.files = left]
            data == IF names = <<>> \/ left = <<>> THEN None ELSE fewer
            d == [c EXCEPT !.copy_data = data]
 <2>1. ClipboardRemove(c, names) = d BY <1>3, Zenon DEF ClipboardRemove
 <2>2. "files" \in DOMAIN c.copy_data /\ c.copy_data.files \in Seq(NameRecords)
  BY <1>3 DEF Edit, CopyOK
 <2>3. left \in Seq(NameRecords) BY <2>2, OnlyIs
 <2> HIDE DEF left
 <2>4. fewer.files = left BY <2>2
 <2> HIDE DEF fewer
 <2>5. data # None => data.files = left BY <2>4
 <2> HIDE DEF data
 <2>6. DOMAIN d = EditFields /\ d.copy_data = data /\ d.excuses = c.excuses BY <1>1 DEF EditFields
 <2> HIDE DEF d
 <2>7. CopyOK(d) BY <2>3, <2>5, <2>6 DEF CopyOK
 <2> QED BY <2>1, <2>6, <2>7
<1> QED BY <1>2, <1>3

LEMMA DeleteSane ==
    ASSUME IInv, SaneInv, Delete PROVE SaneInv'
<1>1. e.excuses = {} /\ Edit(e) /\ Entries(disk) BY SeenIs DEF Delete
<1>2. PICK names, asked, excuses :
        Begin([ClipboardRemove(e, names) EXCEPT !.asked = asked],
                "delete", << Do("remove", OrNull(names)) >>, 0, excuses)
 BY DEF Delete
<1> DEFINE r == ClipboardRemove(e, names)
           c == [r EXCEPT !.asked = asked]
           step == Do("remove", OrNull(names))
           steps == <<step>>
<1>3. CopyOK(r) /\ r.excuses = e.excuses /\ DOMAIN r = EditFields
 BY <1>1, ClipboardRemoveSane DEF SaneInv
<1>4. Begin(c, "delete", steps, 0, excuses) BY <1>2
<1> HIDE DEF r
<1>5. CopyOK(c) /\ c.excuses = e.excuses /\ DOMAIN c = EditFields BY <1>3 DEF CopyOK, EditFields
<1> HIDE DEF c
<1>6. StepOK(step) /\ step.do = "remove" BY PlainSteps DEF Do
<1> HIDE DEF step
<1>7. Sane(disk) BY <1>1 DEF SaneInv
<1>8. KeepsSane(disk, steps)
 <2>1. Len(steps) = 1 /\ steps[1] = step OBVIOUS
 <2> HIDE DEF steps
 <2>2. Plan(disk, 1, 0, {}, {}) BY <1>1, <1>7 DEF Plan
 <2>3. \A i \in 1..1 : StepOK(steps[i]) /\ Phase(disk, steps[i], i, 1, 0, {}, {})
  BY <1>6, <2>1 DEF Phase
 <2>4. \A k \in 0..1 : Sane(Executed(disk, steps, k).disk) BY <2>2, <2>3, ScriptSane
 <2> QED BY <2>1, <2>4 DEF KeepsSane
<1> HIDE DEF steps
<1> QED BY <1>1, <1>4, <1>5, <1>8, BegunSane

LEMMA RenameToSane ==
    ASSUME IInv, SaneInv, MayEdit, NEW path \in Paths, NEW trailing,
           NEW entries, NameList(NamesOf(entries)), NEW folder, NEW is_dir, NEW excuses,
           RenameTo(path, trailing, entries, folder, is_dir, excuses),
           NamesOf(entries) # <<>> => \E a \in disk : IsPrefix(path, a.path)
    PROVE  SaneInv'
<1>0. PICK new_name \in NewNames :
        /\ MayBecome(Front(path), Last(path), new_name)
        /\ \E removed : Begin(ClipboardRemove(e, removed), "rename",
              RenameSteps(Front(path), Last(path), new_name, trailing, entries, folder, is_dir),
              0, excuses)
 BY DEF RenameTo
<1>1. PICK removed :
        Begin(ClipboardRemove(e, removed), "rename",
              RenameSteps(Front(path), Last(path), new_name, trailing, entries, folder, is_dir),
              0, excuses)
 BY <1>0
<1> DEFINE parent == Front(path)
           steps == RenameSteps(parent, Last(path), new_name, trailing, entries, folder, is_dir)
           c == ClipboardRemove(e, removed)
<1>2. Range(w.files) = disk /\ e.excuses = {} /\ Edit(e) /\ Entries(disk) BY SeenIs
<1>3. /\ parent \in Seq(Names) /\ Len(parent) = Len(path) - 1 /\ Len(path) \in Nat /\ IsPrefix(parent, path)
      /\ path \in Seq(Names) /\ Last(path) \in Names
 <2> QED BY FrontOf DEF Paths, Last
<1>4. new_name \in Names BY BrowseAssumption
<1>5. \A m \in disk : ~IsPrefix(Append(parent, new_name), m.path) BY <1>0, <1>2 DEF MayBecome
<1>6. Begin(c, "rename", steps, 0, excuses) BY <1>1
<1>7. CopyOK(c) /\ c.excuses = e.excuses /\ DOMAIN c = EditFields
 BY <1>2, ClipboardRemoveSane DEF SaneInv
<1> HIDE DEF c, parent
<1>8. NamesOf(entries) # <<>> => \E a \in disk : IsPrefix(parent, a.path) /\ Len(a.path) > Len(parent)
 <2> SUFFICES ASSUME NEW a \in disk, IsPrefix(path, a.path)
              PROVE  IsPrefix(parent, a.path) /\ Len(a.path) > Len(parent)
  OBVIOUS
 <2>1. a.path \in Seq(Names) /\ Len(a.path) \in Nat BY <1>2 DEF Entries, Paths
 <2>2. IsPrefix(parent, a.path) BY <1>3, <2>1, PrefixOn
 <2>3. Len(path) <= Len(a.path) BY <1>3, <2>1, PrefixIs DEF Agree
 <2> QED BY <1>3, <2>1, <2>2, <2>3
<1>9. Sane(disk) BY <1>2 DEF SaneInv
<1>10. KeepsSane(disk, steps) BY <1>2, <1>3, <1>4, <1>5, <1>8, <1>9, RenameSane DEF KeepsSane
<1> HIDE DEF steps
<1> QED BY <1>2, <1>6, <1>7, <1>10, BegunSane

\* What is listed of a folder is below it.
LEMMA ListedBelow ==
    ASSUME NEW s, Window(s), NEW path, NamesOf(Listed(s, DirList(s, path))) # <<>>
    PROVE  \E a \in Range(s.files) : IsPrefix(path, a.path)
<1>1. DirList(s, path) \subseteq Range(s.files) BY DEF DirList
<1> QED BY <1>1, ListedNames DEF DirList, Inside

LEMMA RenameRowSane ==
    ASSUME IInv, SaneInv, RenameRow PROVE SaneInv'
<1>1. MayEdit /\ Range(w.files) = disk /\ w.rows_live /\ Window(w) /\ Read(w) /\ Entries(disk)
 BY SeenIs DEF RenameRow
<1>0. PICK row \in w.selected :
        \E trailing, folder, is_dir, excuses :
        /\ is_dir = (IsDir(row.entry) \/ ListName(w, row.entry).list_dir)
        /\ RenameTo(RenamePath(w, row), trailing,
                    IF is_dir THEN Listed(w, DirList(w, RenamePath(w, row))) ELSE <<row.entry>>,
                    folder, is_dir, excuses)
 BY Zenon DEF RenameRow
<1>2. PICK trailing, folder, is_dir, excuses :
        /\ is_dir = (IsDir(row.entry) \/ ListName(w, row.entry).list_dir)
        /\ RenameTo(RenamePath(w, row), trailing,
                    IF is_dir THEN Listed(w, DirList(w, RenamePath(w, row))) ELSE <<row.entry>>,
                    folder, is_dir, excuses)
 BY <1>0
<1> DEFINE path == RenamePath(w, row)
           listed == Listed(w, DirList(w, path))
           entries == IF is_dir THEN listed ELSE <<row.entry>>
<1>3. path \in Paths /\ row.entry.path \in Paths BY <1>1, RenamePathIs
<1>4. RenameTo(path, trailing, entries, folder, is_dir, excuses) BY <1>2
<1>5. ~is_dir => path = row.entry.path BY <1>2, Zenon DEF RenamePath
<1>6. row.entry \in disk BY <1>1 DEF Read
<1> HIDE DEF path
<1>7. NameList(NamesOf(listed)) /\ (NamesOf(listed) # <<>> => \E a \in disk : IsPrefix(path, a.path))
 BY <1>1, NamesOfIs, ListedBelow
<1> HIDE DEF listed
<1>8. NameList(NamesOf(<<row.entry>>))
 <2> DEFINE x == Name(row.entry)
            S == {x}
 <2>1. NamesOf(<<row.entry>>) = <<x>> BY DEF NamesOf
 <2>2. x.path \in Paths BY <1>3 DEF Name
 <2> HIDE DEF x
 <2>3. <<x>> \in Seq(S) /\ \A z \in S : z.path \in Paths BY <2>2
 <2> HIDE DEF S
 <2>4. NameList(<<x>>) BY <2>3, NameListOf
 <2> QED BY <2>1, <2>4
<1>9. NameList(NamesOf(entries)) BY <1>7, <1>8
<1>10. NamesOf(entries) # <<>> => \E a \in disk : IsPrefix(path, a.path)
 BY <1>3, <1>5, <1>6, <1>7, FrontOf
<1> HIDE DEF entries
<1> QED BY <1>1, <1>3, <1>4, <1>9, <1>10, RenameToSane

LEMMA RenameFolderSane ==
    ASSUME IInv, SaneInv, RenameFolder PROVE SaneInv'
<1>1. MayEdit /\ Range(w.files) = disk /\ Window(w) BY SeenIs DEF RenameFolder
<1> DEFINE entries == Listed(w, DirList(w, w.tree_selection))
<1>2. PICK excuses : RenameTo(w.tree_selection, FALSE, entries, None, TRUE, excuses)
 BY Zenon DEF RenameFolder
<1>3. w.tree_selection \in Paths BY <1>1 DEF RenameFolder, Window, Paths
<1>4. /\ NameList(NamesOf(entries))
      /\ NamesOf(entries) # <<>> => \E a \in disk : IsPrefix(w.tree_selection, a.path)
 BY <1>1, NamesOfIs, ListedBelow
<1> HIDE DEF entries
<1> QED BY <1>1, <1>2, <1>3, <1>4, RenameToSane

\* What is copied are the names of members.
LEMMA CopyOrCutSane ==
    ASSUME IInv, SaneInv, CopyOrCut PROVE SaneInv'
<1>1. Range(w.files) = disk /\ Window(w) /\ DOMAIN e = EditFields /\ Entries(disk) /\ disk' = disk
 BY SeenIs DEF CopyOrCut
<1>0. \E entries, op, dir : e' = [e EXCEPT !.clipboard = TRUE,
             !.copy_data = [files |-> Reverse(NamesOf(Listed(w, entries))), op |-> op,
                            base_dir |-> dir, pasted |-> FALSE]]
 BY Zenon DEF CopyOrCut
<1>2. PICK entries, op, dir : e' = [e EXCEPT !.clipboard = TRUE,
             !.copy_data = [files |-> Reverse(NamesOf(Listed(w, entries))), op |-> op,
                            base_dir |-> dir, pasted |-> FALSE]]
 BY <1>0
<1> DEFINE names == NamesOf(Listed(w, entries))
           data == [files |-> Reverse(names), op |-> op, base_dir |-> dir, pasted |-> FALSE]
<1>3. names \in Seq(NameRecords)
 <2> DEFINE list == Listed(w, entries)
 <2>1. list \in Seq(disk) BY <1>1, OnlyIs DEF Listed, Window
 <2> HIDE DEF list
 <2>2. \A m \in disk : Name(m) \in NameRecords
  <3> TAKE m \in disk
  <3> QED BY <1>1 DEF Entries, Paths, Slash, Name, NameRecords
 <2>3. DOMAIN list = 1..Len(list) /\ Len(list) \in Nat /\ \A i \in 1..Len(list) : list[i] \in disk
  BY <2>1
 <2>4. NamesOf(list) = [i \in 1..Len(list) |-> Name(list[i])] BY <2>3 DEF NamesOf
 <2> QED BY <2>2, <2>3, <2>4 DEF list
<1> HIDE DEF names
<1>4. data.files = Reverse(names) OBVIOUS
<1>5. e' = [e EXCEPT !.clipboard = TRUE, !.copy_data = data] BY <1>2 DEF names
<1> HIDE DEF data
<1>6. e'.op = e.op /\ e'.excuses = e.excuses /\ e'.copy_data = data BY <1>1, <1>5 DEF EditFields
<1>7. Reverse(names) \in Seq(NameRecords) BY <1>3 DEF Reverse
<1>8. CopyOK(e') BY <1>4, <1>6, <1>7 DEF CopyOK
<1> QED BY <1>1, <1>6, <1>8, SaneLeft

\* The steps that change neither the archive nor what is copied.
LEMMA OtherwiseSane ==
    ASSUME IInv, SaneInv, disk' = disk, e'.copy_data \in {e.copy_data, None}, e'.excuses = e.excuses,
           e'.op = e.op \/ e'.op = NoOp \/ e'.op.kind \in Reading
    PROVE  SaneInv'
<1>1. CopyOK(e') BY DEF SaneInv, CopyOK
<1>2. e'.op = NoOp => ~Runs(e') BY DEF NoOp, Runs
<1> QED BY <1>1, <1>2, SaneLeft

LEMMA FinishSane ==
    ASSUME IInv, SaneInv, Finish PROVE SaneInv'
<1>1. DOMAIN e = EditFields /\ Runs(e) /\ e.op.kind \notin Reading BY DEF IInv, Edit, Finish
<1>2. PICK k \in 0..Len(e.op.steps) :
        /\ disk' = Executed(disk, e.op.steps, k).disk
        /\ \E x, y : e' = [e EXCEPT !.op = NoOp, !.updating = {}, !.unsaved = x, !.excuses = @ \cup y]
 BY Zenon DEF Finish
<1>3. PICK x, y : e' = [e EXCEPT !.op = NoOp, !.updating = {}, !.unsaved = x, !.excuses = @ \cup y]
 BY <1>2
<1>4. e'.op = NoOp /\ e'.copy_data = e.copy_data /\ e.excuses \subseteq e'.excuses
 BY <1>1, <1>3 DEF EditFields
<1>5. "over" \notin e'.excuses => Sane(disk') BY <1>1, <1>2, <1>4 DEF SaneInv, KeepsSane
<1>6. ~Runs(e') BY <1>4 DEF NoOp, Runs
<1>7. CopyOK(e') BY <1>4 DEF SaneInv, CopyOK
<1> QED BY <1>5, <1>6, <1>7 DEF SaneInv

\* What is pasted over nothing.
LEMMA PastedSane ==
    ASSUME IInv, SaneInv, Paste PROVE SaneInv'
<1>1. e.excuses = {} /\ Edit(e) /\ DOMAIN e = EditFields /\ Window(w) /\ Entries(disk) /\ Sane(disk)
 BY SeenIs DEF Paste, SaneInv
<1>2. CASE e' = [e EXCEPT !.crashed = TRUE] /\ UNCHANGED <<disk, w>>
 <2>1. e'.copy_data = e.copy_data /\ e'.excuses = e.excuses /\ e'.op = e.op
  BY <1>1, <1>2 DEF EditFields
 <2> QED BY <1>2, <2>1, OtherwiseSane
<1> DEFINE cut == e.copy_data.op = "CUT"
           data == [e.copy_data EXCEPT !.pasted = cut]
           c == [e EXCEPT !.copy_data.pasted = cut]
           apart == IF cut THEN 3 ELSE 2
           New(dir, name) == dir \o SubSeq(name.path, Len(e.copy_data.base_dir) + 1, Len(name.path))
           Over(dir) == UNION {InTheWay(New(dir, name), name.slash) : name \in Range(e.copy_data.files)}
<1>3. ASSUME e.copy_data # None, NEW dir \in {Location(w)} \cup {<<name>> : name \in NewNames}, NEW excuses,
             Begin(c, "paste", PasteSteps(e.copy_data, dir), apart, excuses),
             "over" \notin excuses => Over(dir) = {}
      PROVE  SaneInv'
 <2>1. DataOK(e.copy_data) /\ e.copy_data.files \in Seq(NameRecords)
  BY <1>1, <1>3 DEF Edit, DataOK, SaneInv, CopyOK
 <2>2. dir \in Seq(Names)
  <3>1. Location(w) \in Seq(Names) BY <1>1, LocationTyped
  <3>2. \A name \in NewNames : <<name>> \in Seq(Names) BY BrowseAssumption
  <3> QED BY <3>1, <3>2
 <2>3. data.files = e.copy_data.files BY <2>1 DEF DataOK
 <2>4. c.copy_data = data /\ DOMAIN c = EditFields /\ c.excuses = e.excuses BY <1>1 DEF EditFields
 <2> HIDE DEF c, data
 <2>5. CopyOK(c) BY <2>1, <2>3, <2>4 DEF CopyOK
 <2>6. ASSUME "over" \notin excuses PROVE KeepsSane(disk, PasteSteps(e.copy_data, dir))
  <3>1. \A name \in Range(e.copy_data.files) : InTheWay(New(dir, name), name.slash) = {}
   BY <1>3, <2>6
  <3>2. \A name \in Range(e.copy_data.files) : FreeAt(disk, New(dir, name), name.slash)
   <4> HIDE DEF New
   <4> QED BY <3>1 DEF InTheWay, FreeAt
  <3> QED BY <1>1, <2>1, <2>2, <3>2, PasteSane DEF KeepsSane
 <2> HIDE DEF apart, Over
 <2> QED BY <1>1, <1>3, <2>4, <2>5, <2>6, BegunSane
<1>4. \/ e' = [e EXCEPT !.crashed = TRUE] /\ UNCHANGED <<disk, w>>
      \/ /\ e.copy_data # None
         /\ \E dir \in {Location(w)} \cup {<<name>> : name \in NewNames} :
               \E excuses : /\ "over" \notin excuses => Over(dir) = {}
                            /\ Begin(c, "paste", PasteSteps(e.copy_data, dir), apart, excuses)
 <2>0. PICK dir \in {Location(w)} \cup {<<name>> : name \in NewNames} :
         LET gone == {name \in Range(e.copy_data.files) : ~IsPrefix(e.copy_data.base_dir, name.path)}
             moved == {m \in disk : m.kind = "folder" /\ Name(m) \in Range(e.copy_data.files)}
         IN IF e.copy_data = None \/ (e.copy_data.op = "CUT" /\ e.copy_data.files = <<>>)
            THEN e' = [e EXCEPT !.crashed = TRUE] /\ UNCHANGED <<disk, w>>
            ELSE Begin(c, "paste", PasteSteps(e.copy_data, dir), apart,
                       (IF Over(dir) # {} THEN {"over"} ELSE {}) \cup (IF gone # {} THEN {"gone"} ELSE {})
                         \cup (IF moved # {} /\ e.copy_data.op = "CUT" THEN {"moved"} ELSE {})
                         \cup (IF \E name \in Range(e.copy_data.files) : name.rooted THEN {"rooted"} ELSE {}))
  BY Zenon DEF Paste
 <2>1. PICK a, b, x : \/ e' = [e EXCEPT !.crashed = TRUE] /\ UNCHANGED <<disk, w>>
                      \/ /\ e.copy_data # None
                         /\ Begin(c, "paste", PasteSteps(e.copy_data, dir), apart,
                              (IF Over(dir) # {} THEN {"over"} ELSE {}) \cup a \cup b \cup x)
  BY <2>0, Zenon
 <2> DEFINE excuses == (IF Over(dir) # {} THEN {"over"} ELSE {}) \cup a \cup b \cup x
 <2>2. "over" \notin excuses => Over(dir) = {} OBVIOUS
 <2> HIDE DEF c, apart, Over
 <2>3. \/ e' = [e EXCEPT !.crashed = TRUE] /\ UNCHANGED <<disk, w>>
       \/ e.copy_data # None /\ Begin(c, "paste", PasteSteps(e.copy_data, dir), apart, excuses)
  BY <2>1
 <2> HIDE DEF excuses
 <2> QED BY <2>2, <2>3
<1> HIDE DEF c, apart, Over
<1> QED BY <1>2, <1>3, <1>4

\* What is saved over the members it was opened from.
LEMMA UpdatedSane ==
    ASSUME IInv, SaneInv, Update PROVE SaneInv'
<1>1. e.excuses = {} /\ Edit(e) /\ DOMAIN e = EditFields /\ Entries(disk) /\ Sane(disk)
 BY SeenIs DEF Update, SaneInv
<1>2. CASE e' = [e EXCEPT !.crashed = TRUE] /\ UNCHANGED <<disk, w>>
 <2>1. e'.copy_data = e.copy_data /\ e'.excuses = e.excuses /\ e'.op = e.op
  BY <1>1, <1>2 DEF EditFields
 <2> QED BY <1>2, <2>1, OtherwiseSane
<1> DEFINE Step(f) == Do("update", [path |-> f.path.path, rooted |-> f.path.rooted,
                                    data |-> e.temps[f.temp][f.path]])
<1>3. \A f \in e.open_files : /\ StepOK(Step(f)) /\ Step(f).do = "update" /\ Step(f).of.path = f.path.path
                              /\ f.path.path \in Seq(Names)
 BY <1>1 DEF Edit, StepOK, Do, Paths
<1> HIDE DEF Step
<1> DEFINE c(files) == [e EXCEPT !.dialog = {}, !.updating = files]
           steps(files) == [i \in DOMAIN SetToSeq(files) |-> Step(SetToSeq(files)[i])]
           over(files) == \E f \in files : Displaced(f, files)
           x(files) == IF over(files) THEN {"over"} ELSE {}
<1>4. \/ e' = [e EXCEPT !.crashed = TRUE] /\ UNCHANGED <<disk, w>>
      \/ \E files \in SUBSET e.open_files : Begin(c(files), "update", steps(files), 0, x(files))
 <2>1. PICK files \in (SUBSET e.dialog) \ {{}} :
         IF files \subseteq e.open_files
         THEN Begin(c(files), "update", steps(files), 0, x(files))
         ELSE e' = [e EXCEPT !.crashed = TRUE] /\ UNCHANGED <<disk, w>>
  BY Zenon DEF Update, Step
 <2> HIDE DEF c, steps, x
 <2> QED BY <2>1
<1>5. ASSUME NEW files \in SUBSET e.open_files, Begin(c(files), "update", steps(files), 0, x(files))
      PROVE  SaneInv'
 <2> DEFINE d == c(files)
            list == SetToSeq(files)
            g == [i \in DOMAIN list |-> Step(list[i])]
            places == {f.path.path : f \in files}
 <2>1. DOMAIN d = EditFields /\ d.excuses = e.excuses /\ d.copy_data = e.copy_data
  BY <1>1 DEF EditFields
 <2>2. Begin(d, "update", g, 0, x(files)) BY <1>5
 <2> HIDE DEF d
 <2>3. CopyOK(d) BY <2>1 DEF SaneInv, CopyOK
 <2>4. list \in Seq(files)
  <3> QED BY <1>1, FS_Subset, SetInOrder DEF Edit
 <2> HIDE DEF list
 <2>5. /\ DOMAIN list = 1..Len(list) /\ Len(list) \in Nat
       /\ \A i \in 1..Len(list) : list[i] \in files
  BY <2>4
 <2>6. Len(g) = Len(list) /\ \A i \in 1..Len(list) : g[i] = Step(list[i]) BY <2>5
 <2> HIDE DEF g
 <2>7. ASSUME "over" \notin x(files) PROVE KeepsSane(disk, g)
  <3>1. \A f \in files : ~Displaced(f, files) BY <2>7
  <3>2. ASSUME NEW f \in files PROVE Apt(disk, places, f.path.path)
   <4>1. \A m \in disk : (m.kind = "file" /\ IsPrefix(m.path, f.path.path)) \/ IsPrefix(f.path.path, m.path)
                           => m.path = f.path.path
    <5> TAKE m \in disk
    <5> SUFFICES ASSUME m \in InTheWay(f.path.path, FALSE) PROVE m.path = f.path.path
     BY DEF InTheWay
    <5>1. Name(m) = f.path BY <3>1, <3>2 DEF Displaced
    <5> QED BY <5>1 DEF Name
   <4>2. \A h \in files : ~IsStrictPrefix(h.path.path, f.path.path) /\ ~IsStrictPrefix(f.path.path, h.path.path)
    BY <3>1, <3>2 DEF Displaced
   <4>3. \A q \in places : IsPrefix(q, f.path.path) \/ IsPrefix(f.path.path, q) => q = f.path.path
    BY <4>2 DEF IsStrictPrefix
   <4> QED BY <4>1, <4>3 DEF Apt
  <3>3. \A i \in 1..Len(list) : /\ StepOK(g[i]) /\ g[i].do = "update" /\ g[i].of.path \in places
                                /\ Apt(disk, places, g[i].of.path)
   BY <1>3, <2>5, <2>6, <3>2
  <3> HIDE DEF places
  <3>4. \A k \in 0..Len(list) : Sane(Executed(disk, g, k).disk) BY <1>1, <2>5, <3>3, UpdateSane
  <3> QED BY <2>6, <3>4 DEF KeepsSane
 <2> HIDE DEF x
 <2> QED BY <1>1, <2>1, <2>2, <2>3, <2>7, BegunSane
<1> HIDE DEF c, steps, x
<1> QED BY <1>2, <1>4, <1>5

LEMMA BrowseSane ==
    ASSUME IInv, SaneInv, BrowseStep PROVE SaneInv'
<1>1. DOMAIN e = EditFields /\ e' \in {e, Closed(e)} BY DEF IInv, Edit, BrowseStep
<1>2. e'.op = e.op /\ e'.copy_data \in {e.copy_data, None} /\ e'.excuses = e.excuses
 BY <1>1 DEF Closed, EditFields
<1>3. disk' = disk
 <2>1. Browse => disk' = disk BY BrowseSame
 <2>2. ReadMember \/ EndLoad \/ ThemeChanged \/ IconsChanged => disk' = disk
  BY Zenon DEF ReadMember, EndLoad, ThemeChanged, IconsChanged
 <2> QED BY <2>1, <2>2, Zenon DEF BrowseStep
<1> QED BY <1>2, <1>3, OtherwiseSane

\* Files opened, and what is asked about them.
LEMMA OpenedSane ==
    ASSUME IInv, SaneInv, OpenFiles \/ FilesOpened \/ Modified \/ CancelUpdate PROVE SaneInv'
<1>1. DOMAIN e = EditFields BY DEF IInv, Edit
<1>2. CASE OpenFiles
 <2>1. PICK steps : Begin(e, "open", steps, 0, {}) BY <1>2, Zenon DEF OpenFiles
 <2>2. e.excuses = {} /\ "open" \in Reading BY <1>2, SeenIs DEF OpenFiles, Reading
 <2> QED BY <1>1, <2>1, <2>2, BegunSane DEF SaneInv
<1>3. CASE FilesOpened
 <2>1. PICK x, y : \/ e' = [e EXCEPT !.op = NoOp, !.open_files = x, !.temps = y]
                   \/ e' = [e EXCEPT !.op = NoOp]
  BY <1>3 DEF FilesOpened
 <2> QED BY <1>1, <1>3, <2>1, OtherwiseSane DEF EditFields, FilesOpened
<1>4. CASE Modified \/ CancelUpdate
 <2>1. PICK x, y : e' = [e EXCEPT !.temps = x, !.dialog = y] \/ e' = [e EXCEPT !.dialog = {}]
  BY <1>4 DEF Modified, CancelUpdate
 <2> QED BY <1>1, <1>4, <2>1, OtherwiseSane DEF EditFields, Modified, CancelUpdate
<1> QED BY <1>2, <1>3, <1>4

\* A drag changes nothing; what it extracts is begun when it ends.
LEMMA DraggedSane ==
    ASSUME IInv, SaneInv, DragRows \/ DragFolder \/ ListDragDataGet \/ TreeDragDataGet \/ DragEnd \/ DraggedOut
    PROVE  SaneInv'
<1>1. DOMAIN e = EditFields /\ disk' = disk
 BY DEF IInv, Edit, DragRows, DragFolder, ListDragDataGet, TreeDragDataGet, DragEnd, DraggedOut, Begin
<1>2. CASE DragRows \/ DragFolder \/ ListDragDataGet \/ TreeDragDataGet
 <2>1. PICK x, y, z, v : \/ e' = [e EXCEPT !.destination = x, !.drag = y]
                         \/ e' = [e EXCEPT !.drag.asked = TRUE, !.drag_error = TRUE]
                         \/ e' = [e EXCEPT !.drag.asked = TRUE, !.drag.remade = x, !.destination = y,
                                           !.drag_list = z]
  <3>1. DragRows \/ DragFolder => \E x, y : e' = [e EXCEPT !.destination = x, !.drag = y]
   BY Zenon DEF DragRows, DragFolder, DragBegun
  <3>2. ListDragDataGet \/ TreeDragDataGet =>
          \/ e' = [e EXCEPT !.drag.asked = TRUE, !.drag_error = TRUE]
          \/ \E x, y, z : e' = [e EXCEPT !.drag.asked = TRUE, !.drag.remade = x, !.destination = y,
                                         !.drag_list = z]
   <4>1. ASSUME NEW list, Answered(list)
         PROVE  \/ e' = [e EXCEPT !.drag.asked = TRUE, !.drag_error = TRUE]
                \/ \E x, y, z : e' = [e EXCEPT !.drag.asked = TRUE, !.drag.remade = x, !.destination = y,
                                               !.drag_list = z]
    <5> DEFINE remade == IF e.drag.from = "tree" THEN w.tree_selection # e.drag.folder ELSE w.refs = {}
               names == OrNull(NamesOf(Listed(w, list)))
    <5>1. \/ e' = [e EXCEPT !.drag.asked = TRUE, !.drag_error = TRUE]
          \/ e' = [e EXCEPT !.drag.asked = TRUE, !.drag.remade = remade,
                            !.destination = e.drag.number, !.drag_list = names]
     BY <4>1, Zenon DEF Answered
    <5> HIDE DEF remade, names
    <5> QED BY <5>1
   <4> QED BY <4>1, Zenon DEF ListDragDataGet, TreeDragDataGet
  <3> QED BY <1>2, <3>1, <3>2
 <2>2. e'.op = e.op /\ e'.copy_data = e.copy_data /\ e'.excuses = e.excuses
  BY <1>1, <2>1 DEF EditFields
 <2> QED BY <1>1, <2>2, OtherwiseSane
<1>3. CASE DragEnd
 <2> DEFINE dropped == [e EXCEPT !.drag = NoDrag, !.drag_error = FALSE]
            next == [dropped EXCEPT !.drag_list = None, !.dragged = e.drag, !.dropped = e.destination]
 <2>1. \/ e' = dropped \/ e' = [dropped EXCEPT !.crashed = TRUE]
       \/ Begin(next, "drag", << Do("extract", e.drag_list) >>, 0, {})
  BY <1>3, Zenon DEF DragEnd
 <2>2. /\ DOMAIN dropped = EditFields /\ dropped.op = e.op
       /\ dropped.copy_data = e.copy_data /\ dropped.excuses = e.excuses
  BY <1>1 DEF EditFields
 <2> HIDE DEF dropped
 <2>3. /\ DOMAIN next = EditFields /\ next.copy_data = e.copy_data /\ next.excuses = e.excuses
  BY <2>2 DEF EditFields
 <2> HIDE DEF next
 <2>4. CASE e' = dropped \/ e' = [dropped EXCEPT !.crashed = TRUE]
  <3>1. e'.op = e.op /\ e'.copy_data = e.copy_data /\ e'.excuses = e.excuses
   BY <2>2, <2>4 DEF EditFields
  <3> QED BY <1>1, <3>1, OtherwiseSane
 <2>5. CASE Begin(next, "drag", << Do("extract", e.drag_list) >>, 0, {})
  <3> DEFINE op == [kind |-> "drag", steps |-> << Do("extract", e.drag_list) >>, apart |-> 0]
  <3>1. op.kind \in Reading BY DEF Reading
  <3>2. PICK x : e' = [next EXCEPT !.edits = x, !.op = op, !.excuses = @ \cup {}]
   BY <2>5 DEF Begin
  <3> HIDE DEF op
  <3>3. e'.op = op /\ e'.copy_data = e.copy_data /\ e'.excuses = e.excuses
   BY <2>3, <3>2 DEF EditFields
  <3> QED BY <1>1, <3>1, <3>3, OtherwiseSane
 <2> QED BY <2>1, <2>4, <2>5
<1>4. CASE DraggedOut
 <2>1. e'.op = NoOp /\ e'.copy_data = e.copy_data /\ e'.excuses = e.excuses
  BY <1>1, <1>4 DEF EditFields, DraggedOut
 <2> QED BY <1>1, <2>1, OtherwiseSane
<1> QED BY <1>2, <1>3, <1>4

LEMMA InitSane ==
    ASSUME Init PROVE SaneInv
<1>1. e.copy_data = None /\ e.op = NoOp /\ disk \in Archives BY DEF Init, EditInit
<1>2. Sane(disk) BY <1>1, EditAssumption DEF Sane
<1>3. ~Runs(e) BY <1>1 DEF NoOp, Runs
<1> QED BY <1>1, <1>2, <1>3 DEF SaneInv, CopyOK

LEMMA NextSane ==
    ASSUME IInv, SaneInv, [Next]_vars PROVE SaneInv'
<1>1. CASE UNCHANGED vars
 <2> QED BY <1>1, OtherwiseSane DEF vars
<1>2. CASE Next
 <2>1. Delete \/ RenameRow \/ RenameFolder \/ CopyOrCut \/ Paste \/ Update \/ Finish => SaneInv'
  BY DeleteSane, RenameRowSane, RenameFolderSane, CopyOrCutSane, PastedSane, UpdatedSane, FinishSane
 <2>2. OpenFiles \/ FilesOpened \/ Modified \/ CancelUpdate => SaneInv' BY OpenedSane
 <2>3. DragRows \/ DragFolder \/ ListDragDataGet \/ TreeDragDataGet \/ DragEnd \/ DraggedOut => SaneInv'
  BY DraggedSane
 <2>4. BrowseStep => SaneInv' BY BrowseSane
 <2> QED BY <1>2, <2>1, <2>2, <2>3, <2>4, Zenon DEF Next
<1> QED BY <1>1, <1>2

----
(* What is done to a row is done to what it shows. *)

BelowIn(members, path) == {m \in members : IsPrefix(path, m.path)}
ItselfIn(members, path) == {m \in members : IsPrefix(path, m.path) /\ m.kind = "folder" /\ m.path = path}

\* A file alone has its path, and nothing is below it.
LEMMA FileAlone ==
    ASSUME NEW members, Entries(members), Sound(members), NEW entry \in members, ~IsDir(entry)
    PROVE  BelowIn(members, entry.path) \ ItselfIn(members, entry.path) = {entry}
<1>1. entry.kind = "file" /\ IsPrefix(entry.path, entry.path) BY FrontOf DEF IsDir, Entries
<1>2. \A m \in members : IsPrefix(entry.path, m.path) => m = entry BY <1>1 DEF Sound
<1> QED BY <1>1, <1>2 DEF BelowIn, ItselfIn

LEMMA ListNameIs ==
    ASSUME NEW s, NEW entry
    PROVE  LET m == ListName(s, entry)
           IN \/ m \in s.names /\ m.entry = entry
              \/ ~m.list_dir /\ ~\E x \in s.names : x.entry = entry
<1> DEFINE named == {m \in s.names : m.entry = entry}
           none == [entry |-> entry, name |-> None, list_dir |-> FALSE]
<1>1. ListName(s, entry) = IF named = {} THEN none ELSE CHOOSE m \in named : TRUE
 BY Zenon DEF ListName
<1>2. ~none.list_dir OBVIOUS
<1> HIDE DEF none
<1> QED BY <1>1, <1>2

\* In the flat list.
LEMMA FlatRow ==
    ASSUME NEW s, Window(s), Sound(Range(s.files)), s.list_mode = "FLAT", \A m \in s.names : NameMade(s, m),
           NEW row, row.entry \in Range(s.files), RowMade(s, row)
    PROVE  /\ RenamePath(s, row) = row.shown
           /\ ~IsDir(row.entry) => RowFiles(s, row) = BelowIn(Range(s.files), row.shown)
                                                      \ ItselfIn(Range(s.files), row.shown)
<1> DEFINE m == ListName(s, row.entry)
           name == IF m.name = None THEN <<>> ELSE <<m.name>>
           place == Location(s) \o name
<1>1. ~m.list_dir BY ListNameIs DEF NameMade
<1>2. /\ RenamePath(s, row) = IF m.list_dir /\ ~IsDir(row.entry) THEN Append(Location(s), m.name)
                              ELSE row.entry.path
      /\ RowFiles(s, row) = IF IsDir(row.entry) \/ m.list_dir THEN DirList(s, place) ELSE {row.entry}
 BY Zenon DEF RenamePath, RowFiles
<1>3. row.shown = row.entry.path BY DEF RowMade
<1>4. Entries(Range(s.files)) BY Zenon DEF Window
<1> HIDE DEF m, place
<1> QED BY <1>1, <1>2, <1>3, <1>4, FileAlone

\* In the list of a folder.
LEMMA FolderRow ==
    ASSUME NEW s, Window(s), Sane(Range(s.files)), s.list_mode # "FLAT", \A m \in s.names : NameMade(s, m),
           NEW row, row.entry \in Range(s.files), RowMade(s, row)
    PROVE  /\ RenamePath(s, row) = row.shown \/ (IsDir(row.entry) /\ IsPrefix(row.shown, row.entry.path))
           /\ RowFiles(s, row) = BelowIn(Range(s.files), row.shown) \ ItselfIn(Range(s.files), row.shown)
<1> DEFINE m == ListName(s, row.entry)
           name == IF m.name = None THEN <<>> ELSE <<m.name>>
           here == Location(s)
           n == Len(here) + 1
           p == row.entry.path
           members == Range(s.files)
           shown == row.shown
<1>1. shown = SubSeq(p, 1, n) /\ \E x \in s.names : x.entry = row.entry BY DEF RowMade
<1>2. m \in s.names /\ m.entry = row.entry BY <1>1, ListNameIs
<1>3. /\ RenamePath(s, row) = IF m.list_dir /\ ~IsDir(row.entry) THEN Append(here, m.name) ELSE p
      /\ RowFiles(s, row) = IF IsDir(row.entry) \/ m.list_dir THEN DirList(s, here \o name) ELSE {row.entry}
 BY Zenon DEF RenamePath, RowFiles
<1>4. m.name \in Names BY <1>2 DEF Window
<1> HIDE DEF m
<1>5. m.list_dir = (Len(p) > n) /\ IsPrefix(here, p) /\ Len(p) >= n /\ m.name = p[n]
 BY <1>2 DEF NameMade
<1>6. here \in Seq(Names) /\ p \in Seq(Names) /\ Len(p) \in Nat /\ n \in Nat /\ n >= 1 /\ Entries(members) /\ p \in Paths
 <2>1. here \in Seq(Names) /\ Entries(members) BY LocationTyped, Zenon DEF Window
 <2> QED BY <2>1 DEF Entries, Paths
<1>7. name = <<m.name>> BY <1>4, BrowseAssumption
<1> HIDE DEF name, here
<1>8. here \o <<m.name>> = Append(here, m.name) BY <1>4, <1>6
<1>9. Append(here, m.name) = shown BY <1>1, <1>5, <1>6, BeginsTheSame
<1>10. shown \in Seq(Names) /\ Len(shown) = n /\ IsPrefix(shown, p) /\ (Len(p) = n => shown = p)
 <2>1. n \in 0..Len(p) BY <1>5, <1>6
 <2>2. shown \in Seq(Names) /\ Len(shown) = n /\ \A i \in 1..n : shown[i] = p[i]
  BY <1>1, <1>6, <2>1, FrontIs
 <2> HIDE DEF shown, p
 <2>3. IsPrefix(shown, p) BY <1>5, <1>6, <2>2, PrefixIs DEF Agree
 <2>4. Len(p) = n => shown = p BY <1>6, <2>2, SeqEqual
 <2> QED BY <2>2, <2>3, <2>4
<1> HIDE DEF n, p, shown, members
<1>14. (m.list_dir => Len(p) > n) /\ (~m.list_dir => ~(Len(p) > n)) BY <1>5, Zenon
<1>15. ~m.list_dir => shown = p BY <1>5, <1>6, <1>10, <1>14
<1>11. RenamePath(s, row) = shown \/ (IsDir(row.entry) /\ IsPrefix(shown, p))
 BY <1>3, <1>9, <1>10, <1>15, Zenon
<1>12. CASE IsDir(row.entry) \/ m.list_dir
 <2>1. RowFiles(s, row) = {x \in members : Inside(shown, x)}
  BY <1>3, <1>7, <1>8, <1>9, <1>12 DEF DirList, members
 <2>2. ASSUME NEW x \in members, IsPrefix(shown, x.path)
       PROVE  Inside(shown, x) <=> ~(x.kind = "folder" /\ x.path = shown)
  <3>1. x.path \in Seq(Names) /\ Len(x.path) \in Nat /\ n <= Len(x.path) /\ (Len(x.path) = n => x.path = shown)
   <4>1. x.path \in Seq(Names) BY <1>6 DEF Entries, Paths
   <4>2. Len(x.path) \in Nat /\ Agree(shown, x.path, n) BY <1>10, <2>2, <4>1, PrefixIs
   <4>3. Len(x.path) = Len(shown) => x.path = shown BY <1>10, <2>2, <4>1, PrefixOn
   <4> QED BY <1>10, <4>1, <4>2, <4>3 DEF Agree
  <3>2. x.kind = "file" => x.path # shown
   <4> SUFFICES ASSUME x.kind = "file", x.path = shown PROVE FALSE OBVIOUS
   <4>1. x = row.entry BY <1>10 DEF Sane, Sound, p, members
   <4>2. ~IsDir(row.entry) /\ p = shown BY <4>1 DEF IsDir, p
   <4> QED BY <1>6, <1>10, <1>12, <1>14, <4>1, <4>2
  <3>3. x.kind \in {"file", "folder", "folder/"} BY DEF Sane, Uniform, members
  <3> QED BY <1>6, <1>10, <2>2, <3>1, <3>2, <3>3 DEF Inside, Slash
 <2>3. RowFiles(s, row) = BelowIn(members, shown) \ ItselfIn(members, shown)
  <3> HIDE DEF members
  <3>1. \A x : Inside(shown, x) => IsPrefix(shown, x.path) BY DEF Inside
  <3> QED BY <2>1, <2>2, <3>1 DEF BelowIn, ItselfIn
 <2> QED BY <1>11, <2>3 DEF members, shown, p
<1>13. CASE ~(IsDir(row.entry) \/ m.list_dir)
 <2>1. shown = p /\ RowFiles(s, row) = {row.entry} BY <1>3, <1>13, <1>15, Zenon
 <2> QED BY <1>6, <1>11, <1>13, <2>1, FileAlone DEF Sane, members, shown, p
<1> QED BY <1>12, <1>13

LEMMA RowsShown ==
    ASSUME IInv, SaneInv, Settled, DirExists(w.files, Location(w)), "over" \notin e.excuses, NEW row \in w.rows
    PROVE  LET below == { m \in disk : IsPrefix(row.shown, m.path) }
               itself == { m \in below : m.kind = "folder" /\ m.path = row.shown }
           IN /\ (w.list_mode = "FLAT" /\ IsDir(row.entry)) \/ RowFiles(w, row) = below \ itself
              /\ RenamePath(w, row) = row.shown
                 \/ (IsDir(row.entry) /\ IsPrefix(row.shown, row.entry.path))
<1>1. ~w.loading /\ ~Stuck /\ w.archive_present /\ Window(w) /\ Read(w) BY CountIs DEF Settled, IInv
<1>2. Range(w.files) = disk /\ w.rows_live /\ Made(w) BY <1>1 DEF IInv, Follows, Sees, Shown
<1>3. (\A m \in w.names : NameMade(w, m)) /\ RowMade(w, row) BY <1>2 DEF Made
<1>4. row.entry \in Range(w.files) /\ Sane(Range(w.files)) BY <1>1, <1>2 DEF Read, SaneInv
<1>5. CASE w.list_mode = "FLAT" BY <1>1, <1>2, <1>3, <1>4, <1>5, FlatRow DEF Sane, BelowIn, ItselfIn
<1>6. CASE w.list_mode # "FLAT" BY <1>1, <1>2, <1>3, <1>4, <1>6, FolderRow DEF BelowIn, ItselfIn
<1> QED BY <1>5, <1>6

\* What is done to a row is done to what it shows, and it is what gets renamed, with the
\* exceptions that ActsOnWhatIsShownUnless names; what is dragged out is right, and the window
\* is busy only while something goes on (fr_window_get_file_list_selection,
\* fr_window_rename_selection, fr_window_drag_data_get).
THEOREM ActsOnWhatIsShown == Spec => []ActsOnWhatIsShownUnless
<1>1. Init => SaneInv BY InitSane
<1>2. IInv /\ SaneInv /\ [Next]_vars => SaneInv' BY NextSane
<1>3. IInv /\ SaneInv /\ DragsOutWhatWasDragged => ActsOnWhatIsShownUnless
 <2> SUFFICES ASSUME IInv, SaneInv, DragsOutWhatWasDragged PROVE ActsOnWhatIsShownUnless OBVIOUS
 <2>1. w.activity_ref > 0 => (w.loading \/ Runs(e) \/ w.icons_changed) BY CountIs
 <2> QED BY <2>1, RowsShown, Zenon DEF ActsOnWhatIsShownUnless
<1> QED BY <1>1, <1>2, <1>3, DragsOutRight, WindowFollowsArchive, PTL DEF Spec
====

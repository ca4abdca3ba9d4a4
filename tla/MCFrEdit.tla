---- MODULE MCFrEdit ----
EXTENDS FrEdit

MCNameOrder == <<"a", "ab", "x", Garbled>>
MCBegins == { <<n, n>> : n \in Range(MCNameOrder) } \cup { <<"a", "ab">> }
Entry(path, kind, rooted) ==
    [path |-> path, kind |-> kind, rooted |-> rooted,
     data |-> IF kind = "file" THEN <<path, 0>> ELSE None]
MCArchives == {
    { Entry(<<"a">>, "folder/", FALSE), Entry(<<"a", "x">>, "file", FALSE), Entry(<<"x">>, "file", FALSE) },
    { Entry(<<"a">>, "folder", FALSE), Entry(<<"ab">>, "folder", FALSE), Entry(<<"ab", "x">>, "file", FALSE) },
    { Entry(<<"ab", "a">>, "folder/", TRUE), Entry(<<"a", "x">>, "file", TRUE) },
    { Entry(<<"a">>, "folder", FALSE), Entry(<<"a", "x">>, "folder", FALSE), Entry(<<"a", "x", "x">>, "file", FALSE) } }
====

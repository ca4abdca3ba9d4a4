---- MODULE MCGioUtils ----
(* Small instances of GioUtils and FrExtractHere for TLC. *)
EXTENDS FrExtractHere

Nested ==
    [kind |-> [top |-> "dir", deep |-> "dir", empty |-> "dir", f |-> "file", g |-> "file", h |-> "file"],
     children |-> [base |-> <<"top", "f">>, top |-> <<"g", "deep", "empty">>, deep |-> <<"h">>, empty |-> <<>>]]

\* A link to the folder it is in, a broken one and a socket.
Looped ==
    [kind |-> [top |-> "dir", deep |-> "dir", loop |-> "link", broken |-> "link", socket |-> "special", f |-> "file"],
     target |-> [loop |-> "top", broken |-> None],
     children |-> [base |-> <<"top", "socket">>, top |-> <<"deep", "loop">>, deep |-> <<"f", "broken">>]]

\* A link to a folder that is found anyway.
Shared ==
    [kind |-> [top |-> "dir", other |-> "link", f |-> "file", g |-> "file"],
     target |-> [other |-> "top"],
     children |-> [base |-> <<"other", "top", "g">>, top |-> <<"f">>]]

MCTrees == {Nested, Looped, Shared}

All == {"base", "top", "deep", "empty", "loop", "broken", "socket", "other", "f", "g", "h"}
NoFilter == [pattern |-> FALSE, names |-> All]
Of(names) == [pattern |-> TRUE, names |-> names]

Copy ==
    [name |-> "copy", directory |-> <<>>, follow_links |-> TRUE, remote |-> FALSE,
     include |-> NoFilter, exclude |-> NoFilter, exclude_folders |-> NoFilter]

MCOperations ==
    {Copy}
        \cup {[Copy EXCEPT !.name = "items", !.remote = r] : r \in BOOLEAN}
        \cup {[Copy EXCEPT !.name = "list", !.directory = <<"top">>, !.remote = r] : r \in BOOLEAN}
        \cup {[Copy EXCEPT !.name = "list", !.include = i, !.exclude = e, !.exclude_folders = x,
                           !.follow_links = l, !.remote = r] :
                 i \in {NoFilter, Of({"h", "f"}), [NoFilter EXCEPT !.names = @ \ {"g"}]},
                 e \in {NoFilter, Of({"f"})}, x \in {NoFilter, Of({"deep"})},
                 l \in BOOLEAN, r \in BOOLEAN}
====

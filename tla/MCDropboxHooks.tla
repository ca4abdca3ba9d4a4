---- MODULE MCDropboxHooks ----
(* Small instances of DropboxHooks for TLC. *)
EXTENDS DropboxHooks

\* A message without arguments, one with one, two with too many, and one with a
\* line that is no argument.
MCMessages == { <<"name", "done">>, <<"name", "arg", "done">>,
                <<"name", "arg", "arg", "done">>,
                <<"name", "arg", "arg", "arg", "done">>, <<"name", "junk", "done">> }
====

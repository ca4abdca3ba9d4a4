---- MODULE MCDropboxCommandClient ----
(* Small instances of DropboxCommandClient for TLC. *)
EXTENDS DropboxCommandClient

\* A served command, one without arguments, a refusal, a reply with a line that
\* is no argument, and one with too many arguments.
MCReplies == { <<"ok", "done">>, <<"ok", "arg", "done">>, <<"notok", "done">>,
               <<"ok", "notok", "done">>, <<"ok", "arg", "arg", "done">> }
====

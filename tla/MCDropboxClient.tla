---- MODULE MCDropboxClient ----
(* Small instances of DropboxClient for TLC. *)
EXTENDS DropboxClient
====

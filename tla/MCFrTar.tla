---- MODULE MCFrTar ----
(* Small instances of FrTar for TLC. *)
EXTENDS FrTar, TLC

TarOps == {"mv_away", "decompress", "gzip", "delete", "add", "create", "compress", "mv_back",
           "rm_dir", "rm_list"}
NoScripts == {}
====

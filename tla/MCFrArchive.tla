---- MODULE MCFrArchive ----
EXTENDS FrArchive

CONSTANTS d, f, g

\* A folder here, one file there, and one far away.
MCHome == (d :> "here") @@ (f :> "there") @@ (g :> "far")
====

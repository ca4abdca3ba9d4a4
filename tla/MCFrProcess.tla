---- MODULE MCFrProcess ----
(* Small instances of FrProcess for TLC. *)
EXTENDS FrProcess, TLC

CONSTANT MaxCommands  \* bound: commands of a script

\* The kinds of command the back ends write: plain, sticky, with its errors ignored
\* (delete before add), and gzip when the archive is packed again.  gzip -d, which has
\* a continue function and is not sticky, is in the scripts of FrTar.
Plain == BeginCommand(<<>>, "run")[1]
Kinds == {Plain, [Plain EXCEPT !.sticky = TRUE], [Plain EXCEPT !.ignore_error = TRUE],
          [Plain EXCEPT !.sticky = TRUE, !.continue_func = TRUE]}

MCOps == {"run"}
MCScripts == UNION {[1 .. n -> Kinds] : n \in 0 .. MaxCommands}
====

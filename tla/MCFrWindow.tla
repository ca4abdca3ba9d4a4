---- MODULE MCFrWindow ----
EXTENDS FrWindow

\* A name stands for what it says.
MCKind == [archive \in Archives |-> archive]
MCThere == ("new" :> "nothing") @@ ("one" :> "file") @@ ("two" :> "file") @@ ("dir" :> "folder")
MCSelections == { <<>>, <<"new", "one", "two">>, <<"dir">> }
====

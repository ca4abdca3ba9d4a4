---- MODULE MCFrBackEnds ----
(* Small instances of FrBackEnds for TLC. *)
EXTENDS FrBackEnds, TLC

CONSTANTS a, b

AllBackEnds == DOMAIN BackEnd
AllOps == CommandOps
NoScripts == {}

\* The places of one file vary, those of the other are free.
Free == [top |-> "nothing", folder |-> "nothing"]
Occupied == {[f \in {a, b} |-> IF f = a THEN [top |-> t, folder |-> d] ELSE Free] :
                t \in {"nothing", "older", "newer"}, d \in {"nothing", "older", "newer"}}
====
